----------------------------- MODULE ResearchProofs -----------------------------
(***************************************************************************)
(* Safety of what research rests on: the corrections of macro releases,    *)
(* the archive of market data, replayed cases, campaigns, contexts, and    *)
(* the history of the events extracted of observed rates.                  *)
(* A process reads in one query and commits in a later one, and in between *)
(* the others go on; the invariants say what it still knows by then.       *)
(***************************************************************************)
EXTENDS ResearchDesk, CommandSessionsProofs, FiniteSetTheorems, SequenceTheorems

\* The processes of any part begin idle.
LEMMA DeskStarts ==
    ASSUME Init
    PROVE  SessionsOK /\ \A o \in Operators : job[o] = Idle
<1>1. /\ SessionsInit(MaxCommands - CommandsOf[part])
      /\ MaxCommands - CommandsOf[part] \in Int
      /\ MaxCommands - CommandsOf[part] <= MaxCommands
  BY DeskAssumption, SessionsAssumption DEF Init
<1>2. QED
  BY <1>1, SessionsStart

-----------------------------------------------------------------------------
(* Macro releases and their corrections.                                   *)

MacroRows ==
    /\ MacroTypeOK
    /\ \A r \in releases : CorrectionHolds(r)

MacroJob(j) ==
    /\ j.pc = "macro_insert" => j.row \in Release /\ CorrectionHolds(j.row)
    /\ j.pc = "trend_insert" => j.rows \subseteq Trend

MacroInv ==
    /\ part = "macro" => SessionsOK /\ \A o \in Operators : MacroJob(job[o])
    /\ MacroRows

LEMMA MacroPart ==
    ASSUME [Next]_vars
    PROVE  /\ part' = part
           /\ part # "macro" => UNCHANGED macroVars
           /\ part = "macro" =>
                 \/ \E o \in Operators : MacroNext(o)
                 \/ (\E o \in Operators : Dies(o)) /\ UNCHANGED macroVars
                 \/ Tick /\ UNCHANGED macroVars
                 \/ UNCHANGED <<sessionVars, macroVars>>
BY DEF Next, vars, Lab, Study, Evolution, Source, Replay, Research, Campaign, Agents, Arrival, Outside, sourceVars

\* Releases are only added.
LEMMA MacroStep ==
    ASSUME MacroInv, part = "macro", part' = part, SessionsOK', releases \subseteq releases', MacroTypeOK',
           \A r \in releases' : r \in releases \/ CorrectionHolds(r),
           NEW o \in Operators, MacroJob(job'[o]),
           \A q \in Operators : q # o => job'[q] = job[q]
    PROVE  MacroInv'
<1>1. \A r : CorrectionHolds(r) => CorrectionHolds(r)'
  BY DEF CorrectionHolds, ReleaseKeys
<1>2. \A j : MacroJob(j) => MacroJob(j)'
  BY <1>1 DEF MacroJob
<1>3. \A q \in Operators : MacroJob(job[q])'
  BY <1>2 DEF MacroInv, MacroJob
<1>4. QED
  BY <1>1, <1>3 DEF MacroInv, MacroRows

\* The trend of any releases that were visible: its last period is the last of its inputs.
LEMMA TrendTypes ==
    ASSUME NEW visible \in SUBSET ReleaseKey, visible # {}, NEW window \in Windows, NEW cutoff \in Time
    PROVE  TrendOf(visible, window, cutoff) \in Trend
<1> DEFINE later(k) == {q \in visible : q.period > k.period}
           inputs == {k \in visible : Cardinality(later(k)) < window}
           periods == {k.period : k \in inputs}
<1>1. PICK k \in visible : \A q \in visible : q.period <= k.period
  <2> DEFINE all == {q.period : q \in visible}
  <2>1. /\ all \subseteq Nat /\ all # {} /\ \A x \in all : x <= MaxPeriod
    BY MacroAssumption DEF ReleaseKey, Period
  <2>2. PICK x \in all : \A y \in all : y <= x
    <3> HIDE DEF all
    <3>1. QED
      BY <2>1, MacroAssumption, GreatestNatural
  <2>3. QED
    BY <2>2
<1>2. k \in inputs
  <2>1. later(k) = {}
    BY <1>1, MacroAssumption DEF ReleaseKey, Period
  <2>2. Cardinality(later(k)) = 0
    BY <2>1, FS_EmptySet
  <2>3. QED
    BY <2>2, MacroAssumption
<1>3. k.period \in Period
      /\ \E i \in inputs : i.period = k.period /\ \A q \in inputs : q.period <= k.period
  <2>1. \A q \in inputs : q.period <= k.period
    BY <1>1
  <2>2. QED
    BY <1>2, <2>1 DEF ReleaseKey
<1>4. inputs \subseteq ReleaseKey
  OBVIOUS
<1> HIDE DEF inputs
<1>5. (CHOOSE p \in Period : \E i \in inputs : i.period = p /\ \A q \in inputs : q.period <= p) \in Period
  BY <1>3
<1> USE DEF inputs
<1>6. TrendOf(visible, window, cutoff) =
         [window |-> window, at |-> cutoff, inputs |-> inputs,
          asof |-> CHOOSE p \in Period : \E i \in inputs : i.period = p /\ \A q \in inputs : q.period <= p]
  BY DEF TrendOf
<1> HIDE DEF inputs
<1>7. QED
  BY <1>4, <1>5, <1>6 DEF Trend

LEMMA VisibleKeys ==
    ASSUME MacroTypeOK, NEW cutoff, NEW visible \in VisibleSets(cutoff)
    PROVE  /\ visible \subseteq ReleaseKey
           /\ \A k \in visible : \A q \in ReleaseKeys :
                 q.period = k.period /\ q.at <= cutoff => q.at <= k.at
<1> DEFINE of(p) == {k \in ReleaseKeys : k.period = p /\ k.at <= cutoff}
           last(p) == {k \in of(p) : \A q \in of(p) : q.at <= k.at}
           periods == {p \in Period : of(p) # {}}
<1>1. PICK pick \in [periods -> ReleaseKeys] :
          (\A p \in periods : pick[p] \in last(p)) /\ visible = {pick[p] : p \in periods}
  BY DEF VisibleSets
<1>2. ASSUME NEW k \in visible
      PROVE  k \in ReleaseKeys /\ \A q \in ReleaseKeys : q.period = k.period /\ q.at <= cutoff => q.at <= k.at
  <2>1. PICK p \in periods : k = pick[p] /\ k \in last(p)
    BY <1>1
  <2>2. QED
    BY <2>1
<1>3. ReleaseKeys \subseteq ReleaseKey
  BY DEF MacroTypeOK, ReleaseKeys, Release
<1>4. QED
  BY <1>2, <1>3

LEMMA MacroNextKeeps ==
    ASSUME MacroInv, part = "macro", part' = part, NEW o \in Operators, MacroNext(o)
    PROVE  MacroInv'
<1>1. SessionsOK /\ MacroTypeOK /\ MacroJob(job[o])
  BY DEF MacroInv, MacroRows
<1>2. CASE BeginMacroIngest(o)
  <2>1. PICK r \in [key: ReleaseKey, revises: ReleaseKeys \cup {NoRelease}] :
            CorrectionHolds(r) /\ Begin(o, [pc |-> "macro_insert", row |-> r]) /\ UNCHANGED macroVars
    BY <1>2 DEF BeginMacroIngest
  <2>2. r \in Release
    BY <1>1, <2>1 DEF Release, ReleaseKeys, MacroTypeOK
  <2>3. MacroJob([pc |-> "macro_insert", row |-> r])
    BY <2>1, <2>2 DEF MacroJob
  <2>4. MacroTypeOK' /\ releases' = releases
    BY <1>1, <2>1 DEF macroVars, MacroTypeOK
  <2>5. QED
    BY <1>1, <2>1, <2>3, <2>4, OneBegins, MacroStep
<1>3. CASE BeginTrends(o)
  <2>1. PICK cutoff \in 0..now : \E visible \in VisibleSets(cutoff) :
            /\ visible # {}
            /\ Begin(o, [pc |-> "trend_insert", rows |-> {TrendOf(visible, w, cutoff) : w \in Windows}])
    BY <1>3 DEF BeginTrends
  <2>2. PICK visible \in VisibleSets(cutoff) :
            /\ visible # {}
            /\ Begin(o, [pc |-> "trend_insert", rows |-> {TrendOf(visible, w, cutoff) : w \in Windows}])
    BY <2>1
  <2>3. cutoff \in Time /\ visible \subseteq ReleaseKey
    BY <1>1, VisibleKeys, SessionsAssumption DEF SessionsOK, Time
  <2>4. MacroJob([pc |-> "trend_insert", rows |-> {TrendOf(visible, w, cutoff) : w \in Windows}])
    BY <2>2, <2>3, TrendTypes DEF MacroJob
  <2>5. MacroTypeOK' /\ releases' = releases
    BY <1>1, <1>3 DEF macroVars, MacroTypeOK, BeginTrends
  <2>6. QED
    BY <1>1, <2>2, <2>4, <2>5, OneBegins, MacroStep
<1>4. CASE CommitMacro(o)
  <2>1. /\ job[o].row \in Release /\ CorrectionHolds(job[o].row)
        /\ releases' = releases \cup {job[o].row} /\ Finish(o) /\ UNCHANGED trends
    BY <1>1, <1>4 DEF CommitMacro, At, MacroJob
  <2>2. MacroTypeOK' /\ MacroJob(Idle)
    BY <1>1, <2>1 DEF MacroTypeOK, MacroJob, Idle
  <2>3. QED
    BY <1>1, <2>1, <2>2, OneFinishes, MacroStep
<1>5. CASE CommitTrends(o)
  <2>1. job[o].rows \subseteq Trend /\ trends' = trends \cup job[o].rows /\ Finish(o) /\ releases' = releases
    BY <1>1, <1>5 DEF CommitTrends, At, MacroJob
  <2>2. MacroTypeOK' /\ MacroJob(Idle)
    BY <1>1, <2>1 DEF MacroTypeOK, MacroJob, Idle
  <2>3. QED
    BY <1>1, <2>1, <2>2, OneFinishes, MacroStep
<1>6. QED
  BY <1>2, <1>3, <1>4, <1>5 DEF MacroNext

LEMMA MacroStarts == Init => MacroInv
<1> SUFFICES ASSUME Init PROVE MacroInv
  OBVIOUS
<1>1. MacroJob(Idle)
  BY DEF MacroJob, Idle
<1>2. MacroRows
  BY DEF Init, MacroInit, MacroRows, MacroTypeOK
<1>3. QED
  BY <1>1, <1>2, DeskStarts DEF MacroInv

LEMMA MacroKept == MacroInv /\ [Next]_vars => MacroInv'
<1> SUFFICES ASSUME MacroInv, [Next]_vars PROVE MacroInv'
  OBVIOUS
<1>1. part' = part
  BY MacroPart
<1>2. ASSUME UNCHANGED macroVars
      PROVE  MacroRows' /\ releases' = releases /\ \A j : MacroJob(j) => MacroJob(j)'
  BY <1>2 DEF MacroInv, MacroRows, MacroTypeOK, macroVars, CorrectionHolds, ReleaseKeys, MacroJob
<1>3. CASE part # "macro"
  BY <1>1, <1>2, <1>3, MacroPart DEF MacroInv
<1>4. CASE part = "macro"
  <2>1. ASSUME NEW o \in Operators, Dies(o), UNCHANGED macroVars PROVE MacroInv'
    <3>1. MacroTypeOK' /\ MacroJob(Idle)
      BY <1>2, <2>1 DEF MacroRows, MacroJob, Idle
    <3>2. QED
      BY <1>1, <1>2, <1>4, <2>1, <3>1, OneFinishes, MacroStep DEF Dies, MacroInv
  <2>2. ASSUME Tick \/ UNCHANGED sessionVars, UNCHANGED macroVars PROVE MacroInv'
    <3>1. SessionsOK' /\ job' = job
      BY <1>4, <2>2, ClockTicks, NothingHappens DEF MacroInv
    <3>2. QED
      BY <1>1, <1>2, <1>4, <2>2, <3>1 DEF MacroInv
  <2>3. QED
    BY <1>1, <1>4, <2>1, <2>2, MacroNextKeeps, MacroPart
<1>5. QED
  BY <1>3, <1>4

\* What every command of macro/ and trends/ preserves: releases that follow the release they
\* correct, whether stored or about to be.
THEOREM MacroInductive == Spec => []MacroInv
BY MacroStarts, MacroKept, PTL DEF Spec

\* Releases and trends are of their types: a trend has a last period, the last of its inputs.
THEOREM MacroTypes == Spec => []MacroTypeOK
<1>1. MacroInv => MacroTypeOK
  BY DEF MacroInv, MacroRows
<1>2. QED
  BY <1>1, MacroInductive, PTL

\* From its observation on a correction hides what it corrects, at every cutoff and in
\* every order of ingestion (add_observation, observations_visible_at).
THEOREM CorrectionsAlwaysSupersede == Spec => []CorrectionsSupersede
<1>1. ASSUME MacroInv PROVE CorrectionsSupersede
  <2> SUFFICES ASSUME NEW r \in releases, NEW cutoff \in Time, r.revises # NoRelease, cutoff >= r.key.at,
                      NEW visible \in VisibleSets(cutoff), r.revises \in visible
               PROVE  FALSE
    BY DEF CorrectionsSupersede
  <2>1. /\ r.key \in ReleaseKeys /\ r.key \in ReleaseKey /\ r.revises \in ReleaseKey
        /\ r.revises.period = r.key.period /\ r.revises.at < r.key.at
    BY <1>1 DEF MacroInv, MacroRows, MacroTypeOK, Release, CorrectionHolds, ReleaseKeys
  <2>2. r.key.at <= r.revises.at
    BY <1>1, <2>1, VisibleKeys DEF MacroInv, MacroRows, Time, ReleaseKey
  <2>3. QED
    BY <2>1, <2>2 DEF ReleaseKey, Time
<1>2. QED
  BY <1>1, MacroInductive, PTL

-----------------------------------------------------------------------------
(* The archive of market data.                                             *)

Matched(file) == \A b \in file : yearFiles[b.year] = b

MarketRows ==
    /\ MarketTypeOK
    /\ partitions \subseteq blobs
    /\ \A r \in catalog : r.partition \in partitions /\ r.bar \in r.partition
    /\ ManifestsMatchTheirFiles

\* What is linked has a bar for a year; what was linked, published and selected stays so.
MarketJob(j) ==
    /\ j.pc = "linking" =>
          /\ j = [pc |-> "linking", left |-> j.left, bars |-> j.bars]
          /\ j.bars \subseteq Bar
          /\ \A b, c \in j.bars : b.year = c.year => b = c
          /\ \A b \in j.bars : b.year \notin j.left => yearFiles[b.year] = b
    /\ j.pc \in {"publishing", "selecting"} =>
          /\ j = [pc |-> j.pc, bars |-> j.bars, dataset |-> j.dataset]
          /\ j.bars \subseteq Bar
          /\ j.dataset \in BOOLEAN
          /\ j.dataset => Matched(j.bars)
          /\ j.pc = "selecting" => j.bars \in blobs
    /\ j.pc \in {"manifesting", "cataloguing"} =>
          /\ j = [pc |-> j.pc, bars |-> j.bars, new |-> j.new, register |-> j.register]
          /\ j.bars \in blobs
          /\ j.new \subseteq j.bars
          /\ j.pc = "manifesting" => Matched(j.bars)

MarketInv ==
    /\ part = "market" => SessionsOK /\ \A o \in Operators : MarketJob(job[o])
    /\ MarketRows

LEMMA MarketPart ==
    ASSUME [Next]_vars
    PROVE  /\ part' = part
           /\ part # "market" => UNCHANGED marketVars
           /\ part = "market" =>
                 \/ \E o \in Operators : MarketNext(o)
                 \/ (\E o \in Operators : Dies(o)) /\ UNCHANGED marketVars
                 \/ Tick /\ UNCHANGED marketVars
                 \/ UNCHANGED <<sessionVars, marketVars>>
BY DEF Next, vars, Lab, Study, Evolution, Source, Replay, Research, Campaign, Agents, Arrival, Outside, sourceVars

\* No published file is taken away, and no yearly file is replaced.
MarketGrows ==
    /\ blobs \subseteq blobs'
    /\ \A y \in MarketYears : yearFiles[y] # NoBar => yearFiles'[y] = yearFiles[y]

LEMMA BarsHaveYears == \A b \in Bar : b.year \in MarketYears /\ b # NoBar
BY DEF Bar, NoBar

LEMMA MatchedStays ==
    ASSUME MarketGrows, NEW file, file \subseteq Bar, Matched(file)
    PROVE  Matched(file)'
BY BarsHaveYears DEF Matched, MarketGrows

LEMMA MarketJobStays ==
    ASSUME MarketRows, MarketGrows, NEW j, MarketJob(j)
    PROVE  MarketJob(j)'
<1>1. blobs \subseteq SUBSET Bar
  BY DEF MarketRows, MarketTypeOK, Partition
<1>2. j.pc = "linking" => MarketJob(j)'
  BY BarsHaveYears DEF MarketJob, MarketGrows
<1>3. j.pc \in {"publishing", "selecting"} => MarketJob(j)'
  BY MatchedStays DEF MarketJob, MarketGrows
<1>4. j.pc \in {"manifesting", "cataloguing"} => MarketJob(j)'
  BY <1>1, MatchedStays DEF MarketJob, MarketGrows
<1>5. QED
  BY <1>2, <1>3, <1>4 DEF MarketJob

LEMMA MarketStep ==
    ASSUME MarketInv, part = "market", part' = part, SessionsOK', MarketGrows, MarketRows',
           NEW o \in Operators, MarketJob(job[o])',
           \A q \in Operators : q # o => job'[q] = job[q]
    PROVE  MarketInv'
<1>1. \A q \in Operators : MarketJob(job[q])'
  <2> TAKE q \in Operators
  <2>1. CASE q = o
    BY <2>1
  <2>2. CASE q # o
    <3>1. MarketJob(job[q]) /\ job'[q] = job[q]
      BY <2>2 DEF MarketInv
    <3> HIDE DEF MarketGrows
    <3>2. PICK k : k = job[q]
      OBVIOUS
    <3>3. MarketJob(k)'
      BY <3>1, <3>2, MarketJobStays DEF MarketInv
    <3>4. QED
      BY <3>1, <3>2, <3>3 DEF MarketJob, Matched
  <2>3. QED
    BY <2>1, <2>2
<1>2. QED
  BY <1>1 DEF MarketInv

\* A step that leaves every file and row as it was, and what the process then knows.
LEMMA MarketLearns ==
    ASSUME MarketInv, part = "market", part' = part, SessionsOK', UNCHANGED marketVars,
           NEW o \in Operators, NEW j, MarketJob(j), job'[o] = j,
           \A q \in Operators : q # o => job'[q] = job[q]
    PROVE  MarketInv'
<1>1. MarketRows' /\ MarketGrows
  BY DEF MarketInv, MarketRows, MarketTypeOK, ManifestsMatchTheirFiles, MarketGrows, marketVars
<1>2. MarketJob(j)'
  BY <1>1, MarketJobStays DEF MarketInv
<1>3. MarketJob(job[o])'
  BY <1>2
<1>4. QED
  BY <1>1, <1>3, MarketStep

LEMMA IdleMarketJob == MarketJob(Idle)
BY DEF MarketJob, Idle

LEMMA BeginMarketSeedKeeps ==
    ASSUME MarketInv, part = "market", part' = part, NEW o \in Operators, BeginMarketSeed(o)
    PROVE  MarketInv'
<1>1. Begin(o, [pc |-> "market_seeding"]) /\ UNCHANGED marketVars
  BY DEF BeginMarketSeed
<1>2. MarketJob([pc |-> "market_seeding"])
  BY DEF MarketJob
<1>3. QED
  BY <1>1, <1>2, OneBegins, MarketLearns DEF MarketInv

LEMMA CommitMarketSeedKeeps ==
    ASSUME MarketInv, part = "market", part' = part, NEW o \in Operators, CommitMarketSeed(o)
    PROVE  MarketInv'
<1>1. Finish(o) /\ seeded' = TRUE /\ UNCHANGED <<blobs, partitions, catalog, yearFiles, manifests>>
  BY DEF CommitMarketSeed
<1>2. MarketRows' /\ MarketGrows
  BY <1>1 DEF MarketInv, MarketRows, MarketTypeOK, ManifestsMatchTheirFiles, MarketGrows
<1>3. SessionsOK' /\ job'[o] = Idle /\ \A q \in Operators : q # o => job'[q] = job[q]
  BY <1>1, OneFinishes DEF MarketInv
<1>4. MarketJob(Idle)'
  BY IdleMarketJob, <1>2, MarketJobStays DEF MarketInv
<1>5. QED
  BY <1>2, <1>3, <1>4, MarketStep

LEMMA BeginMarketIngestKeeps ==
    ASSUME MarketInv, part = "market", part' = part, NEW o \in Operators, BeginMarketIngest(o)
    PROVE  MarketInv'
<1>1. PICK file \in SUBSET Bar : Begin(o, Publishing(file, FALSE)) /\ UNCHANGED marketVars
  BY DEF BeginMarketIngest
<1>2. MarketJob(Publishing(file, FALSE))
  BY DEF MarketJob, Publishing
<1>3. QED
  BY <1>1, <1>2, OneBegins, MarketLearns DEF MarketInv

LEMMA BeginHistoryKeeps ==
    ASSUME MarketInv, part = "market", part' = part, NEW o \in Operators, BeginHistory(o)
    PROVE  MarketInv'
<1>1. PICK years \in SUBSET MarketYears : \E quote \in [years -> Quotes] :
          /\ \A y \in years : y <= now
          /\ Begin(o, [pc |-> "linking", left |-> years, bars |-> HistoryBars(years, quote, now)])
          /\ UNCHANGED marketVars
  BY DEF BeginHistory
<1>2. PICK quote \in [years -> Quotes] :
          /\ Begin(o, [pc |-> "linking", left |-> years, bars |-> HistoryBars(years, quote, now)])
          /\ UNCHANGED marketVars
  BY <1>1
<1> DEFINE file == HistoryBars(years, quote, now)
<1>3. /\ file \subseteq Bar
      /\ \A b, c \in file : b.year = c.year => b = c
      /\ \A b \in file : b.year \in years
  BY <1>1 DEF HistoryBars, Bar, MarketInv, SessionsOK
<1> HIDE DEF file
<1>4. MarketJob([pc |-> "linking", left |-> years, bars |-> file])
  BY <1>3 DEF MarketJob
<1>5. QED
  BY <1>2, <1>4, OneBegins, MarketLearns DEF MarketInv, file

LEMMA LinkYearKeeps ==
    ASSUME MarketInv, part = "market", part' = part, NEW o \in Operators, LinkYear(o)
    PROVE  MarketInv'
<1>1. PICK b \in job[o].bars :
          /\ job[o].pc = "linking" /\ b.year \in job[o].left
          /\ yearFiles[b.year] \in {NoBar, b}
          /\ yearFiles' = [yearFiles EXCEPT ![b.year] = b]
          /\ Learn(o, [job[o] EXCEPT !.left = @ \ {b.year}])
          /\ UNCHANGED <<seeded, blobs, partitions, catalog, manifests>>
  BY DEF LinkYear, At
<1>2. PICK k : k = job[o]
  OBVIOUS
<1>3. k.pc = "linking" /\ MarketJob(k) /\ MarketRows /\ SessionsOK
  BY <1>1, <1>2 DEF MarketInv
<1>4. PICK left, file : k = [pc |-> "linking", left |-> left, bars |-> file]
  BY <1>3 DEF MarketJob
<1>5. MarketJob([pc |-> "linking", left |-> left, bars |-> file])
  BY <1>4, <1>3
<1>6. b \in k.bars /\ b.year \in k.left
  BY <1>1, <1>2
<1>7. b \in file /\ b \in Bar /\ b.year \in left
  BY <1>4, <1>5, <1>6 DEF MarketJob
<1> DEFINE j == [pc |-> "linking", left |-> left \ {b.year}, bars |-> file]
<1>8. [k EXCEPT !.left = @ \ {b.year}] = j
  BY <1>4
<1>9. SessionsOK' /\ job'[o] = j /\ \A q \in Operators : q # o => job'[q] = job[q]
  BY <1>1, <1>2, <1>3, <1>8, OneLearns
<1>10. /\ b.year \in MarketYears /\ yearFiles'[b.year] = b
       /\ \A y \in MarketYears : yearFiles[y] # NoBar => yearFiles'[y] = yearFiles[y]
       /\ \A y \in MarketYears : y # b.year => yearFiles'[y] = yearFiles[y]
       /\ yearFiles' \in [MarketYears -> Bar \cup {NoBar}]
  BY <1>1, <1>3, <1>7, BarsHaveYears DEF MarketRows, MarketTypeOK
<1>11. MarketGrows
  BY <1>1, <1>10 DEF MarketGrows
<1>12. MarketRows'
  <2>1. MarketTypeOK'
    BY <1>1, <1>3, <1>7, <1>10 DEF MarketRows, MarketTypeOK
  <2>2. ManifestsMatchTheirFiles'
    BY <1>1, <1>3, <1>7, <1>10, BarsHaveYears DEF MarketRows, MarketTypeOK, ManifestsMatchTheirFiles, Manifest
  <2>3. QED
    BY <1>1, <1>3, <1>7, <2>1, <2>2 DEF MarketRows
<1>13. MarketJob(j)'
  <2>1. /\ file \subseteq Bar
        /\ \A x, c \in file : x.year = c.year => x = c
        /\ \A x \in file : x.year \notin left => yearFiles[x.year] = x
    BY <1>5 DEF MarketJob
  <2>2. \A x \in file : x.year \notin left \ {b.year} => yearFiles'[x.year] = x
    BY <1>7, <1>10, <2>1, BarsHaveYears
  <2>3. QED
    BY <2>1, <2>2 DEF MarketJob
<1>14. QED
  BY <1>9, <1>11, <1>12, <1>13, MarketStep

LEMMA LinkDoneKeeps ==
    ASSUME MarketInv, part = "market", part' = part, NEW o \in Operators, LinkDone(o)
    PROVE  MarketInv'
<1>1. job[o].pc = "linking" /\ job[o].left = {} /\ Learn(o, Publishing(job[o].bars, TRUE)) /\ UNCHANGED marketVars
  BY DEF LinkDone, At
<1>2. MarketJob(Publishing(job[o].bars, TRUE))
  BY <1>1 DEF MarketInv, MarketJob, Publishing, Matched
<1>3. QED
  BY <1>1, <1>2, OneLearns, MarketLearns DEF MarketInv

LEMMA PublishKeeps ==
    ASSUME MarketInv, part = "market", part' = part, NEW o \in Operators, Publish(o)
    PROVE  MarketInv'
<1>1. /\ job[o].pc = "publishing" /\ blobs' = blobs \cup {job[o].bars}
      /\ Learn(o, [job[o] EXCEPT !.pc = "selecting"])
      /\ UNCHANGED <<seeded, partitions, catalog, yearFiles, manifests>>
  BY DEF Publish, At
<1>2. PICK k : k = job[o]
  OBVIOUS
<1>3. k.pc = "publishing" /\ MarketJob(k) /\ MarketRows /\ SessionsOK
  BY <1>1, <1>2 DEF MarketInv
<1>4. PICK file, dataset : k = [pc |-> "publishing", bars |-> file, dataset |-> dataset]
  BY <1>3 DEF MarketJob
<1>5. MarketJob([pc |-> "publishing", bars |-> file, dataset |-> dataset]) /\ MarketRows /\ SessionsOK
  BY <1>4, <1>3
<1> DEFINE j == [pc |-> "selecting", bars |-> file, dataset |-> dataset]
<1>6. [k EXCEPT !.pc = "selecting"] = j
  BY <1>4
<1>7. SessionsOK' /\ job'[o] = j /\ \A q \in Operators : q # o => job'[q] = job[q]
  BY <1>1, <1>2, <1>5, <1>6, OneLearns
<1>8. blobs' = blobs \cup {file} /\ file \subseteq Bar
  BY <1>1, <1>2, <1>4, <1>5 DEF MarketJob
<1>9. MarketGrows /\ MarketRows'
  BY <1>1, <1>5, <1>8 DEF MarketGrows, MarketRows, MarketTypeOK, Partition, ManifestsMatchTheirFiles
<1>10. MarketJob(j)'
  BY <1>1, <1>5, <1>8 DEF MarketJob, Matched
<1>11. QED
  BY <1>7, <1>9, <1>10, MarketStep

LEMMA SelectRowsKeeps ==
    ASSUME MarketInv, part = "market", part' = part, NEW o \in Operators, SelectRows(o)
    PROVE  MarketInv'
<1> DEFINE j == [pc |-> IF job[o].dataset THEN "manifesting" ELSE "cataloguing",
                 bars |-> job[o].bars, new |-> job[o].bars \ Catalogued,
                 register |-> job[o].bars \notin partitions]
<1>1. job[o].pc = "selecting" /\ Learn(o, j) /\ UNCHANGED marketVars
  BY DEF SelectRows, At
<1>2. job[o].bars \in blobs /\ (job[o].dataset => Matched(job[o].bars))
  BY <1>1 DEF MarketInv, MarketJob
<1>3. MarketJob(j)
  BY <1>2 DEF MarketJob
<1>4. QED
  BY <1>1, <1>3, OneLearns, MarketLearns DEF MarketInv

LEMMA WriteManifestKeeps ==
    ASSUME MarketInv, part = "market", part' = part, NEW o \in Operators, WriteManifest(o)
    PROVE  MarketInv'
<1>1. /\ job[o].pc = "manifesting" /\ manifests' = manifests \cup {job[o].bars}
      /\ Learn(o, [job[o] EXCEPT !.pc = "cataloguing"])
      /\ UNCHANGED <<seeded, blobs, partitions, catalog, yearFiles>>
  BY DEF WriteManifest, At, Proceed
<1>2. PICK k : k = job[o]
  OBVIOUS
<1>3. k.pc = "manifesting" /\ MarketJob(k) /\ MarketRows /\ SessionsOK
  BY <1>1, <1>2 DEF MarketInv
<1>4. PICK file, new, register : k = [pc |-> "manifesting", bars |-> file, new |-> new, register |-> register]
  BY <1>3 DEF MarketJob
<1>5. /\ MarketJob([pc |-> "manifesting", bars |-> file, new |-> new, register |-> register])
      /\ MarketRows /\ SessionsOK
  BY <1>4, <1>3
<1> DEFINE j == [pc |-> "cataloguing", bars |-> file, new |-> new, register |-> register]
<1>6. [k EXCEPT !.pc = "cataloguing"] = j
  BY <1>4
<1>7. SessionsOK' /\ job'[o] = j /\ \A q \in Operators : q # o => job'[q] = job[q]
  BY <1>1, <1>2, <1>5, <1>6, OneLearns
<1>8. manifests' = manifests \cup {file} /\ file \in blobs /\ new \subseteq file /\ Matched(file)
  BY <1>1, <1>2, <1>4, <1>5 DEF MarketJob
<1>9. MarketGrows /\ MarketRows'
  BY <1>1, <1>5, <1>8 DEF MarketGrows, MarketRows, MarketTypeOK, Partition, Manifest, ManifestsMatchTheirFiles, Matched
<1>10. MarketJob(j)'
  BY <1>1, <1>8 DEF MarketJob
<1>11. QED
  BY <1>7, <1>9, <1>10, MarketStep

LEMMA CommitRowsKeeps ==
    ASSUME MarketInv, part = "market", part' = part, NEW o \in Operators, CommitRows(o)
    PROVE  MarketInv'
<1>1. /\ job[o].pc = "cataloguing"
      /\ partitions' = partitions \cup {job[o].bars}
      /\ catalog' = catalog \cup {[bar |-> b, partition |-> job[o].bars] : b \in job[o].new}
      /\ Finish(o)
      /\ UNCHANGED <<seeded, blobs, yearFiles, manifests>>
  BY DEF CommitRows, At
<1>2. job[o].bars \in blobs /\ job[o].new \subseteq job[o].bars /\ MarketRows /\ SessionsOK
  BY <1>1 DEF MarketInv, MarketJob
<1>3. SessionsOK' /\ job'[o] = Idle /\ \A q \in Operators : q # o => job'[q] = job[q]
  BY <1>1, <1>2, OneFinishes
<1>4. MarketGrows
  BY <1>1 DEF MarketGrows
<1>5. MarketRows'
  BY <1>1, <1>2 DEF MarketRows, MarketTypeOK, Partition, CatalogRow, ManifestsMatchTheirFiles
<1>6. MarketJob(Idle)'
  BY IdleMarketJob, <1>2, <1>4, MarketJobStays
<1>7. QED
  BY <1>3, <1>4, <1>5, <1>6, MarketStep

LEMMA MarketNextKeeps ==
    ASSUME MarketInv, part = "market", part' = part, NEW o \in Operators, MarketNext(o)
    PROVE  MarketInv'
<1>1. CASE LinkRaises(o) \/ RowsRefused(o)
  BY <1>1, IdleMarketJob, OneFinishes, MarketLearns DEF LinkRaises, RowsRefused, MarketInv
<1>2. QED
  BY <1>1, BeginMarketSeedKeeps, BeginMarketIngestKeeps, BeginHistoryKeeps, CommitMarketSeedKeeps, LinkYearKeeps,
     LinkDoneKeeps, PublishKeeps, SelectRowsKeeps, WriteManifestKeeps, CommitRowsKeeps DEF MarketNext

LEMMA MarketStarts == Init => MarketInv
<1> SUFFICES ASSUME Init PROVE MarketInv
  OBVIOUS
<1>1. MarketRows
  BY DEF Init, MarketInit, MarketRows, MarketTypeOK, ManifestsMatchTheirFiles
<1>2. QED
  BY <1>1, IdleMarketJob, DeskStarts DEF MarketInv

LEMMA MarketKept == MarketInv /\ [Next]_vars => MarketInv'
<1> SUFFICES ASSUME MarketInv, [Next]_vars PROVE MarketInv'
  OBVIOUS
<1>1. part' = part
  BY MarketPart
<1>2. ASSUME UNCHANGED marketVars
      PROVE  MarketRows' /\ MarketGrows
  BY <1>2 DEF MarketInv, MarketRows, MarketTypeOK, ManifestsMatchTheirFiles, marketVars, MarketGrows
<1>3. CASE part # "market"
  BY <1>1, <1>2, <1>3, MarketPart DEF MarketInv
<1>4. CASE part = "market"
  <2>1. ASSUME NEW o \in Operators, Dies(o), UNCHANGED marketVars PROVE MarketInv'
    BY <1>1, <1>4, <2>1, IdleMarketJob, OneFinishes, MarketLearns DEF Dies, MarketInv
  <2>2. ASSUME Tick \/ UNCHANGED sessionVars, UNCHANGED marketVars PROVE MarketInv'
    <3>1. SessionsOK' /\ job' = job
      BY <1>4, <2>2, ClockTicks, NothingHappens DEF MarketInv
    <3>2. \A o \in Operators : MarketJob(job[o])'
      <4> TAKE o \in Operators
      <4>1. PICK k : k = job[o]
        OBVIOUS
      <4>2. MarketJob(k)'
        BY <1>2, <1>4, <2>2, <4>1, MarketJobStays DEF MarketInv
      <4>3. QED
        BY <3>1, <4>1, <4>2
    <3>3. QED
      BY <1>2, <2>2, <3>1, <3>2 DEF MarketInv
  <2>3. QED
    BY <1>1, <1>4, <2>1, <2>2, MarketNextKeeps, MarketPart
<1>5. QED
  BY <1>3, <1>4

\* Inductive: a process that has linked years holds bars that their files still hold,
\* one for a year; what it selected is published; a row lies in a registered partition.
THEOREM MarketInductive == Spec => []MarketInv
BY MarketStarts, MarketKept, PTL DEF Spec

\* The files, the manifests and the catalog of the market archive are of their types.
THEOREM MarketTypes == Spec => []MarketTypeOK
<1>1. MarketInv => MarketTypeOK
  BY DEF MarketInv, MarketRows
<1>2. QED
  BY <1>1, MarketInductive, PTL

\* The last row of a market timestamp that a cutoff sees is served, from its file.
LEMMA VisibleIsServed ==
    ASSUME MarketRows, NEW r \in catalog, NEW cutoff \in r.bar.at..MaxTime
    PROVE  /\ Served(r.bar.year, cutoff) # {}
           /\ \A b \in Served(r.bar.year, cutoff) : r.bar.at <= b.at /\ b.at <= cutoff
<1> DEFINE visible == {q \in catalog : q.bar.year = r.bar.year /\ q.bar.at <= cutoff}
           ats == {q.bar.at : q \in visible}
<1>1. \A q \in catalog : q.bar.at \in Nat /\ q.bar.at <= MaxTime
  BY SessionsAssumption DEF MarketRows, MarketTypeOK, CatalogRow, Bar, Time
<1>2. r \in visible
  BY <1>1
<1>3. ats \subseteq Nat /\ ats # {} /\ \A x \in ats : x <= MaxTime
  BY <1>1, <1>2
<1>4. PICK at \in ats : \A x \in ats : x <= at
  <2> HIDE DEF ats
  <2>1. QED
    BY <1>3, SessionsAssumption, GreatestNatural
<1>5. PICK q \in visible : \A p \in visible : p.bar.at <= q.bar.at
  BY <1>4
<1>6. q \in LatestRows(r.bar.year, cutoff)
  BY <1>5 DEF LatestRows
<1>7. q.partition \in partitions \cap blobs /\ q.bar \in q.partition
  BY DEF MarketRows
<1>8. \A b \in Served(r.bar.year, cutoff) : \E p \in LatestRows(r.bar.year, cutoff) : b = p.bar
  BY DEF Served
<1>9. \A p \in LatestRows(r.bar.year, cutoff) : p.bar.at <= cutoff /\ r.bar.at <= p.bar.at
  BY <1>2 DEF LatestRows
<1>10. QED
  BY <1>6, <1>7, <1>8, <1>9 DEF Served

\* Whichever commands raced, raised or died, every catalogued bar is served from its
\* file, and every manifest names what its yearly files hold (market/storage.py,
\* market/history.py).
THEOREM ArchiveAlwaysServes == Spec => []ArchiveServesItsManifests
<1>1. MarketInv => ArchiveServesItsManifests
  BY VisibleIsServed DEF MarketInv, MarketRows, ArchiveServesItsManifests, EveryVisibleBarIsServed
<1>2. QED
  BY <1>1, MarketInductive, PTL

-----------------------------------------------------------------------------
(* Historical replay.                                                      *)

\* Of the first tables, a context of the cutoff holds what was there when the run began,
\* but for what a row of the cutoff hides.
Covers(tables, context, arrived) ==
    /\ arrived \in Nat /\ arrived <= Cardinality(evidence)
    /\ context \subseteq ReplayItem /\ \A i \in context : i.at <= ReplayCutoff
    /\ \A i \in evidence : i.table <= tables /\ i.id <= arrived /\ i.at <= ReplayCutoff /\ i \notin context =>
          \E r \in evidence : r.hides = i.id /\ r.at <= ReplayCutoff

OfCutoff(c) == Covers(ReplayTables, c.context, c.arrived)

BaseOfCutoff(base) == base \in PriceBar /\ base.day <= ReplayCutoff /\ base.at <= ReplayCutoff

Measured(x) ==
    /\ x \in Outcome /\ x.run \in replayRuns /\ BaseOfCutoff(x.base)
    /\ \A b \in x.path : x.base.day <= b.day /\ b.at <= x.at

ReplayRows ==
    /\ ReplayTypeOK /\ IsFiniteSet(evidence) /\ IsFiniteSet(bars)
    /\ \A c \in commitments : OfCutoff(c)
    /\ \A x \in outcomes : Measured(x)

\* A snapshot under way covers the tables it has read.
ReplayJob(j) ==
    /\ j.pc = "replay_seed" => j.mode \in ResearchModes
    /\ j.pc = "replay_snapshot" =>
          /\ j = [pc |-> "replay_snapshot", mode |-> j.mode, at |-> j.at, next |-> j.next,
                  context |-> j.context, arrived |-> j.arrived]
          /\ j.mode \in ResearchModes /\ j.at \in Time /\ j.next \in 1..(ReplayTables + 1)
          /\ Covers(j.next - 1, j.context, j.arrived)
    /\ j.pc = "replay_commit" =>
          j = [pc |-> "replay_commit", row |-> j.row] /\ j.row \in Commitment /\ OfCutoff(j.row)
    /\ j.pc = "replay_record" => j.row \in commitments
    /\ j.pc = "replay_future" => j.run \in replayRuns /\ j.at \in Time /\ BaseOfCutoff(j.base)
    /\ j.pc = "replay_outcome" => Measured(j.row)

ReplayInv ==
    /\ part = "replay" =>
          SessionsOK /\ \A o \in Operators : ReplayJob(job[o])
    /\ ReplayRows

LEMMA ReplayPart ==
    ASSUME [Next]_vars
    PROVE  /\ part' = part
           /\ part # "replay" => UNCHANGED replayVars
           /\ part = "replay" =>
                 \/ \E o \in Operators : ReplayNext(o)
                 \/ (EvidenceArrives \/ BarArrives) /\ UNCHANGED sessionVars
                 \/ (\E o \in Operators : Dies(o)) /\ UNCHANGED replayVars
                 \/ Tick /\ UNCHANGED replayVars
                 \/ UNCHANGED <<sessionVars, replayVars>>
BY DEF Next, vars, Lab, Study, Evolution, Source, Replay, Research, Campaign, Agents, Arrival, Outside, deskVars

\* What arrives has a number of its own, and nothing that was recorded goes away.
ReplayGrows ==
    /\ now \in Time /\ now' \in Time /\ now <= now'
    /\ evidence \subseteq ReplayItem /\ evidence \subseteq evidence'
    /\ Cardinality(evidence) \in Nat /\ Cardinality(evidence)' \in Nat
    /\ Cardinality(evidence) <= Cardinality(evidence)'
    /\ \A i \in evidence' : i \in evidence \/ (i.id \in Nat /\ i.id > Cardinality(evidence))
    /\ commitments \subseteq commitments' /\ replayRuns \subseteq replayRuns'

LEMMA CoversStays ==
    ASSUME ReplayGrows, NEW tables, NEW context, NEW arrived, Covers(tables, context, arrived)
    PROVE  Covers(tables, context, arrived)'
<1>1. arrived \in Nat /\ arrived <= Cardinality(evidence) /\ arrived <= Cardinality(evidence)'
  BY ReplayAssumption DEF ReplayGrows, Covers
<1>2. ASSUME NEW i \in evidence', i.table <= tables, i.id <= arrived, i.at <= ReplayCutoff, i \notin context
      PROVE  \E r \in evidence' : r.hides = i.id /\ r.at <= ReplayCutoff
  <2>1. i \in evidence
    BY <1>1, <1>2 DEF ReplayGrows
  <2>2. QED
    BY <1>2, <2>1 DEF ReplayGrows, Covers
<1>3. QED
  BY <1>1, <1>2 DEF Covers

\* As long as the evidence stays, nothing new is numbered.
LEMMA EvidenceStays ==
    ASSUME ReplayRows, UNCHANGED evidence, now \in Time, now' \in Time, now <= now',
           commitments \subseteq commitments', replayRuns \subseteq replayRuns'
    PROVE  ReplayGrows
<1>1. Cardinality(evidence) \in Nat /\ evidence \subseteq ReplayItem
  BY FS_CardinalityType DEF ReplayRows, ReplayTypeOK
<1>2. QED
  BY <1>1 DEF ReplayGrows

LEMMA MeasuredStays ==
    ASSUME ReplayGrows, NEW x, Measured(x)
    PROVE  Measured(x)'
BY DEF ReplayGrows, Measured, BaseOfCutoff

LEMMA ReplayJobStays ==
    ASSUME ReplayGrows, NEW j, ReplayJob(j)
    PROVE  ReplayJob(j)'
<1>1. ASSUME j.pc = "replay_snapshot" PROVE ReplayJob(j)'
  <2>1. PICK tables, context, arrived : tables = j.next - 1 /\ context = j.context /\ arrived = j.arrived
    OBVIOUS
  <2>2. Covers(tables, context, arrived)'
    BY <1>1, <2>1, CoversStays DEF ReplayJob
  <2>3. QED
    BY <1>1, <2>1, <2>2 DEF ReplayJob
<1>2. ASSUME j.pc = "replay_commit" PROVE ReplayJob(j)'
  <2>1. PICK context, arrived : context = j.row.context /\ arrived = j.row.arrived
    OBVIOUS
  <2>2. Covers(ReplayTables, context, arrived)'
    BY <1>2, <2>1, CoversStays DEF ReplayJob, OfCutoff
  <2>3. QED
    BY <1>2, <2>1, <2>2 DEF ReplayJob, OfCutoff
<1>3. j.pc = "replay_outcome" => ReplayJob(j)'
  BY MeasuredStays DEF ReplayJob
<1>4. QED
  BY <1>1, <1>2, <1>3 DEF ReplayJob, ReplayGrows, BaseOfCutoff

\* The rows that a step may add.
ReplayAdds ==
    /\ ReplayTypeOK' /\ IsFiniteSet(evidence)' /\ IsFiniteSet(bars)'
    /\ \A c \in commitments' : c \in commitments \/ OfCutoff(c)
    /\ \A x \in outcomes' : x \in outcomes \/ Measured(x)

LEMMA ReplayRowsStay ==
    ASSUME ReplayInv, part = "replay", ReplayGrows, ReplayAdds
    PROVE  ReplayRows'
<1>1. \A c \in commitments' : OfCutoff(c)
  BY DEF ReplayInv, ReplayRows, ReplayAdds
<1>2. \A c \in commitments' : OfCutoff(c)'
  <2> TAKE c \in commitments'
  <2>1. PICK context, arrived : context = c.context /\ arrived = c.arrived
    OBVIOUS
  <2>2. Covers(ReplayTables, context, arrived)'
    BY <1>1, <2>1, CoversStays DEF OfCutoff
  <2>3. QED
    BY <2>1, <2>2 DEF OfCutoff
<1>3. \A x \in outcomes' : Measured(x)'
  BY MeasuredStays DEF ReplayInv, ReplayRows, ReplayAdds
<1>4. QED
  BY <1>2, <1>3 DEF ReplayRows, ReplayAdds

LEMMA ReplayStep ==
    ASSUME ReplayInv, part = "replay", part' = part, SessionsOK', ReplayGrows, ReplayAdds,
           NEW o \in Operators, ReplayJob(job[o])',
           \A q \in Operators : q # o => job'[q] = job[q]
    PROVE  ReplayInv'
<1>1. \A q \in Operators : ReplayJob(job[q])'
  <2> TAKE q \in Operators
  <2>1. CASE q = o
    BY <2>1
  <2>2. CASE q # o
    <3>1. ReplayJob(job[q]) /\ job'[q] = job[q]
      BY <2>2 DEF ReplayInv
    <3>2. PICK k : k = job[q]
      OBVIOUS
    <3>3. ReplayJob(k)'
      BY <3>1, <3>2, ReplayJobStays
    <3>4. QED
      BY <3>1, <3>2, <3>3
  <2>3. QED
    BY <2>1, <2>2
<1>2. QED
  BY <1>1, ReplayRowsStay DEF ReplayInv

\* A step that leaves every row as it was, and what the process then knows.
LEMMA ReplayLearns ==
    ASSUME ReplayInv, part = "replay", part' = part, SessionsOK', now' = now, UNCHANGED replayVars,
           NEW o \in Operators, NEW j, ReplayJob(j), job'[o] = j,
           \A q \in Operators : q # o => job'[q] = job[q]
    PROVE  ReplayInv'
<1>1. ReplayGrows
  BY EvidenceStays, SessionsAssumption DEF ReplayInv, SessionsOK, Time, replayVars
<1>2. ReplayAdds
  BY DEF ReplayInv, ReplayRows, ReplayTypeOK, ReplayAdds, replayVars
<1>3. ReplayJob(j)'
  BY <1>1, ReplayJobStays
<1>4. ReplayJob(job[o])'
  BY <1>3
<1>5. QED
  BY <1>1, <1>2, <1>4, ReplayStep

LEMMA IdleReplayJob == ReplayJob(Idle)
BY DEF ReplayJob, Idle

\* A step that raises or ends without writing.
LEMMA ReplayEnds ==
    ASSUME ReplayInv, part = "replay", part' = part, NEW o \in Operators, Finish(o), UNCHANGED replayVars
    PROVE  ReplayInv'
BY IdleReplayJob, OneFinishes, ReplayLearns DEF ReplayInv

\* A step that writes rows.
LEMMA ReplayWrites ==
    ASSUME ReplayInv, part = "replay", part' = part, ReplayAdds,
           evidence' = evidence, commitments \subseteq commitments', replayRuns \subseteq replayRuns',
           NEW o \in Operators, NEW j, Learn(o, j), ReplayJob(j)'
    PROVE  ReplayInv'
<1>1. SessionsOK' /\ now' = now /\ job'[o] = j /\ \A q \in Operators : q # o => job'[q] = job[q]
  BY OneLearns DEF ReplayInv
<1>2. ReplayGrows
  BY <1>1, EvidenceStays, SessionsAssumption DEF ReplayInv, SessionsOK, Time
<1>3. QED
  BY <1>1, <1>2, ReplayStep

LEMMA CommitCasesKeeps ==
    ASSUME ReplayInv, part = "replay", part' = part, NEW o \in Operators, CommitCases(o)
    PROVE  ReplayInv'
<1>1. PICK mode, at, arrived : mode = job[o].mode /\ at = now /\ arrived = Cardinality(evidence)
  OBVIOUS
<1> DEFINE j == [pc |-> "replay_snapshot", mode |-> mode, at |-> at, next |-> 1, context |-> {}, arrived |-> arrived]
<1>2. /\ job[o].pc = "replay_seed" /\ caseKnown' = TRUE
      /\ UNCHANGED <<evidence, bars, commitments, replayRuns, outcomes>>
      /\ Learn(o, Idle) \/ Learn(o, j)
  BY <1>1 DEF CommitCases, At, Finish
<1>3. ReplayAdds
  BY <1>2 DEF ReplayInv, ReplayRows, ReplayTypeOK, ReplayAdds
<1>4. mode \in ResearchModes /\ at \in Time /\ 1 \in 1..(ReplayTables + 1)
  BY <1>1, <1>2, ReplayAssumption DEF ReplayInv, ReplayJob, SessionsOK
<1>5. Covers(0, {}, arrived)
  <2>1. arrived \in Nat /\ arrived <= Cardinality(evidence)
    BY <1>1, FS_CardinalityType DEF ReplayInv, ReplayRows
  <2>2. \A i \in evidence : ~(i.table <= 0)
    BY ReplayAssumption DEF ReplayInv, ReplayRows, ReplayTypeOK, ReplayItem
  <2>3. QED
    BY <2>1, <2>2, ReplayAssumption DEF Covers
<1>6. ReplayJob(j)
  BY <1>4, <1>5 DEF ReplayJob
<1>7. ReplayGrows
  <2>1. now' = now /\ now \in Time
    BY <1>2, OneLearns DEF ReplayInv, SessionsOK
  <2>2. QED
    BY <1>2, <2>1, EvidenceStays, SessionsAssumption DEF ReplayInv, Time
<1>8. ReplayJob(j)' /\ ReplayJob(Idle)'
  BY <1>6, <1>7, IdleReplayJob, ReplayJobStays
<1> HIDE DEF j
<1>9. QED
  BY <1>2, <1>3, <1>8, ReplayWrites

\* One table more: what the cutoff shows of it is all of it but what a row of the cutoff hides.
LEMMA TakeSnapshotKeeps ==
    ASSUME ReplayInv, part = "replay", part' = part, NEW o \in Operators, TakeSnapshot(o)
    PROVE  ReplayInv'
<1>1. PICK k : k = job[o]
  OBVIOUS
<1>2. /\ k.pc = "replay_snapshot" /\ k.next <= ReplayTables /\ ReplayJob(k)
      /\ Learn(o, [k EXCEPT !.next = @ + 1, !.context = @ \cup ReplaySnapshot(k.next, ReplayCutoff)])
      /\ UNCHANGED replayVars
  BY <1>1 DEF TakeSnapshot, At, ReplayInv
<1>3. PICK mode, at, next, context, arrived :
          /\ k = [pc |-> "replay_snapshot", mode |-> mode, at |-> at, next |-> next,
                  context |-> context, arrived |-> arrived]
          /\ mode \in ResearchModes /\ at \in Time /\ next \in 1..(ReplayTables + 1)
          /\ Covers(next - 1, context, arrived)
  BY <1>2 DEF ReplayJob
<1>4. next \in 1..ReplayTables
  BY <1>2, <1>3, ReplayAssumption
<1> DEFINE seen == ReplaySnapshot(next, ReplayCutoff)
           j == [pc |-> "replay_snapshot", mode |-> mode, at |-> at, next |-> next + 1,
                 context |-> context \cup seen, arrived |-> arrived]
<1>5. PICK i : i = [k EXCEPT !.next = @ + 1, !.context = @ \cup ReplaySnapshot(k.next, ReplayCutoff)]
  OBVIOUS
<1>6. i = j
  <2> HIDE DEF seen
  <2>1. k.next = next
    BY <1>3
  <2>2. i = [k EXCEPT !.next = @ + 1, !.context = @ \cup seen]
    BY <1>5, <2>1 DEF seen
  <2>3. QED
    BY <1>3, <2>2
<1>7. /\ seen \subseteq evidence /\ evidence \subseteq ReplayItem /\ \A e \in seen : e.at <= ReplayCutoff
      /\ \A e \in evidence : e.table = next /\ e.at <= ReplayCutoff /\ e \notin seen =>
            \E r \in evidence : r.hides = e.id /\ r.at <= ReplayCutoff
  BY DEF ReplaySnapshot, ReplayInv, ReplayRows, ReplayTypeOK
<1>8. \A e \in evidence : e.table <= next => e.table <= next - 1 \/ e.table = next
  BY <1>4, <1>7, ReplayAssumption DEF ReplayItem
<1> HIDE DEF seen
<1>9. Covers(next, context \cup seen, arrived)
  BY <1>3, <1>7, <1>8 DEF Covers
<1>10. (next + 1) - 1 = next /\ next + 1 \in 1..(ReplayTables + 1)
  BY <1>4, ReplayAssumption
<1>11. ReplayJob(j)
  BY <1>3, <1>9, <1>10 DEF ReplayJob
<1>12. Learn(o, j)
  BY <1>2, <1>5, <1>6
<1> HIDE DEF j
<1>13. QED
  BY <1>2, <1>11, <1>12, OneLearns, ReplayLearns DEF ReplayInv

LEMMA MakeCommitmentKeeps ==
    ASSUME ReplayInv, part = "replay", part' = part, NEW o \in Operators, MakeCommitment(o)
    PROVE  ReplayInv'
<1>1. PICK k : k = job[o]
  OBVIOUS
<1> DEFINE j == [pc |-> "replay_commit",
                 row |-> [mode |-> k.mode, at |-> k.at, context |-> k.context, arrived |-> k.arrived]]
<1>2. /\ k.pc = "replay_snapshot" /\ k.next > ReplayTables /\ ReplayJob(k)
      /\ Learn(o, j) \/ Finish(o)
      /\ UNCHANGED replayVars
  BY <1>1 DEF MakeCommitment, At, ReplayInv
<1>3. PICK mode, at, context, arrived :
          /\ mode = k.mode /\ at = k.at /\ context = k.context /\ arrived = k.arrived
          /\ mode \in ResearchModes /\ at \in Time
          /\ Covers(ReplayTables, context, arrived)
  <2>1. k.next - 1 = ReplayTables
    BY <1>2, ReplayAssumption DEF ReplayJob
  <2>2. QED
    BY <1>2, <2>1 DEF ReplayJob
<1>4. PICK row : row = [mode |-> mode, at |-> at, context |-> context, arrived |-> arrived]
  OBVIOUS
<1>5. row \in Commitment /\ OfCutoff(row)
  BY <1>3, <1>4 DEF Commitment, Covers, OfCutoff
<1>6. ReplayJob([pc |-> "replay_commit", row |-> row])
  BY <1>5 DEF ReplayJob
<1>7. j = [pc |-> "replay_commit", row |-> row]
  BY <1>3, <1>4
<1> HIDE DEF j
<1>8. QED
  BY <1>2, <1>6, <1>7, OneLearns, ReplayLearns, ReplayEnds DEF ReplayInv

LEMMA CommitCommitmentKeeps ==
    ASSUME ReplayInv, part = "replay", part' = part, NEW o \in Operators, CommitCommitment(o)
    PROVE  ReplayInv'
<1>1. /\ job[o].pc = "replay_commit" /\ commitments' = commitments \cup {job[o].row}
      /\ Learn(o, [job[o] EXCEPT !.pc = "replay_record"]) \/ Learn(o, Idle)
      /\ UNCHANGED <<caseKnown, evidence, bars, replayRuns, outcomes>>
  BY DEF CommitCommitment, At, Proceed, Finish
<1>2. PICK k : k = job[o]
  OBVIOUS
<1>3. k.pc = "replay_commit" /\ ReplayJob(k)
  BY <1>1, <1>2 DEF ReplayInv
<1>4. PICK row : k = [pc |-> "replay_commit", row |-> row]
  BY <1>3 DEF ReplayJob
<1>5. row \in Commitment /\ OfCutoff(row)
  BY <1>3, <1>4 DEF ReplayJob
<1>6. [k EXCEPT !.pc = "replay_record"] = [pc |-> "replay_record", row |-> row]
  BY <1>4
<1>7. /\ commitments' = commitments \cup {row}
      /\ UNCHANGED <<caseKnown, evidence, bars, replayRuns, outcomes>>
  <2>1. job[o].row = row
    BY <1>2, <1>4
  <2>2. QED
    BY <1>1, <2>1
<1>8. Learn(o, [pc |-> "replay_record", row |-> row]) \/ Learn(o, Idle)
  BY <1>1, <1>2, <1>6
<1>9. ReplayAdds
  BY <1>5, <1>7 DEF ReplayInv, ReplayRows, ReplayTypeOK, ReplayAdds
<1>10. ReplayJob([pc |-> "replay_record", row |-> row])' /\ ReplayJob(Idle)'
  BY <1>7 DEF ReplayJob, Idle
<1>11. QED
  BY <1>7, <1>8, <1>9, <1>10, ReplayWrites

LEMMA RecordRunKeeps ==
    ASSUME ReplayInv, part = "replay", part' = part, NEW o \in Operators, RecordRun(o)
    PROVE  ReplayInv'
<1>1. /\ job[o].pc = "replay_record" /\ replayRuns' = replayRuns \cup {job[o].row} /\ Learn(o, Idle)
      /\ UNCHANGED <<caseKnown, evidence, bars, commitments, outcomes>>
  BY DEF RecordRun, At, Finish
<1>2. job[o].row \in commitments
  BY <1>1 DEF ReplayInv, ReplayJob
<1>3. ReplayAdds
  BY <1>1, <1>2 DEF ReplayInv, ReplayRows, ReplayTypeOK, ReplayAdds
<1>4. ReplayJob(Idle)'
  BY DEF ReplayJob, Idle
<1>5. QED
  BY <1>1, <1>3, <1>4, ReplayWrites

\* The last price of a history: there is one, since days are bounded.
LEMMA LastPrice ==
    ASSUME NEW history \in SUBSET PriceBar, history # {}
    PROVE  LastOf(history) \in history
<1> DEFINE days == {b.day : b \in history}
<1>1. days \subseteq Nat /\ days # {} /\ \A d \in days : d <= MaxTime
  BY SessionsAssumption DEF PriceBar, Time
<1>2. PICK d \in days : \A x \in days : x <= d
  <2> HIDE DEF days
  <2>1. QED
    BY <1>1, SessionsAssumption, GreatestNatural
<1>3. \E b \in history : \A c \in history : c.day <= b.day
  BY <1>2
<1>4. QED
  BY <1>3 DEF LastOf

LEMMA BeginOutcomeKeeps ==
    ASSUME ReplayInv, part = "replay", part' = part, NEW o \in Operators, BeginOutcome(o)
    PROVE  ReplayInv'
<1> DEFINE history == MarketAt(0, ReplayCutoff, ReplayCutoff)
<1>1. PICK r \in replayRuns :
          /\ history # {}
          /\ Begin(o, [pc |-> "replay_future", run |-> r, at |-> now, base |-> LastOf(history)])
          /\ UNCHANGED replayVars
  BY DEF BeginOutcome
<1>2. history \subseteq PriceBar /\ \A b \in history : b.day <= ReplayCutoff /\ b.at <= ReplayCutoff
  BY DEF ReplayInv, ReplayRows, ReplayTypeOK, MarketAt
<1> HIDE DEF history
<1>3. BaseOfCutoff(LastOf(history))
  BY <1>1, <1>2, LastPrice DEF BaseOfCutoff
<1>4. now \in Time
  BY DEF ReplayInv, SessionsOK
<1>5. ReplayJob([pc |-> "replay_future", run |-> r, at |-> now, base |-> LastOf(history)])
  BY <1>3, <1>4 DEF ReplayJob
<1>6. QED
  BY <1>1, <1>5, OneBegins, ReplayLearns DEF ReplayInv

LEMMA ReadFutureKeeps ==
    ASSUME ReplayInv, part = "replay", part' = part, NEW o \in Operators, ReadFuture(o)
    PROVE  ReplayInv'
<1> DEFINE future == MarketAt(ReplayCutoff, ReplayHorizon, job[o].at)
           row == [run |-> job[o].run, at |-> job[o].at, base |-> job[o].base, path |-> future]
<1>1. /\ job[o].pc = "replay_future"
      /\ Learn(o, [pc |-> "replay_outcome", row |-> row])
      /\ UNCHANGED replayVars
  BY DEF ReadFuture, At
<1>2. job[o].run \in replayRuns /\ job[o].at \in Time /\ BaseOfCutoff(job[o].base)
  BY <1>1 DEF ReplayInv, ReplayJob
<1>3. future \subseteq PriceBar /\ \A b \in future : ReplayCutoff <= b.day /\ b.at <= job[o].at
  BY DEF ReplayInv, ReplayRows, ReplayTypeOK, MarketAt
<1> HIDE DEF future
<1>4. /\ replayRuns \subseteq Commitment
      /\ \A b \in PriceBar : b.day \in Nat /\ ReplayCutoff \in Nat
  BY ReplayAssumption, SessionsAssumption DEF ReplayInv, ReplayRows, ReplayTypeOK, PriceBar, Time
<1>5. Measured(row)
  BY <1>2, <1>3, <1>4 DEF Measured, Outcome, BaseOfCutoff
<1> HIDE DEF row
<1>6. ReplayJob([pc |-> "replay_outcome", row |-> row])
  BY <1>5 DEF ReplayJob
<1>7. QED
  BY <1>1, <1>6, OneLearns, ReplayLearns DEF ReplayInv

LEMMA CommitOutcomeKeeps ==
    ASSUME ReplayInv, part = "replay", part' = part, NEW o \in Operators, CommitOutcome(o)
    PROVE  ReplayInv'
<1>1. /\ job[o].pc = "replay_outcome" /\ outcomes' = outcomes \cup {job[o].row} /\ Learn(o, Idle)
      /\ UNCHANGED <<caseKnown, evidence, bars, commitments, replayRuns>>
  BY DEF CommitOutcome, At, Finish
<1>2. Measured(job[o].row)
  BY <1>1 DEF ReplayInv, ReplayJob
<1>3. ReplayAdds
  BY <1>1, <1>2 DEF ReplayInv, ReplayRows, ReplayTypeOK, ReplayAdds, Measured
<1>4. ReplayJob(Idle)'
  BY DEF ReplayJob, Idle
<1>5. QED
  BY <1>1, <1>3, <1>4, ReplayWrites

LEMMA ReplayNextKeeps ==
    ASSUME ReplayInv, part = "replay", part' = part, NEW o \in Operators, ReplayNext(o)
    PROVE  ReplayInv'
<1>1. CASE BeginReplay(o)
  <2>1. PICK mode \in ResearchModes :
            Begin(o, [pc |-> "replay_seed", mode |-> mode, add |-> ~caseKnown]) /\ UNCHANGED replayVars
    BY <1>1 DEF BeginReplay
  <2>2. ReplayJob([pc |-> "replay_seed", mode |-> mode, add |-> ~caseKnown])
    BY DEF ReplayJob
  <2>3. QED
    BY <2>1, <2>2, OneBegins, ReplayLearns DEF ReplayInv
<1>2. CASE CasesRefused(o) \/ OutcomeRaises(o)
  BY <1>2, ReplayEnds DEF CasesRefused, OutcomeRaises
<1>3. QED
  BY <1>1, <1>2, CommitCasesKeeps, TakeSnapshotKeeps, MakeCommitmentKeeps, CommitCommitmentKeeps, RecordRunKeeps, BeginOutcomeKeeps,
     ReadFutureKeeps, CommitOutcomeKeeps DEF ReplayNext

\* Evidence that arrives, on time or late, was not there when the runs under way began.
LEMMA ArrivalKeepsReplay ==
    ASSUME ReplayInv, part = "replay", part' = part, EvidenceArrives \/ BarArrives, UNCHANGED sessionVars
    PROVE  ReplayInv'
<1>1. SessionsOK' /\ now' = now /\ job' = job /\ now \in Time
  BY NothingHappens DEF ReplayInv, SessionsOK
<1>2. ReplayGrows /\ ReplayAdds
  <2>1. CASE EvidenceArrives
    <3>1. PICK table \in 1..ReplayTables, at \in 0..now : \E hides \in {0} \cup {i.id : i \in {e \in evidence :
                                                                        e.table = table /\ e.at <= at}} :
              evidence' = evidence \cup
                  {[id |-> Cardinality(evidence) + 1, table |-> table, at |-> at, hides |-> hides]}
      BY <2>1 DEF EvidenceArrives
    <3>2. PICK hides, x :
              /\ hides \in {0} \cup {i.id : i \in evidence}
              /\ x = [id |-> Cardinality(evidence) + 1, table |-> table, at |-> at, hides |-> hides]
              /\ evidence' = evidence \cup {x}
      BY <3>1
    <3>3. Cardinality(evidence) \in Nat /\ Cardinality(evidence) < MaxArrivals
      <4>1. Cardinality(evidence) \in Nat
        BY FS_CardinalityType DEF ReplayInv, ReplayRows
      <4>2. Cardinality(bars) \in Nat
        <5>1. IsFiniteSet(bars)
          BY DEF ReplayInv, ReplayRows
        <5>2. QED
          BY <5>1, FS_CardinalityType
      <4>3. Cardinality(evidence) + Cardinality(bars) < MaxArrivals
        BY <2>1 DEF EvidenceArrives
      <4>4. QED
        BY <4>1, <4>2, <4>3, ReplayAssumption
    <3>4. UNCHANGED <<caseKnown, bars, commitments, replayRuns, outcomes>>
      BY <2>1 DEF EvidenceArrives
    <3>5. hides \in 0..MaxArrivals
      BY <3>2, ReplayAssumption DEF ReplayInv, ReplayRows, ReplayTypeOK, ReplayItem
    <3>6. at \in Time
      BY <1>1, SessionsAssumption DEF Time
    <3>7. x \in ReplayItem /\ x.id > Cardinality(evidence) /\ x.id \in Nat
      BY <3>2, <3>3, <3>5, <3>6, ReplayAssumption DEF ReplayItem
    <3>8. IsFiniteSet(evidence')
      BY <3>2, FS_AddElement DEF ReplayInv, ReplayRows
    <3>9. Cardinality(evidence') \in Nat /\ Cardinality(evidence) <= Cardinality(evidence')
      <4>1. evidence \subseteq evidence'
        BY <3>2
      <4>2. QED
        BY <3>8, <4>1, FS_CardinalityType, FS_Subset
    <3>10. ReplayTypeOK'
      BY <3>2, <3>4, <3>7 DEF ReplayInv, ReplayRows, ReplayTypeOK
    <3>11. ReplayGrows
      BY <1>1, <3>2, <3>3, <3>4, <3>7, <3>9, SessionsAssumption
         DEF ReplayGrows, ReplayInv, ReplayRows, ReplayTypeOK, Time
    <3>12. ReplayAdds
      BY <3>4, <3>8, <3>10 DEF ReplayAdds, ReplayInv, ReplayRows
    <3>13. QED
      BY <3>11, <3>12
  <2>2. CASE BarArrives
    <3>1. PICK at \in 0..now : \E day \in 0..at : bars' = bars \cup {[day |-> day, at |-> at]}
      BY <2>2 DEF BarArrives
    <3>2. PICK day \in 0..at : bars' = bars \cup {[day |-> day, at |-> at]}
      BY <3>1
    <3>3. [day |-> day, at |-> at] \in PriceBar
      BY <1>1, SessionsAssumption DEF PriceBar, Time
    <3>4. UNCHANGED <<caseKnown, evidence, commitments, replayRuns, outcomes>>
      BY <2>2 DEF BarArrives
    <3>5. IsFiniteSet(bars')
      <4>1. IsFiniteSet(bars)
        BY DEF ReplayInv, ReplayRows
      <4>2. QED
        BY <3>2, <4>1, FS_AddElement
    <3>6. ReplayTypeOK' /\ IsFiniteSet(evidence)'
      BY <3>2, <3>3, <3>4 DEF ReplayInv, ReplayRows, ReplayTypeOK
    <3>7. ReplayGrows
      BY <1>1, <3>4, EvidenceStays, SessionsAssumption DEF ReplayInv, Time
    <3>8. QED
      BY <3>4, <3>5, <3>6, <3>7 DEF ReplayAdds
  <2>3. QED
    BY <2>1, <2>2
<1>3. \A o \in Operators : ReplayJob(job[o])'
  <2> TAKE o \in Operators
  <2>1. PICK k : k = job[o]
    OBVIOUS
  <2>2. ReplayJob(k)'
    BY <1>2, <2>1, ReplayJobStays DEF ReplayInv
  <2>3. QED
    BY <1>1, <2>1, <2>2
<1>4. QED
  BY <1>1, <1>2, <1>3, ReplayRowsStay DEF ReplayInv

LEMMA ReplayStarts == Init => ReplayInv
<1> SUFFICES ASSUME Init PROVE ReplayInv
  OBVIOUS
<1>1. ReplayRows
  BY FS_EmptySet DEF Init, ReplayInit, ReplayRows, ReplayTypeOK
<1>2. QED
  BY <1>1, IdleReplayJob, DeskStarts DEF ReplayInv

LEMMA ReplayKept == ReplayInv /\ [Next]_vars => ReplayInv'
<1> SUFFICES ASSUME ReplayInv, [Next]_vars PROVE ReplayInv'
  OBVIOUS
<1>1. part' = part
  BY ReplayPart
<1>2. CASE part # "replay"
  <2>1. UNCHANGED replayVars
    BY <1>2, ReplayPart
  <2>2. ReplayRows'
    BY <2>1 DEF ReplayInv, ReplayRows, ReplayTypeOK, Covers, OfCutoff, Measured, BaseOfCutoff, replayVars
  <2>3. QED
    BY <1>1, <1>2, <2>2 DEF ReplayInv
<1>3. CASE part = "replay"
  <2>1. ASSUME NEW o \in Operators, Dies(o), UNCHANGED replayVars PROVE ReplayInv'
    BY <1>1, <1>3, <2>1, ReplayEnds DEF Dies
  <2>2. ASSUME Tick \/ UNCHANGED sessionVars, UNCHANGED replayVars PROVE ReplayInv'
    <3>1. SessionsOK' /\ job' = job /\ now \in Time /\ now' \in Time /\ now <= now'
      BY <1>3, <2>2, ClockTicks, NothingHappens, SessionsAssumption DEF ReplayInv, SessionsOK, Time
    <3>2. ReplayGrows /\ ReplayAdds
      <4>1. ReplayGrows
        BY <2>2, <3>1, EvidenceStays DEF ReplayInv, replayVars
      <4>2. ReplayAdds
        BY <2>2 DEF ReplayInv, ReplayRows, ReplayTypeOK, ReplayAdds, replayVars
      <4>3. QED
        BY <4>1, <4>2
    <3>3. \A o \in Operators : ReplayJob(job[o])'
      <4> TAKE o \in Operators
      <4>1. PICK k : k = job[o]
        OBVIOUS
      <4>2. ReplayJob(k)'
        BY <1>3, <3>2, <4>1, ReplayJobStays DEF ReplayInv
      <4>3. QED
        BY <3>1, <4>1, <4>2
    <3>4. QED
      BY <1>1, <1>3, <3>1, <3>2, <3>3, ReplayRowsStay DEF ReplayInv
  <2>3. QED
    BY <1>1, <1>3, <2>1, <2>2, ReplayNextKeeps, ArrivalKeepsReplay, ReplayPart
<1>4. QED
  BY <1>2, <1>3

\* Inductive: a snapshot under way covers the tables it has read, and goes on doing so, as
\* what arrives has a number of its own; a base and a path are of what was visible when
\* they were read.
THEOREM ReplayInductive == Spec => []ReplayInv
BY ReplayStarts, ReplayKept, PTL DEF Spec

\* Cases, evidence, commitments, runs and outcomes are of their types.
THEOREM ReplayTypes == Spec => []ReplayTypeOK
<1>1. ReplayInv => ReplayTypeOK
  BY DEF ReplayInv, ReplayRows
<1>2. QED
  BY <1>1, ReplayInductive, PTL

\* Whatever arrives late or between the queries, a context and the base of an outcome are
\* of what names a time by the cutoff, and a context leaves out nothing of what was there
\* but what a row of the cutoff hides (snapshot, evaluate of replay/engine.py).
THEOREM ReplaysAlwaysKeepToTheirCutoff == Spec => []ReplaysKeepToTheirCutoff
<1>1. ReplayInv => ReplaysKeepToTheirCutoff
  <2> SUFFICES ASSUME ReplayInv PROVE ReplaysKeepToTheirCutoff
    OBVIOUS
  <2>1. \A i \in evidence : i.table <= ReplayTables
    BY ReplayAssumption DEF ReplayInv, ReplayRows, ReplayTypeOK, ReplayItem
  <2>2. ASSUME NEW c \in commitments
        PROVE  /\ \A i \in c.context : i.at <= ReplayCutoff
               /\ \A i \in evidence : i.id <= c.arrived /\ i.at <= ReplayCutoff /\ i \notin c.context =>
                     \E j \in evidence : j.hides = i.id /\ j.at <= ReplayCutoff
    BY <2>1 DEF ReplayInv, ReplayRows, OfCutoff, Covers
  <2>3. \A x \in outcomes :
            /\ x.run \in replayRuns
            /\ x.base.day <= ReplayCutoff /\ x.base.at <= ReplayCutoff
            /\ \A b \in x.path : x.base.day <= b.day /\ b.at <= x.at
    BY DEF ReplayInv, ReplayRows, Measured, BaseOfCutoff
  <2>4. QED
    BY <2>2, <2>3 DEF ReplaysKeepToTheirCutoff
<1>2. QED
  BY <1>1, ReplayInductive, PTL

-----------------------------------------------------------------------------
(* The governed campaign.                                                  *)

\* A sealed claim, and then a prediction, rests on evidence of before its cutoff.
RestsOnItsPast(cites, cutoff) ==
    /\ cites # {} /\ cites \subseteq DOMAIN bulletins
    /\ \A b \in cites : bulletins[b].at <= cutoff

Answered(case) == \E a \in accounts : a.case = case /\ a.status = "pass"

SealHolds(s) ==
    /\ RestsOnItsPast(s.cites, s.cutoff) /\ Answered(s.case)
    /\ s.cutoff <= s.at /\ s.at <= now

PredictionHolds(p) ==
    /\ RestsOnItsPast(p.cites, p.cutoff) /\ Answered(p.case)
    /\ p.cutoff <= p.at /\ p.at <= p.start

AccountsHold ==
    /\ \A a \in accounts : a.case <= started
    /\ \A a, b \in accounts : a.case = b.case => a = b

Priors(i) == {k \in DOMAIN ledger : k < i /\ ledger[k].case = ledger[i].case}
StatesOf(I) == {ledger[k].state : k \in I}

\* The states that a commitment went through before it came to this one.
PathTo(state, passed) ==
    \/ state = "sealed" /\ passed = {}
    \/ state = "awaiting" /\ passed = {"sealed"}
    \/ state = "matured" /\ passed = {"sealed", "awaiting"}
    \/ state = "evaluated" /\ passed = {"sealed", "awaiting", "matured"}
    \/ state = "unusable" /\ passed \in {{"sealed", "awaiting"}, {"sealed", "awaiting", "matured"}}

EntryHolds(i) ==
    /\ \A k \in Priors(i) : ledger[k].at <= ledger[i].at
    /\ PathTo(ledger[i].state, StatesOf(Priors(i)))
    /\ \E p \in predictions :
          p.case = ledger[i].case /\ (ledger[i].state \in {"matured", "evaluated"} => p.start <= ledger[i].at)

CaseShape(j) == [pc |-> j.pc, case |-> j.case, cutoff |-> j.cutoff, items |-> j.items, sent |-> j.sent]

\* A case that waits for its answer has no account yet.
CampaignJob(j) ==
    /\ j.pc \in {"campaign_send", "campaign_ground", "campaign_predict"} =>
          /\ j = CaseShape(j)
          /\ j.case \in CaseId /\ j.case <= started /\ j.cutoff \in Time
          /\ j.items \subseteq DOMAIN bulletins /\ \A b \in j.items : bulletins[b].at <= j.cutoff
    /\ j.pc = "campaign_send" => \A a \in accounts : a.case # j.case
    /\ j.pc = "campaign_ground" => Answered(j.case)

OneCase == \A o, q \in Operators : job[o] # Idle /\ job[q] # Idle => o = q

CampaignInv ==
    /\ part # "campaign" => CampaignInit
    /\ part = "campaign" =>
          /\ SessionsOK /\ started >= 0 /\ OneCase
          /\ \A o \in Operators : CampaignJob(job[o])
          /\ CampaignTypeOK /\ AccountsHold
          /\ \A s \in sealed : SealHolds(s)
          /\ \A p \in predictions : PredictionHolds(p)
          /\ \A i \in DOMAIN ledger : EntryHolds(i)

LEMMA CampaignPart ==
    ASSUME [Next]_vars
    PROVE  /\ part' = part
           /\ part # "campaign" => UNCHANGED campaignVars
           /\ part = "campaign" =>
                 \/ \E o \in Operators : CampaignNext(o)
                 \/ (BulletinObserved \/ AppendEntry) /\ UNCHANGED sessionVars
                 \/ (\E o \in Operators : Dies(o)) /\ UNCHANGED campaignVars
                 \/ Tick /\ UNCHANGED campaignVars
                 \/ UNCHANGED <<sessionVars, campaignVars>>
BY DEF Next, vars, Lab, Study, Evolution, Source, Replay, Research, Campaign, Agents, Arrival, Outside, deskVars

\* Evidence, accounts and predictions are only added, and time goes on.
CampaignGrows ==
    /\ DOMAIN bulletins \subseteq DOMAIN bulletins'
    /\ \A b \in DOMAIN bulletins : bulletins'[b] = bulletins[b]
    /\ accounts \subseteq accounts' /\ predictions \subseteq predictions'
    /\ now \in Nat /\ now' \in Nat /\ now <= now'
    /\ started \in Nat /\ started' \in Nat /\ started <= started'

LEMMA CampaignRowsStay ==
    ASSUME CampaignInv, part = "campaign", CampaignGrows
    PROVE  /\ \A s \in sealed : SealHolds(s)'
           /\ \A p \in predictions : PredictionHolds(p)'
<1>1. \A cites, cutoff : RestsOnItsPast(cites, cutoff) => RestsOnItsPast(cites, cutoff)'
  BY DEF CampaignGrows, RestsOnItsPast
<1>2. \A case : Answered(case) => Answered(case)'
  BY DEF CampaignGrows, Answered
<1>3. ASSUME NEW s \in sealed PROVE SealHolds(s)'
  <2>1. SealHolds(s) /\ s.at \in Nat
    BY SessionsAssumption DEF CampaignInv, CampaignTypeOK, Sealed, Time
  <2>2. PICK cites, cutoff, case : cites = s.cites /\ cutoff = s.cutoff /\ case = s.case
    OBVIOUS
  <2>3. RestsOnItsPast(cites, cutoff)' /\ Answered(case)'
    BY <1>1, <1>2, <2>1, <2>2 DEF SealHolds
  <2>4. s.cutoff <= s.at /\ s.at <= now'
    BY <2>1 DEF SealHolds, CampaignGrows
  <2>5. QED
    BY <2>2, <2>3, <2>4 DEF SealHolds
<1>4. ASSUME NEW p \in predictions PROVE PredictionHolds(p)'
  <2>1. PredictionHolds(p)
    BY DEF CampaignInv
  <2>2. PICK cites, cutoff, case : cites = p.cites /\ cutoff = p.cutoff /\ case = p.case
    OBVIOUS
  <2>3. RestsOnItsPast(cites, cutoff)' /\ Answered(case)'
    BY <1>1, <1>2, <2>1, <2>2 DEF PredictionHolds
  <2>4. QED
    BY <2>1, <2>2, <2>3 DEF PredictionHolds
<1>5. QED
  BY <1>3, <1>4

LEMMA EntriesStay ==
    ASSUME CampaignInv, part = "campaign", predictions \subseteq predictions', ledger' = ledger
    PROVE  \A i \in DOMAIN ledger' : EntryHolds(i)'
<1> SUFFICES ASSUME NEW i \in DOMAIN ledger PROVE EntryHolds(i)'
  OBVIOUS
<1>1. EntryHolds(i)
  BY DEF CampaignInv
<1>2. Priors(i)' = Priors(i) /\ StatesOf(Priors(i))' = StatesOf(Priors(i))
  BY DEF Priors, StatesOf
<1>3. QED
  BY <1>1, <1>2 DEF EntryHolds

\* What a case in flight knows is not disturbed by evidence, entries or time.
LEMMA CampaignJobStays ==
    ASSUME CampaignGrows, accounts' = accounts, NEW j, CampaignJob(j)
    PROVE  CampaignJob(j)'
<1>1. j.pc \in {"campaign_send", "campaign_ground", "campaign_predict"} =>
        j.case \in Nat /\ j.case <= started'
  BY SessionsAssumption DEF CampaignJob, CampaignGrows, CaseId
<1>2. QED
  BY <1>1 DEF CampaignJob, CampaignGrows, CaseShape, Answered

\* A step of a case: there is no other.
LEMMA CampaignStep ==
    ASSUME CampaignInv, part = "campaign", part' = part, SessionsOK', started' >= 0,
           NEW o \in Operators, \A q \in Operators : q # o => job[q] = Idle /\ job'[q] = job[q],
           CampaignJob(job[o])', CampaignTypeOK', AccountsHold',
           \A s \in sealed' : SealHolds(s)', \A p \in predictions' : PredictionHolds(p)',
           \A i \in DOMAIN ledger' : EntryHolds(i)'
    PROVE  CampaignInv'
<1>1. \A q \in Operators : q # o => job'[q] = Idle
  OBVIOUS
<1>2. OneCase'
  BY <1>1 DEF OneCase
<1>3. \A q \in Operators : CampaignJob(job[q])'
  <2> TAKE q \in Operators
  <2>1. CASE q = o
    BY <2>1
  <2>2. CASE q # o
    <3>1. CampaignJob(Idle)'
      BY DEF CampaignJob, Idle
    <3>2. QED
      BY <1>1, <2>2, <3>1
  <2>3. QED
    BY <2>1, <2>2
<1>4. QED
  BY <1>2, <1>3 DEF CampaignInv

LEMMA SessionNumbers ==
    ASSUME CampaignInv, part = "campaign"
    PROVE  now \in Nat /\ started \in Nat
BY SessionsAssumption DEF CampaignInv, SessionsOK, Time

LEMMA OtherCasesIdle ==
    ASSUME CampaignInv, part = "campaign", NEW o \in Operators, job[o] # Idle
    PROVE  \A q \in Operators : q # o => job[q] = Idle
BY DEF CampaignInv, OneCase

\* A step of the case in flight that keeps the tables.
LEMMA CaseLearns ==
    ASSUME CampaignInv, part = "campaign", part' = part, UNCHANGED campaignVars,
           NEW o \in Operators, job[o] # Idle, NEW j, Learn(o, j), CampaignJob(j)
    PROVE  CampaignInv'
<1>1. SessionsOK' /\ now' = now /\ started' = started /\ job'[o] = j
      /\ \A q \in Operators : q # o => job'[q] = job[q]
  BY OneLearns DEF CampaignInv
<1>2. CampaignGrows /\ accounts' = accounts /\ ledger' = ledger /\ sealed' = sealed /\ predictions' = predictions
  BY <1>1, SessionNumbers DEF CampaignGrows, campaignVars
<1>3. CampaignTypeOK' /\ AccountsHold' /\ started' >= 0
  BY <1>1 DEF CampaignInv, CampaignTypeOK, AccountsHold, campaignVars
<1>4. CampaignJob(j)'
  BY <1>2, CampaignJobStays
<1>5. CampaignJob(job[o])'
  BY <1>1, <1>4
<1>6. QED
  BY <1>1, <1>2, <1>3, <1>5, CampaignRowsStay, EntriesStay, OtherCasesIdle, CampaignStep

LEMMA CaseEnds ==
    ASSUME CampaignInv, part = "campaign", part' = part, UNCHANGED campaignVars,
           NEW o \in Operators, job[o] # Idle, Finish(o)
    PROVE  CampaignInv'
<1>1. CampaignJob(Idle)
  BY DEF CampaignJob, Idle
<1>2. QED
  BY <1>1, CaseLearns DEF Finish

\* A step of the case in flight that adds rows.
LEMMA CaseWrites ==
    ASSUME CampaignInv, part = "campaign", part' = part, NEW o \in Operators, job[o] # Idle, NEW j, Learn(o, j),
           bulletins' = bulletins, ledger' = ledger, accounts \subseteq accounts', predictions \subseteq predictions',
           CampaignTypeOK', AccountsHold', CampaignJob(j)',
           \A s \in sealed' : s \in sealed \/ SealHolds(s)',
           \A p \in predictions' : p \in predictions \/ PredictionHolds(p)'
    PROVE  CampaignInv'
<1>1. SessionsOK' /\ now' = now /\ started' = started /\ job'[o] = j
      /\ \A q \in Operators : q # o => job'[q] = job[q]
  BY OneLearns DEF CampaignInv
<1>2. CampaignGrows
  BY <1>1, SessionNumbers DEF CampaignGrows
<1>3. started' >= 0
  BY <1>1 DEF CampaignInv
<1>4. CampaignJob(job[o])'
  BY <1>1
<1>5. QED
  BY <1>1, <1>2, <1>3, <1>4, CampaignRowsStay, EntriesStay, OtherCasesIdle, CampaignStep

LEMMA BeginCaseKeeps ==
    ASSUME CampaignInv, part = "campaign", part' = part, NEW o \in Operators, BeginCase(o)
    PROVE  CampaignInv'
<1>1. PICK items \in SUBSET DOMAIN bulletins, cutoff \in Time :
          /\ Sufficient(items, cutoff) /\ BetweenCases
          /\ Begin(o, [pc |-> "campaign_send", case |-> started + 1, cutoff |-> cutoff, items |-> items, sent |-> 1])
          /\ UNCHANGED campaignVars
  BY DEF BeginCase
<1> DEFINE j == [pc |-> "campaign_send", case |-> started + 1, cutoff |-> cutoff, items |-> items, sent |-> 1]
<1>2. /\ SessionsOK' /\ now' = now /\ started' = started + 1 /\ job'[o] = j
      /\ \A q \in Operators : q # o => job'[q] = job[q]
  BY <1>1, OneBegins DEF CampaignInv
<1>3. started \in Nat /\ now \in Nat /\ started + 1 <= MaxCommands /\ \A q \in Operators : job[q] = Idle
  BY <1>1, SessionNumbers, SessionsAssumption DEF Begin, Free, BetweenCases
<1>4. CampaignGrows /\ UNCHANGED campaignVars
  BY <1>1, <1>2, <1>3 DEF CampaignGrows, campaignVars
<1>5. \A a \in accounts : a.case \in Nat /\ a.case <= started
  BY SessionsAssumption DEF CampaignInv, AccountsHold, CampaignTypeOK, Account, CaseId
<1>6. CampaignTypeOK' /\ AccountsHold'
  BY <1>2, <1>3, <1>4, <1>5 DEF CampaignInv, CampaignTypeOK, AccountsHold, campaignVars
<1>7. PICK n : n = started + 1
  OBVIOUS
<1>8. CampaignJob([pc |-> "campaign_send", case |-> n, cutoff |-> cutoff, items |-> items, sent |-> 1])'
  BY <1>1, <1>2, <1>3, <1>4, <1>5, <1>7, SessionsAssumption
     DEF CampaignJob, CaseShape, CaseId, campaignVars, Sufficient
<1>9. CampaignJob(job[o])'
  BY <1>2, <1>7, <1>8
<1>10. sealed' = sealed /\ predictions' = predictions /\ ledger' = ledger /\ started' >= 0
  BY <1>2, <1>3, <1>4 DEF campaignVars
<1>11. QED
  BY <1>2, <1>3, <1>4, <1>6, <1>9, <1>10, CampaignRowsStay, EntriesStay, CampaignStep

LEMMA CaseIsOpen ==
    ASSUME CampaignInv, part = "campaign", NEW o \in Operators, NEW pc, At(o, pc),
           pc \in {"campaign_send", "campaign_ground", "campaign_predict"}
    PROVE  job[o] # Idle /\ job[o].pc = pc /\ CampaignJob(job[o])
BY DEF CampaignInv, At, Idle

LEMMA AnswerLostKeeps ==
    ASSUME CampaignInv, part = "campaign", part' = part, NEW o \in Operators, AnswerLost(o)
    PROVE  CampaignInv'
<1>1. /\ At(o, "campaign_send") /\ UNCHANGED campaignVars
      /\ Learn(o, [job[o] EXCEPT !.sent = @ + 1]) \/ Finish(o)
  BY DEF AnswerLost
<1>2. job[o] # Idle /\ job[o].pc = "campaign_send" /\ CampaignJob(job[o])
  BY <1>1, CaseIsOpen
<1>3. PICK k : k = job[o]
  OBVIOUS
<1>4. k.pc = "campaign_send" /\ CampaignJob(k)
  BY <1>2, <1>3
<1>5. PICK case, cutoff, items, sent :
          k = [pc |-> "campaign_send", case |-> case, cutoff |-> cutoff, items |-> items, sent |-> sent]
  BY <1>4 DEF CampaignJob, CaseShape
<1>6. [k EXCEPT !.sent = @ + 1]
        = [pc |-> "campaign_send", case |-> case, cutoff |-> cutoff, items |-> items, sent |-> sent + 1]
  BY <1>5
<1>7. CampaignJob([pc |-> "campaign_send", case |-> case, cutoff |-> cutoff, items |-> items, sent |-> sent + 1])
  BY <1>4, <1>5 DEF CampaignJob, CaseShape
<1>8. CASE Finish(o)
  BY <1>1, <1>2, <1>8, CaseEnds
<1>9. CASE Learn(o, [job[o] EXCEPT !.sent = @ + 1])
  BY <1>1, <1>2, <1>3, <1>6, <1>7, <1>9, CaseLearns
<1>10. QED
  BY <1>1, <1>8, <1>9

\* The account of a case that had none.
LEMMA AccountAdded ==
    ASSUME CampaignInv, part = "campaign", NEW j, CampaignJob(j), j.pc = "campaign_send",
           NEW status \in {"useless", "pass"}, accounts' = accounts \cup {AccountOf(j, status)},
           UNCHANGED <<bulletins, sealed, predictions, ledger, started>>
    PROVE  CampaignTypeOK' /\ AccountsHold'
<1>1. AccountOf(j, status) = [case |-> j.case, status |-> status]
  BY DEF AccountOf
<1>2. j.case \in CaseId /\ j.case <= started /\ \A a \in accounts : a.case # j.case
  BY DEF CampaignJob
<1>3. AccountOf(j, status) \in Account
  BY <1>1, <1>2 DEF Account
<1>4. CampaignTypeOK'
  BY <1>3 DEF CampaignInv, CampaignTypeOK
<1>5. AccountsHold'
  BY <1>1, <1>2 DEF CampaignInv, AccountsHold
<1>6. QED
  BY <1>4, <1>5

LEMMA AnswerUselessKeeps ==
    ASSUME CampaignInv, part = "campaign", part' = part, NEW o \in Operators, AnswerUseless(o)
    PROVE  CampaignInv'
<1>1. /\ At(o, "campaign_send") /\ accounts' = accounts \cup {AccountOf(job[o], "useless")} /\ Learn(o, Idle)
      /\ UNCHANGED <<bulletins, sealed, predictions, ledger>>
  BY DEF AnswerUseless, Finish
<1>2. job[o] # Idle /\ job[o].pc = "campaign_send" /\ CampaignJob(job[o])
  BY <1>1, CaseIsOpen
<1>3. started' = started /\ now' = now
  BY <1>1 DEF Learn
<1>4. CampaignTypeOK' /\ AccountsHold'
  BY <1>1, <1>2, <1>3, AccountAdded
<1>5. CampaignJob(Idle)'
  BY DEF CampaignJob, Idle
<1>6. QED
  BY <1>1, <1>2, <1>4, <1>5, CaseWrites

LEMMA AnswerParsedKeeps ==
    ASSUME CampaignInv, part = "campaign", part' = part, NEW o \in Operators, AnswerParsed(o)
    PROVE  CampaignInv'
<1>1. /\ At(o, "campaign_send") /\ accounts' = accounts \cup {AccountOf(job[o], "pass")}
      /\ Learn(o, [job[o] EXCEPT !.pc = "campaign_ground"])
      /\ UNCHANGED <<bulletins, sealed, predictions, ledger>>
  BY DEF AnswerParsed, Proceed
<1>2. job[o] # Idle /\ job[o].pc = "campaign_send" /\ CampaignJob(job[o])
  BY <1>1, CaseIsOpen
<1>3. started' = started /\ now' = now
  BY <1>1 DEF Learn
<1>4. CampaignTypeOK' /\ AccountsHold'
  <2>1. accounts' = accounts \cup {AccountOf(job[o], "pass")} /\ UNCHANGED <<bulletins, sealed, predictions, ledger>>
    BY <1>1
  <2>2. QED
    BY <1>2, <1>3, <2>1, AccountAdded
<1>5. PICK k : k = job[o]
  OBVIOUS
<1>6. k.pc = "campaign_send" /\ CampaignJob(k)
  BY <1>2, <1>5
<1>7. PICK case, cutoff, items, sent :
          k = [pc |-> "campaign_send", case |-> case, cutoff |-> cutoff, items |-> items, sent |-> sent]
  BY <1>6 DEF CampaignJob, CaseShape
<1> DEFINE j == [pc |-> "campaign_ground", case |-> case, cutoff |-> cutoff, items |-> items, sent |-> sent]
<1>8. [k EXCEPT !.pc = "campaign_ground"] = j
  BY <1>7
<1>9. Learn(o, j)
  BY <1>1, <1>5, <1>8
<1>10. accounts' = accounts \cup {AccountOf(k, "pass")} /\ UNCHANGED <<bulletins, sealed, predictions, ledger>>
  BY <1>1, <1>5
<1>11. CampaignJob(j)'
  <2>1. /\ case \in CaseId /\ case <= started /\ cutoff \in Time
        /\ items \subseteq DOMAIN bulletins /\ \A b \in items : bulletins[b].at <= cutoff
    BY <1>6, <1>7 DEF CampaignJob
  <2>2. Answered(case)'
    <3>1. AccountOf(k, "pass") = [case |-> case, status |-> "pass"]
      BY <1>7 DEF AccountOf
    <3>2. PICK a : a = [case |-> case, status |-> "pass"]
      OBVIOUS
    <3>3. a \in accounts' /\ a.case = case /\ a.status = "pass"
      BY <1>10, <3>1, <3>2
    <3>4. QED
      BY <3>3 DEF Answered
  <2>3. QED
    BY <1>3, <1>10, <2>1, <2>2 DEF CampaignJob, CaseShape
<1> HIDE DEF j
<1>12. QED
  BY <1>2, <1>4, <1>9, <1>10, <1>11, CaseWrites

LEMMA SealKeeps ==
    ASSUME CampaignInv, part = "campaign", part' = part, NEW o \in Operators, Seal(o)
    PROVE  CampaignInv'
<1>1. PICK supports \in SUBSET BulletinId, contradicts \in SUBSET BulletinId :
          /\ At(o, "campaign_ground") /\ job[o].cutoff <= now
          /\ GroundedClaim(job[o].items, supports, contradicts)
          /\ sealed' = sealed \cup {[case |-> job[o].case, cutoff |-> job[o].cutoff, at |-> now, cites |-> supports]}
          /\ Learn(o, [job[o] EXCEPT !.pc = "campaign_predict"])
          /\ UNCHANGED <<bulletins, accounts, predictions, ledger>>
  BY DEF Seal, Proceed
<1>2. job[o] # Idle /\ job[o].pc = "campaign_ground" /\ CampaignJob(job[o])
  BY <1>1, CaseIsOpen
<1>3. started' = started /\ now' = now
  BY <1>1 DEF Learn
<1>4. PICK k : k = job[o]
  OBVIOUS
<1>5. k.pc = "campaign_ground" /\ CampaignJob(k)
  BY <1>2, <1>4
<1>6. PICK case, cutoff, items, sent :
          k = [pc |-> "campaign_ground", case |-> case, cutoff |-> cutoff, items |-> items, sent |-> sent]
  BY <1>5 DEF CampaignJob, CaseShape
<1> DEFINE j == [pc |-> "campaign_predict", case |-> case, cutoff |-> cutoff, items |-> items, sent |-> sent]
           s == [case |-> case, cutoff |-> cutoff, at |-> now, cites |-> supports]
<1>7. [k EXCEPT !.pc = "campaign_predict"] = j
  BY <1>6
<1>8. Learn(o, j)
  BY <1>1, <1>4, <1>7
<1>9. k.cutoff = cutoff /\ k.case = case /\ k.items = items
  BY <1>6
<1>10. /\ cutoff <= now /\ GroundedClaim(items, supports, contradicts) /\ sealed' = sealed \cup {s}
       /\ UNCHANGED <<bulletins, accounts, predictions, ledger>>
  BY <1>1, <1>4, <1>9
<1>11. /\ case \in CaseId /\ case <= started /\ cutoff \in Time /\ Answered(case)
       /\ items \subseteq DOMAIN bulletins /\ \A b \in items : bulletins[b].at <= cutoff
  BY <1>5, <1>6 DEF CampaignJob
<1>12. s \in Sealed /\ now \in Nat
  BY <1>11, SessionNumbers DEF Sealed, CampaignInv, SessionsOK
<1>13. SealHolds(s)'
  <2>1. supports # {} /\ supports \subseteq items
    BY <1>10 DEF GroundedClaim
  <2>2. RestsOnItsPast(supports, cutoff)' /\ Answered(case)'
    BY <1>10, <1>11, <2>1 DEF RestsOnItsPast, Answered
  <2>3. now <= now'
    BY <1>3, <1>12
  <2>4. PICK n : n = now
    OBVIOUS
  <2>5. SealHolds([case |-> case, cutoff |-> cutoff, at |-> n, cites |-> supports])'
    BY <1>10, <2>2, <2>3, <2>4 DEF SealHolds
  <2>6. QED
    BY <1>3, <2>4, <2>5
<1>14. CampaignTypeOK' /\ AccountsHold'
  BY <1>3, <1>10, <1>12 DEF CampaignInv, CampaignTypeOK, AccountsHold
<1>15. CampaignJob(j)'
  BY <1>3, <1>10, <1>11 DEF CampaignJob, CaseShape
<1>16. \A x \in sealed' : x \in sealed \/ SealHolds(x)'
  <2> HIDE DEF s
  <2> TAKE x \in sealed'
  <2>1. CASE x = s
    BY <1>13, <2>1, <1>3 DEF s, SealHolds
  <2>2. QED
    BY <1>10, <2>1
<1> HIDE DEF j, s
<1>17. QED
  BY <1>2, <1>8, <1>10, <1>14, <1>15, <1>16, CaseWrites

LEMMA PredictKeeps ==
    ASSUME CampaignInv, part = "campaign", part' = part, NEW o \in Operators, Predict(o)
    PROVE  CampaignInv'
<1>1. PICK s \in sealed, start \in {now, now + 1} \cap Time :
          /\ At(o, "campaign_predict")
          /\ predictions' = predictions \cup
                {[case |-> s.case, cutoff |-> s.cutoff, at |-> now, start |-> start, cites |-> s.cites]}
          /\ Learn(o, Idle)
          /\ UNCHANGED <<bulletins, accounts, sealed, ledger>>
  BY DEF Predict, Finish
<1>2. job[o] # Idle
  BY <1>1, CaseIsOpen
<1>3. now \in Nat /\ now' = now /\ started' = started
  BY <1>1, SessionNumbers DEF Learn
<1>4. PICK p : p = [case |-> s.case, cutoff |-> s.cutoff, at |-> now, start |-> start, cites |-> s.cites]
  OBVIOUS
<1>5. s \in Sealed /\ SealHolds(s) /\ s.cutoff \in Nat /\ s.at \in Nat
  BY SessionsAssumption DEF CampaignInv, CampaignTypeOK, Sealed, Time
<1>6. p \in Prediction
  BY <1>4, <1>5 DEF Prediction, Sealed, CampaignInv, SessionsOK
<1>7. PredictionHolds(p)
  BY <1>1, <1>3, <1>4, <1>5 DEF PredictionHolds, SealHolds
<1>8. PredictionHolds(p)'
  BY <1>1, <1>7 DEF PredictionHolds, RestsOnItsPast, Answered
<1>9. CampaignTypeOK' /\ AccountsHold'
  BY <1>1, <1>3, <1>4, <1>6 DEF CampaignInv, CampaignTypeOK, AccountsHold
<1>10. CampaignJob(Idle)'
  BY DEF CampaignJob, Idle
<1>11. predictions' = predictions \cup {p}
  BY <1>1, <1>4
<1>12. \A x \in predictions' : x \in predictions \/ PredictionHolds(x)'
  BY <1>8, <1>11
<1>13. QED
  BY <1>1, <1>2, <1>9, <1>10, <1>11, <1>12, CaseWrites

\* The entry of a commitment that append compares the new one with.
LEMMA LastEntry ==
    ASSUME CampaignTypeOK, NEW case
    PROVE  \/ EntriesOf(case) = {} /\ Previous(case) = {}
           \/ \E k \in EntriesOf(case) : (\A i \in EntriesOf(case) : i <= k) /\ ledger[k] \in Previous(case)
<1>1. EntriesOf(case) \subseteq Nat /\ Len(ledger) \in Nat /\ \A i \in EntriesOf(case) : i <= Len(ledger)
  BY DEF CampaignTypeOK, EntriesOf
<1>2. CASE EntriesOf(case) = {}
  BY <1>2 DEF Previous
<1>3. CASE EntriesOf(case) # {}
  <2>1. PICK k \in EntriesOf(case) : \A i \in EntriesOf(case) : i <= k
    BY <1>1, <1>3, GreatestNatural
  <2>2. QED
    BY <2>1 DEF Previous
<1>4. QED
  BY <1>2, <1>3

LEMMA AppendEntryKeeps ==
    ASSUME CampaignInv, part = "campaign", AppendEntry
    PROVE  CampaignTypeOK' /\ \A i \in DOMAIN ledger' : EntryHolds(i)'
<1>1. PICK p \in predictions, state \in LedgerState, at \in 0..now :
          /\ IF Previous(p.case) = {} THEN state = "sealed"
             ELSE \A e \in Previous(p.case) : state \in Follows[e.state] /\ e.at <= at
          /\ state \in {"matured", "evaluated"} => p.start <= at
          /\ ledger' = Append(ledger, [case |-> p.case, state |-> state, at |-> at, maturity |-> p.start])
  BY DEF AppendEntry
<1>2. Len(ledger) < MaxEntries /\ UNCHANGED <<bulletins, accounts, sealed, predictions>>
  BY DEF AppendEntry
<1> DEFINE e == [case |-> p.case, state |-> state, at |-> at, maturity |-> p.start]
<1> PICK n : n = Len(ledger) + 1
  OBVIOUS
<1>3. CampaignTypeOK /\ \A i \in DOMAIN ledger : EntryHolds(i)
  BY DEF CampaignInv
<1>4. e \in Entry
  BY <1>3, SessionsAssumption DEF CampaignInv, CampaignTypeOK, Prediction, Entry, SessionsOK, Time
<1>5. /\ ledger \in Seq(Entry) /\ Len(ledger) \in Nat /\ DOMAIN ledger = 1..Len(ledger)
      /\ ledger' \in Seq(Entry) /\ Len(ledger') = n /\ DOMAIN ledger' = 1..n
      /\ \A i \in DOMAIN ledger : ledger'[i] = ledger[i]
      /\ ledger'[n] = e
  BY <1>1, <1>3, <1>4 DEF CampaignTypeOK
<1>6. CampaignTypeOK'
  BY <1>2, <1>3, <1>5, CampaignAssumption DEF CampaignTypeOK
<1> HIDE DEF e
<1>7. ASSUME NEW i \in DOMAIN ledger PROVE EntryHolds(i)'
  <2>1. EntryHolds(i) /\ i <= Len(ledger)
    BY <1>3, <1>5
  <2>2. Priors(i)' = Priors(i)
    BY <1>5, <2>1 DEF Priors
  <2>3. StatesOf(Priors(i))' = StatesOf(Priors(i))
    BY <1>5, <2>2 DEF StatesOf, Priors
  <2>4. \A k \in Priors(i) : ledger'[k] = ledger[k]
    BY <1>5 DEF Priors
  <2>5. QED
    BY <1>2, <1>5, <2>1, <2>2, <2>3, <2>4 DEF EntryHolds
<1>8. EntryHolds(n)'
  <2>1. Priors(n)' = EntriesOf(p.case)
    BY <1>5 DEF Priors, EntriesOf, e
  <2>2. \A k \in EntriesOf(p.case) : ledger'[k] = ledger[k] /\ k \in DOMAIN ledger /\ k \in Nat /\ ledger[k].case = p.case
    BY <1>5 DEF EntriesOf
  <2>3. StatesOf(Priors(n))' = StatesOf(EntriesOf(p.case))
    BY <2>1, <2>2 DEF StatesOf
  <2>4. e.case = p.case /\ e.state = state /\ e.at = at /\ p \in predictions'
    BY <1>2 DEF e
  <2>5. /\ \A k \in EntriesOf(p.case) : ledger[k].at <= at
        /\ PathTo(state, StatesOf(EntriesOf(p.case)))
    <3>1. CASE EntriesOf(p.case) = {} /\ Previous(p.case) = {}
      BY <1>1, <3>1 DEF PathTo, StatesOf
    <3>2. CASE \E k \in EntriesOf(p.case) : (\A i \in EntriesOf(p.case) : i <= k) /\ ledger[k] \in Previous(p.case)
      <4>1. PICK k \in EntriesOf(p.case) : (\A i \in EntriesOf(p.case) : i <= k) /\ ledger[k] \in Previous(p.case)
        BY <3>2
      <4>2. state \in Follows[ledger[k].state] /\ ledger[k].at <= at
        BY <1>1, <4>1
      <4>3. EntriesOf(p.case) = Priors(k) \cup {k}
        BY <1>5, <2>2, <4>1 DEF EntriesOf, Priors
      <4>4. EntryHolds(k) /\ ledger[k] \in Entry
        BY <1>3, <1>5, <2>2, <4>1
      <4>5. \A i \in EntriesOf(p.case) : ledger[i].at \in Nat /\ ledger[k].at \in Nat /\ at \in Nat
        <5>1. \A i \in DOMAIN ledger : ledger[i] \in Entry /\ ledger[i].at \in Nat
          <6>1. \A i \in DOMAIN ledger : ledger[i] \in Entry
            BY <1>5
          <6>2. \A x \in Entry : x.at \in Nat
            BY SessionsAssumption DEF Entry, Time
          <6>3. QED
            BY <6>1, <6>2
        <5>2. QED
          BY <2>2, <4>1, <5>1, SessionNumbers
      <4>6. \A i \in EntriesOf(p.case) : ledger[i].at <= at
        BY <4>2, <4>3, <4>4, <4>5 DEF EntryHolds
      <4>7. StatesOf(EntriesOf(p.case)) = StatesOf(Priors(k)) \cup {ledger[k].state}
        BY <4>3 DEF StatesOf
      <4>8. PathTo(ledger[k].state, StatesOf(Priors(k)))
        BY <4>4 DEF EntryHolds
      <4>9. PathTo(state, StatesOf(Priors(k)) \cup {ledger[k].state})
        <5>1. PICK was, passed : was = ledger[k].state /\ passed = StatesOf(Priors(k))
          OBVIOUS
        <5>2. PathTo(was, passed) /\ state \in Follows[was]
          BY <4>2, <4>8, <5>1
        <5>3. PathTo(state, passed \cup {was})
          BY <5>2 DEF PathTo, Follows
        <5>4. QED
          BY <5>1, <5>3
      <4>10. QED
        BY <4>6, <4>7, <4>9
    <3>3. QED
      BY <1>3, <3>1, <3>2, LastEntry
  <2>6. /\ \A k \in Priors(n)' : ledger'[k].at <= ledger'[n].at
        /\ PathTo(ledger'[n].state, StatesOf(Priors(n))')
    BY <1>5, <2>1, <2>2, <2>3, <2>4, <2>5
  <2>7. p.case = ledger'[n].case /\ (ledger'[n].state \in {"matured", "evaluated"} => p.start <= ledger'[n].at)
    BY <1>1, <1>5, <2>4
  <2>8. QED
    BY <2>4, <2>6, <2>7 DEF EntryHolds, PathTo
<1>9. QED
  <2>1. \A i \in DOMAIN ledger' : i \in DOMAIN ledger \/ i = n
    BY <1>5
  <2>2. QED
    BY <1>6, <1>7, <1>8, <2>1

\* Between the steps of cases: jobs are as they were.
LEMMA CampaignGoesOn ==
    ASSUME CampaignInv, part = "campaign", part' = part, SessionsOK', job' = job, CampaignGrows,
           UNCHANGED <<accounts, sealed, predictions>>, CampaignTypeOK',
           \A i \in DOMAIN ledger' : EntryHolds(i)'
    PROVE  CampaignInv'
<1>1. \A o \in Operators : CampaignJob(job[o])'
  <2> TAKE o \in Operators
  <2>1. PICK k : k = job[o]
    OBVIOUS
  <2>2. CampaignJob(k)'
    BY <2>1, CampaignJobStays DEF CampaignInv
  <2>3. QED
    BY <2>1, <2>2
<1>2. AccountsHold' /\ started' >= 0
  <2>1. \A a \in accounts : a.case \in Nat
    BY SessionsAssumption DEF CampaignInv, CampaignTypeOK, Account, CaseId
  <2>2. QED
    BY <2>1 DEF CampaignInv, AccountsHold, CampaignGrows
<1>3. OneCase'
  BY DEF CampaignInv, OneCase
<1>4. QED
  BY <1>1, <1>2, <1>3, CampaignRowsStay DEF CampaignInv

LEMMA BulletinObservedKeeps ==
    ASSUME CampaignInv, part = "campaign", BulletinObserved, UNCHANGED sessionVars
    PROVE  CampaignTypeOK' /\ CampaignGrows /\ UNCHANGED <<accounts, sealed, predictions, ledger>>
<1>1. PICK source \in Sources, disputes \in SUBSET DOMAIN bulletins :
          bulletins' = Append(bulletins, [source |-> source, at |-> now, disputes |-> disputes])
  BY DEF BulletinObserved
<1>2. Len(bulletins) < MaxBulletins /\ UNCHANGED <<accounts, sealed, predictions, ledger>>
  BY DEF BulletinObserved
<1> DEFINE b == [source |-> source, at |-> now, disputes |-> disputes]
<1>3. bulletins \in Seq(Bulletin) /\ Len(bulletins) \in Nat /\ DOMAIN bulletins = 1..Len(bulletins)
  BY DEF CampaignInv, CampaignTypeOK
<1>4. b \in Bulletin
  BY <1>2, <1>3, CampaignAssumption DEF CampaignInv, SessionsOK, Bulletin, BulletinId
<1> HIDE DEF b
<1>5. /\ bulletins' \in Seq(Bulletin) /\ Len(bulletins') = Len(bulletins) + 1
      /\ DOMAIN bulletins' = 1..Len(bulletins) + 1
      /\ \A i \in DOMAIN bulletins : bulletins'[i] = bulletins[i]
  BY <1>1, <1>3, <1>4 DEF b
<1>6. CampaignTypeOK'
  BY <1>2, <1>3, <1>5, CampaignAssumption DEF CampaignInv, CampaignTypeOK
<1>7. CampaignGrows
  BY <1>2, <1>3, <1>5, SessionNumbers DEF CampaignGrows, sessionVars
<1>8. QED
  BY <1>2, <1>6, <1>7

LEMMA CampaignNextKeeps ==
    ASSUME CampaignInv, part = "campaign", part' = part, NEW o \in Operators, CampaignNext(o)
    PROVE  CampaignInv'
<1>1. CASE AnswerRefused(o) \/ SealRefused(o)
  BY <1>1, CaseIsOpen, CaseEnds DEF AnswerRefused, SealRefused
<1>2. QED
  BY <1>1, BeginCaseKeeps, AnswerLostKeeps, AnswerUselessKeeps, AnswerParsedKeeps, SealKeeps, PredictKeeps
     DEF CampaignNext

LEMMA CampaignStarts == Init => CampaignInv
<1> SUFFICES ASSUME Init PROVE CampaignInv
  OBVIOUS
<1>1. CampaignInit /\ SessionsInit(MaxCommands - CommandsOf[part]) /\ part \in Parts
  BY DEF Init
<1>2. started >= 0
  BY <1>1, DeskAssumption, SessionsAssumption DEF SessionsInit
<1>3. CampaignTypeOK /\ AccountsHold /\ sealed = {} /\ predictions = {} /\ DOMAIN ledger = {}
  BY <1>1, CampaignAssumption DEF CampaignInit, CampaignTypeOK, AccountsHold
<1>4. CampaignJob(Idle)
  BY DEF CampaignJob, Idle
<1>5. QED
  BY <1>1, <1>2, <1>3, <1>4, DeskStarts DEF CampaignInv, OneCase

LEMMA CampaignKept == CampaignInv /\ [Next]_vars => CampaignInv'
<1> SUFFICES ASSUME CampaignInv, [Next]_vars PROVE CampaignInv'
  OBVIOUS
<1>1. part' = part
  BY CampaignPart
<1>2. CASE part # "campaign"
  BY <1>1, <1>2, CampaignPart DEF CampaignInv, CampaignInit, campaignVars
<1>3. CASE part = "campaign"
  <2>1. ASSUME NEW o \in Operators, Dies(o), UNCHANGED campaignVars PROVE CampaignInv'
    BY <1>1, <1>3, <2>1, CaseEnds DEF Dies
  <2>2. ASSUME Tick \/ UNCHANGED sessionVars, UNCHANGED campaignVars PROVE CampaignInv'
    <3>1. SessionsOK' /\ job' = job /\ now' \in Nat /\ now <= now' /\ started' = started
      BY <1>3, <2>2, ClockTicks, NothingHappens, SessionNumbers, SessionsAssumption
         DEF CampaignInv, SessionsOK, Time, Tick, sessionVars
    <3>2. CampaignGrows /\ CampaignTypeOK'
      BY <1>3, <2>2, <3>1, SessionNumbers DEF CampaignInv, CampaignTypeOK, CampaignGrows, campaignVars
    <3>3. \A i \in DOMAIN ledger' : EntryHolds(i)'
      BY <1>3, <2>2, EntriesStay DEF campaignVars
    <3>4. QED
      BY <1>1, <1>3, <2>2, <3>1, <3>2, <3>3, CampaignGoesOn DEF campaignVars
  <2>3. ASSUME BulletinObserved \/ AppendEntry, UNCHANGED sessionVars PROVE CampaignInv'
    <3>1. SessionsOK' /\ job' = job /\ now' = now /\ started' = started
      BY <1>3, <2>3, NothingHappens DEF CampaignInv, sessionVars
    <3>2. CASE BulletinObserved
      BY <1>1, <1>3, <2>3, <3>1, <3>2, BulletinObservedKeeps, EntriesStay, CampaignGoesOn
    <3>3. CASE AppendEntry
      <4>1. UNCHANGED <<bulletins, accounts, sealed, predictions>>
        BY <3>3 DEF AppendEntry
      <4>2. CampaignGrows
        BY <1>3, <3>1, <4>1, SessionNumbers DEF CampaignGrows
      <4>3. QED
        BY <1>1, <1>3, <3>1, <3>3, <4>1, <4>2, AppendEntryKeeps, CampaignGoesOn
    <3>4. QED
      BY <2>3, <3>2, <3>3
  <2>4. QED
    BY <1>1, <1>3, <2>1, <2>2, <2>3, CampaignNextKeeps, CampaignPart
<1>4. QED
  BY <1>2, <1>3

\* Inductive: one case is in flight, under a number of its own; while it waits for the
\* answer nothing is accounted of it, and a claim that is sealed has its account; the
\* states that a commitment went through are told by the one it is in.
THEOREM CampaignInductive == Spec => []CampaignInv
BY CampaignStarts, CampaignKept, PTL DEF Spec

\* Evidence, accounts, claims, predictions and entries are of their types.
THEOREM CampaignTypes == Spec => []CampaignTypeOK
<1>1. CampaignInv => CampaignTypeOK
  <2>1. CampaignInit => CampaignTypeOK
    BY CampaignAssumption DEF CampaignInit, CampaignTypeOK
  <2>2. QED
    BY <2>1 DEF CampaignInv
<1>2. QED
  BY <1>1, CampaignInductive, PTL

\* However answers are lost and entries are appended, a prediction rests on evidence of
\* before its cutoff and on one usable answer, and the ledger tells what became of it
\* step by step (seal_commitment, CommitmentLedger.append).
THEOREM CampaignsStayProspective == Spec => []CampaignIsProspective
<1>1. ASSUME CampaignInv PROVE CampaignIsProspective
  <2>1. CASE part # "campaign"
    BY <1>1, <2>1 DEF CampaignInv, CampaignInit, CampaignIsProspective
  <2>2. CASE part = "campaign"
    <3>1. ASSUME NEW p \in predictions
          PROVE  /\ p.cites # {} /\ \A b \in p.cites : bulletins[b].at <= p.cutoff
                 /\ p.cutoff <= p.at /\ p.at <= p.start
                 /\ \E a \in accounts : a.case = p.case /\ a.status = "pass"
                 /\ \A a, b \in accounts : a.case = b.case => a = b
      BY <1>1, <2>2 DEF CampaignInv, PredictionHolds, RestsOnItsPast, Answered, AccountsHold
    <3>2. ASSUME NEW i \in DOMAIN ledger
          PROVE  \E p \in predictions :
                    LET e == ledger[i]
                        before == {ledger[k] : k \in {j \in EntriesOf(e.case) : j < i}}
                        passed == {b.state : b \in before}
                    IN  /\ p.case = e.case
                        /\ e.state \notin passed /\ \A b \in before : b.at <= e.at
                        /\ e.state = "sealed" <=> before = {}
                        /\ e.state \in {"matured", "evaluated"} => p.start <= e.at
                        /\ e.state = "evaluated" => passed = {"sealed", "awaiting", "matured"}
                        /\ passed \cap {"evaluated", "unusable"} = {}
      <4> DEFINE before == {ledger[k] : k \in {j \in EntriesOf(ledger[i].case) : j < i}}
                 passed == {b.state : b \in before}
      <4>1. EntryHolds(i)
        BY <1>1, <2>2 DEF CampaignInv
      <4>2. Priors(i) = {j \in EntriesOf(ledger[i].case) : j < i}
        BY DEF Priors, EntriesOf
      <4>3. before = {ledger[k] : k \in Priors(i)} /\ passed = StatesOf(Priors(i))
        BY <4>2 DEF StatesOf
      <4>4. before = {} <=> passed = {}
        OBVIOUS
      <4>5. \A b \in before : b.at <= ledger[i].at
        BY <4>1, <4>3 DEF EntryHolds
      <4> HIDE DEF before, passed
      <4>6. PathTo(ledger[i].state, passed)
        BY <4>1, <4>3 DEF EntryHolds
      <4>7. /\ ledger[i].state \notin passed
            /\ ledger[i].state = "sealed" <=> before = {}
            /\ ledger[i].state = "evaluated" => passed = {"sealed", "awaiting", "matured"}
            /\ passed \cap {"evaluated", "unusable"} = {}
        BY <4>4, <4>6 DEF PathTo
      <4>8. QED
        BY <4>1, <4>5, <4>7 DEF EntryHolds, before, passed
    <3>3. QED
      BY <3>1, <3>2 DEF CampaignIsProspective
  <2>3. QED
    BY <2>1, <2>2
<1>2. QED
  BY <1>1, CampaignInductive, PTL

-----------------------------------------------------------------------------
(* Research contexts.                                                      *)

\* The steps of a process that the properties speak of.
Building == {"context_read", "provider_call"}
Extracting == {"extract_commit"}
Spoken == {"context_read", "provider_call", "extract_commit"}

\* The process of another part is at none of them, and goes to none of them.
Otherwise(pcs, j) == "pc" \in DOMAIN j /\ j.pc \notin pcs
MovesOtherwise(pcs, o) == \E j : Otherwise(pcs, j) /\ job' = [job EXCEPT ![o] = j]

LEMMA TellsOtherwise ==
    ASSUME NEW o, NEW j, Begin(o, j) \/ Learn(o, j), "pc" \in DOMAIN j
    PROVE  /\ j.pc \notin Spoken => MovesOtherwise(Spoken, o)
           /\ j.pc \notin Building => MovesOtherwise(Building, o)
           /\ j.pc \notin Extracting => MovesOtherwise(Extracting, o)
BY DEF Begin, Learn, Otherwise, MovesOtherwise

LEMMA EndsOtherwise ==
    ASSUME NEW o, Finish(o)
    PROVE  MovesOtherwise(Spoken, o) /\ MovesOtherwise(Building, o) /\ MovesOtherwise(Extracting, o)
<1>1. /\ Idle.pc \notin Spoken /\ Idle.pc \notin Building /\ Idle.pc \notin Extracting
      /\ "pc" \in DOMAIN Idle
  BY DEF Idle, Spoken, Building, Extracting
<1>2. QED
  BY <1>1, TellsOtherwise DEF Finish

LEMMA ProceedsOtherwise ==
    ASSUME NEW o, Otherwise({}, job[o]), NEW pc, Proceed(o, pc)
    PROVE  /\ pc \notin Spoken => MovesOtherwise(Spoken, o)
           /\ pc \notin Building => MovesOtherwise(Building, o)
<1>1. PICK k : k = job[o]
  OBVIOUS
<1>2. "pc" \in DOMAIN k
  BY <1>1 DEF Otherwise
<1>3. [k EXCEPT !.pc = pc].pc = pc
  BY <1>2
<1>4. DOMAIN [k EXCEPT !.pc = pc] = DOMAIN k
  OBVIOUS
<1>5. PICK l : l = [k EXCEPT !.pc = pc]
  OBVIOUS
<1>6. Learn(o, l)
  BY <1>1, <1>5 DEF Proceed
<1>7. QED
  BY <1>2, <1>3, <1>4, <1>5, <1>6, TellsOtherwise

LEMMA LabMovesOtherwise ==
    ASSUME NEW o \in Operators, Otherwise({}, job[o]), LabNext(o)
    PROVE  MovesOtherwise(Spoken, o)
<1>1. CASE CreateSpec(o)
  BY <1>1, TellsOtherwise, EndsOtherwise, ProceedsOtherwise DEF CreateSpec, Otherwise, Spoken
<1>2. CASE ReviseSpec(o)
  BY <1>2, TellsOtherwise, EndsOtherwise, ProceedsOtherwise DEF ReviseSpec, Otherwise, Spoken
<1>3. CASE BeginBacktest(o)
  BY <1>3, TellsOtherwise, EndsOtherwise, ProceedsOtherwise DEF BeginBacktest, Otherwise, Spoken
<1>4. CASE CheckRevision(o)
  BY <1>4, TellsOtherwise, EndsOtherwise, ProceedsOtherwise DEF CheckRevision, Otherwise, Spoken
<1>5. CASE RefuseRevision(o)
  BY <1>5, TellsOtherwise, EndsOtherwise, ProceedsOtherwise DEF RefuseRevision, Otherwise, Spoken
<1>6. CASE CommitSpec(o)
  BY <1>6, TellsOtherwise, EndsOtherwise, ProceedsOtherwise DEF CommitSpec, Otherwise, Spoken
<1>7. CASE CommitAccess(o)
  BY <1>7, TellsOtherwise, EndsOtherwise, ProceedsOtherwise DEF CommitAccess, Otherwise, Spoken
<1>8. CASE RepeatAccess(o)
  BY <1>8, TellsOtherwise, EndsOtherwise, ProceedsOtherwise DEF RepeatAccess, Otherwise, Spoken
<1>9. CASE CommitResult(o)
  BY <1>9, TellsOtherwise, EndsOtherwise, ProceedsOtherwise DEF CommitResult, Otherwise, Spoken
<1>10. CASE EngineRaises(o)
  BY <1>10, TellsOtherwise, EndsOtherwise, ProceedsOtherwise DEF EngineRaises, Otherwise, Spoken
<1>11. QED
  BY <1>1, <1>2, <1>3, <1>4, <1>5, <1>6, <1>7, <1>8, <1>9, <1>10 DEF LabNext

LEMMA PaperMovesOtherwise ==
    ASSUME NEW o \in Operators, Otherwise({}, job[o]), PaperNext(o)
    PROVE  MovesOtherwise(Spoken, o)
<1>1. CASE BeginCreate(o)
  BY <1>1, TellsOtherwise, EndsOtherwise, ProceedsOtherwise DEF BeginCreate, Otherwise, Spoken
<1>2. CASE BeginTransition(o)
  BY <1>2, TellsOtherwise, EndsOtherwise, ProceedsOtherwise DEF BeginTransition, Inserting, Otherwise, Spoken
<1>3. CASE BeginAdd(o)
  BY <1>3, TellsOtherwise, EndsOtherwise, ProceedsOtherwise DEF BeginAdd, Inserting, Otherwise, Spoken
<1>4. CASE BeginStep(o)
  BY <1>4, TellsOtherwise, EndsOtherwise, ProceedsOtherwise DEF BeginStep, Inserting, Otherwise, Spoken
<1>5. CASE BeginSnapshot(o)
  BY <1>5, TellsOtherwise, EndsOtherwise, ProceedsOtherwise DEF BeginSnapshot, Inserting, Otherwise, Spoken
<1>6. CASE CheckCreate(o)
  BY <1>6, TellsOtherwise, EndsOtherwise, ProceedsOtherwise DEF CheckCreate, Inserting, Otherwise, Spoken
<1>7. CASE RefuseCreate(o)
  BY <1>7, TellsOtherwise, EndsOtherwise, ProceedsOtherwise DEF RefuseCreate, Otherwise, Spoken
<1>8. CASE CommitPaper(o)
  BY <1>8, TellsOtherwise, EndsOtherwise, ProceedsOtherwise DEF CommitPaper, Otherwise, Spoken
<1>9. CASE LoseRace(o)
  BY <1>9, TellsOtherwise, EndsOtherwise, ProceedsOtherwise DEF LoseRace, Otherwise, Spoken
<1>10. QED
  BY <1>1, <1>2, <1>3, <1>4, <1>5, <1>6, <1>7, <1>8, <1>9 DEF PaperNext

LEMMA EvolutionMovesOtherwise ==
    ASSUME NEW o \in Operators, Otherwise({}, job[o]), EvolutionNext(o)
    PROVE  MovesOtherwise(Spoken, o)
<1>1. CASE Propose(o)
  BY <1>1, TellsOtherwise, EndsOtherwise, ProceedsOtherwise DEF Propose, Otherwise, Spoken
<1>2. CASE BuildChallenger(o)
  BY <1>2, TellsOtherwise, EndsOtherwise, ProceedsOtherwise DEF BuildChallenger, Otherwise, Spoken
<1>3. CASE Evaluate(o)
  BY <1>3, TellsOtherwise, EndsOtherwise, ProceedsOtherwise DEF Evaluate, Otherwise, Spoken
<1>4. CASE BeginPromotion(o)
  BY <1>4, TellsOtherwise, EndsOtherwise, ProceedsOtherwise DEF BeginPromotion, Otherwise, Spoken
<1>5. CASE BeginRollback(o)
  BY <1>5, TellsOtherwise, EndsOtherwise, ProceedsOtherwise DEF BeginRollback, Otherwise, Spoken
<1>6. CASE CountHoldouts(o)
  BY <1>6, TellsOtherwise, EndsOtherwise, ProceedsOtherwise DEF CountHoldouts, Otherwise, Spoken
<1>7. CASE CommitProposal(o)
  BY <1>7, TellsOtherwise, EndsOtherwise, ProceedsOtherwise DEF CommitProposal, Otherwise, Spoken
<1>8. CASE CommitChallenger(o)
  BY <1>8, TellsOtherwise, EndsOtherwise, ProceedsOtherwise DEF CommitChallenger, Otherwise, Spoken
<1>9. CASE CommitVerdict(o)
  BY <1>9, TellsOtherwise, EndsOtherwise, ProceedsOtherwise DEF CommitVerdict, Otherwise, Spoken
<1>10. CASE ReadPrevious(o)
  BY <1>10, TellsOtherwise, EndsOtherwise, ProceedsOtherwise DEF ReadPrevious, Otherwise, Spoken
<1>11. CASE CommitChampion(o)
  BY <1>11, TellsOtherwise, EndsOtherwise, ProceedsOtherwise DEF CommitChampion, Otherwise, Spoken
<1>12. CASE CommitHoldout(o)
  BY <1>12, TellsOtherwise, EndsOtherwise, ProceedsOtherwise DEF CommitHoldout, Otherwise, Spoken
<1>13. QED
  BY <1>1, <1>2, <1>3, <1>4, <1>5, <1>6, <1>7, <1>8, <1>9, <1>10, <1>11, <1>12 DEF EvolutionNext

LEMMA MacroMovesOtherwise ==
    ASSUME NEW o \in Operators, Otherwise({}, job[o]), MacroNext(o)
    PROVE  MovesOtherwise(Spoken, o)
<1>1. CASE BeginMacroIngest(o)
  BY <1>1, TellsOtherwise, EndsOtherwise, ProceedsOtherwise DEF BeginMacroIngest, Otherwise, Spoken
<1>2. CASE BeginTrends(o)
  BY <1>2, TellsOtherwise, EndsOtherwise, ProceedsOtherwise DEF BeginTrends, Otherwise, Spoken
<1>3. CASE CommitMacro(o)
  BY <1>3, TellsOtherwise, EndsOtherwise, ProceedsOtherwise DEF CommitMacro, Otherwise, Spoken
<1>4. CASE CommitTrends(o)
  BY <1>4, TellsOtherwise, EndsOtherwise, ProceedsOtherwise DEF CommitTrends, Otherwise, Spoken
<1>5. QED
  BY <1>1, <1>2, <1>3, <1>4 DEF MacroNext

LEMMA ObservatoryMovesOtherwise ==
    ASSUME NEW o \in Operators, Otherwise({}, job[o]), ObservatoryNext(o)
    PROVE  MovesOtherwise(Building, o)
<1>1. CASE BeginObserve(o)
  BY <1>1, TellsOtherwise, EndsOtherwise, ProceedsOtherwise DEF BeginObserve, Otherwise, Building
<1>2. CASE CommitObservation(o)
  BY <1>2, TellsOtherwise, EndsOtherwise, ProceedsOtherwise DEF CommitObservation, Otherwise, Building
<1>3. CASE Extract(o)
  BY <1>3, TellsOtherwise, EndsOtherwise, ProceedsOtherwise DEF Extract, Otherwise, Building
<1>4. CASE ExtractRaises(o)
  BY <1>4, TellsOtherwise, EndsOtherwise, ProceedsOtherwise DEF ExtractRaises, Otherwise, Building
<1>5. CASE CommitExtraction(o)
  BY <1>5, TellsOtherwise, EndsOtherwise, ProceedsOtherwise DEF CommitExtraction, Otherwise, Building
<1>6. CASE ExtractionRefused(o)
  BY <1>6, TellsOtherwise, EndsOtherwise, ProceedsOtherwise DEF ExtractionRefused, Otherwise, Building
<1>7. QED
  BY <1>1, <1>2, <1>3, <1>4, <1>5, <1>6 DEF ObservatoryNext

LEMMA MarketMovesOtherwise ==
    ASSUME NEW o \in Operators, Otherwise({}, job[o]), MarketNext(o)
    PROVE  MovesOtherwise(Spoken, o)
<1>1. CASE BeginMarketSeed(o)
  BY <1>1, TellsOtherwise, EndsOtherwise, ProceedsOtherwise DEF BeginMarketSeed, Otherwise, Spoken
<1>2. CASE BeginMarketIngest(o)
  BY <1>2, TellsOtherwise, EndsOtherwise, ProceedsOtherwise DEF BeginMarketIngest, Publishing, Otherwise, Spoken
<1>3. CASE BeginHistory(o)
  BY <1>3, TellsOtherwise, EndsOtherwise, ProceedsOtherwise DEF BeginHistory, Otherwise, Spoken
<1>4. CASE CommitMarketSeed(o)
  BY <1>4, TellsOtherwise, EndsOtherwise, ProceedsOtherwise DEF CommitMarketSeed, Otherwise, Spoken
<1>5. CASE LinkYear(o)
  <2>1. PICK y : Learn(o, [job[o] EXCEPT !.left = @ \ {y}])
    BY <1>5 DEF LinkYear
  <2>2. PICK k : k = [job[o] EXCEPT !.left = @ \ {y}]
    OBVIOUS
  <2>3. "pc" \in DOMAIN k /\ k.pc = "linking"
    BY <1>5, <2>2 DEF LinkYear, At, Otherwise
  <2>4. QED
    BY <2>1, <2>2, <2>3, TellsOtherwise DEF Spoken
<1>6. CASE LinkRaises(o)
  BY <1>6, TellsOtherwise, EndsOtherwise, ProceedsOtherwise DEF LinkRaises, Otherwise, Spoken
<1>7. CASE LinkDone(o)
  BY <1>7, TellsOtherwise, EndsOtherwise, ProceedsOtherwise DEF LinkDone, Publishing, Otherwise, Spoken
<1>8. CASE Publish(o)
  BY <1>8, TellsOtherwise, EndsOtherwise, ProceedsOtherwise DEF Publish, Otherwise, Spoken
<1>9. CASE SelectRows(o)
  BY <1>9, TellsOtherwise, EndsOtherwise, ProceedsOtherwise DEF SelectRows, Otherwise, Spoken
<1>10. CASE WriteManifest(o)
  BY <1>10, TellsOtherwise, EndsOtherwise, ProceedsOtherwise DEF WriteManifest, Otherwise, Spoken
<1>11. CASE CommitRows(o)
  BY <1>11, TellsOtherwise, EndsOtherwise, ProceedsOtherwise DEF CommitRows, Otherwise, Spoken
<1>12. CASE RowsRefused(o)
  BY <1>12, TellsOtherwise, EndsOtherwise, ProceedsOtherwise DEF RowsRefused, Otherwise, Spoken
<1>13. QED
  BY <1>1, <1>2, <1>3, <1>4, <1>5, <1>6, <1>7, <1>8, <1>9, <1>10, <1>11, <1>12 DEF MarketNext

LEMMA ReplayMovesOtherwise ==
    ASSUME NEW o \in Operators, Otherwise({}, job[o]), ReplayNext(o)
    PROVE  MovesOtherwise(Spoken, o)
<1>1. CASE BeginReplay(o)
  BY <1>1, TellsOtherwise, EndsOtherwise, ProceedsOtherwise DEF BeginReplay, Otherwise, Spoken
<1>2. CASE BeginOutcome(o)
  BY <1>2, TellsOtherwise, EndsOtherwise, ProceedsOtherwise DEF BeginOutcome, Otherwise, Spoken
<1>3. CASE CommitCases(o)
  BY <1>3, TellsOtherwise, EndsOtherwise, ProceedsOtherwise DEF CommitCases, Otherwise, Spoken
<1>4. CASE CasesRefused(o)
  BY <1>4, TellsOtherwise, EndsOtherwise, ProceedsOtherwise DEF CasesRefused, Otherwise, Spoken
<1>5. CASE TakeSnapshot(o)
  <2>1. PICK k : k = [job[o] EXCEPT !.next = @ + 1, !.context = @ \cup ReplaySnapshot(job[o].next, ReplayCutoff)]
    OBVIOUS
  <2>2. "pc" \in DOMAIN k /\ k.pc = "replay_snapshot"
    BY <1>5, <2>1 DEF TakeSnapshot, At, Otherwise
  <2>3. Learn(o, k)
    BY <1>5, <2>1 DEF TakeSnapshot
  <2>4. QED
    BY <2>2, <2>3, TellsOtherwise DEF Spoken
<1>6. CASE MakeCommitment(o)
  BY <1>6, TellsOtherwise, EndsOtherwise, ProceedsOtherwise DEF MakeCommitment, Otherwise, Spoken
<1>7. CASE CommitCommitment(o)
  BY <1>7, TellsOtherwise, EndsOtherwise, ProceedsOtherwise DEF CommitCommitment, Otherwise, Spoken
<1>8. CASE RecordRun(o)
  BY <1>8, TellsOtherwise, EndsOtherwise, ProceedsOtherwise DEF RecordRun, Otherwise, Spoken
<1>9. CASE ReadFuture(o)
  BY <1>9, TellsOtherwise, EndsOtherwise, ProceedsOtherwise DEF ReadFuture, Otherwise, Spoken
<1>10. CASE OutcomeRaises(o)
  BY <1>10, TellsOtherwise, EndsOtherwise, ProceedsOtherwise DEF OutcomeRaises, Otherwise, Spoken
<1>11. CASE CommitOutcome(o)
  BY <1>11, TellsOtherwise, EndsOtherwise, ProceedsOtherwise DEF CommitOutcome, Otherwise, Spoken
<1>12. QED
  BY <1>1, <1>2, <1>3, <1>4, <1>5, <1>6, <1>7, <1>8, <1>9, <1>10, <1>11 DEF ReplayNext

LEMMA CampaignMovesOtherwise ==
    ASSUME NEW o \in Operators, Otherwise({}, job[o]), CampaignNext(o)
    PROVE  MovesOtherwise(Spoken, o)
<1>1. CASE BeginCase(o)
  BY <1>1, TellsOtherwise, EndsOtherwise, ProceedsOtherwise DEF BeginCase, Otherwise, Spoken
<1>2. CASE AnswerLost(o)
  <2>1. PICK k : k = [job[o] EXCEPT !.sent = @ + 1]
    OBVIOUS
  <2>2. "pc" \in DOMAIN k /\ k.pc = "campaign_send"
    BY <1>2, <2>1 DEF AnswerLost, At, Otherwise
  <2>3. Learn(o, k) \/ Finish(o)
    BY <1>2, <2>1 DEF AnswerLost
  <2>4. QED
    BY <2>2, <2>3, TellsOtherwise, EndsOtherwise DEF Spoken
<1>3. CASE AnswerRefused(o)
  BY <1>3, TellsOtherwise, EndsOtherwise, ProceedsOtherwise DEF AnswerRefused, Otherwise, Spoken
<1>4. CASE AnswerUseless(o)
  BY <1>4, TellsOtherwise, EndsOtherwise, ProceedsOtherwise DEF AnswerUseless, Otherwise, Spoken
<1>5. CASE AnswerParsed(o)
  BY <1>5, TellsOtherwise, EndsOtherwise, ProceedsOtherwise DEF AnswerParsed, Otherwise, Spoken
<1>6. CASE Seal(o)
  BY <1>6, TellsOtherwise, EndsOtherwise, ProceedsOtherwise DEF Seal, Otherwise, Spoken
<1>7. CASE SealRefused(o)
  BY <1>7, TellsOtherwise, EndsOtherwise, ProceedsOtherwise DEF SealRefused, Otherwise, Spoken
<1>8. CASE Predict(o)
  BY <1>8, TellsOtherwise, EndsOtherwise, ProceedsOtherwise DEF Predict, Otherwise, Spoken
<1>9. QED
  BY <1>1, <1>2, <1>3, <1>4, <1>5, <1>6, <1>7, <1>8 DEF CampaignNext

LEMMA AgentsMovesOtherwise ==
    ASSUME NEW o \in Operators, Otherwise({}, job[o]), AgentsNext(o)
    PROVE  MovesOtherwise(Spoken, o) \/ UNCHANGED job
<1>1. CASE BeginSeeding(o)
  BY <1>1, TellsOtherwise, EndsOtherwise, ProceedsOtherwise DEF BeginSeeding, Otherwise, Spoken
<1>2. CASE CommitSeeds(o)
  BY <1>2, TellsOtherwise, EndsOtherwise, ProceedsOtherwise DEF CommitSeeds, Otherwise, Spoken
<1>3. CASE BeginSuspension(o)
  BY <1>3, TellsOtherwise, EndsOtherwise, ProceedsOtherwise DEF BeginSuspension, Otherwise, Spoken
<1>4. CASE BeginAdding(o)
  <2>1. PICK item : Begin(o, [pc |-> "agent_revising", item |-> item])
    BY <1>4 DEF BeginAdding
  <2>2. QED
    BY <2>1, TellsOtherwise DEF Spoken
<1>5. CASE CheckLineage(o)
  BY <1>5, TellsOtherwise, EndsOtherwise, ProceedsOtherwise DEF CheckLineage, Otherwise, Spoken
<1>6. CASE CommitDefinition(o)
  BY <1>6, TellsOtherwise, EndsOtherwise, ProceedsOtherwise DEF CommitDefinition, Otherwise, Spoken
<1>7. CASE LoadExpert(o)
  BY <1>7, TellsOtherwise, EndsOtherwise, ProceedsOtherwise DEF LoadExpert, Otherwise, Spoken
<1>8. CASE AuditTool(o)
  BY <1>8 DEF AuditTool, sessionVars
<1>9. CASE CloseSession(o)
  BY <1>9, TellsOtherwise, EndsOtherwise, ProceedsOtherwise DEF CloseSession, Otherwise, Spoken
<1>10. CASE BeginRouting(o)
  BY <1>10, TellsOtherwise, EndsOtherwise, ProceedsOtherwise DEF BeginRouting, Otherwise, Spoken
<1>11. CASE ReadExpert(o)
  <2>1. PICK s, d : Learn(o, [job[o] EXCEPT !.left = @ \ {s}, !.found = @ \cup {d}])
    BY <1>11 DEF ReadExpert
  <2>2. PICK k : k = [job[o] EXCEPT !.left = @ \ {s}, !.found = @ \cup {d}]
    OBVIOUS
  <2>3. "pc" \in DOMAIN k /\ k.pc = "agent_routing"
    BY <1>11, <2>2 DEF ReadExpert, At, Otherwise
  <2>4. QED
    BY <2>1, <2>2, <2>3, TellsOtherwise DEF Spoken
<1>12. CASE CommitRouting(o)
  BY <1>12, TellsOtherwise, EndsOtherwise, ProceedsOtherwise DEF CommitRouting, Otherwise, Spoken
<1>13. QED
  BY <1>1, <1>2, <1>3, <1>4, <1>5, <1>6, <1>7, <1>8, <1>9, <1>10, <1>11, <1>12 DEF AgentsNext

LEMMA BuildersMoveOtherwise ==
    ASSUME NEW o \in Operators, Otherwise({}, job[o]), BuildNext(o) \/ CompanyNext(o) \/ ResearchNext(o)
    PROVE  MovesOtherwise(Extracting, o)
<1>1. CASE BeginResearch(o)
  BY <1>1, TellsOtherwise DEF BeginResearch, Extracting
<1>2. CASE ReadTable(o)
  <2>1. PICK new : Learn(o, [job[o] EXCEPT !.next = @ + 1, !.items = @ \cup new])
    BY <1>2 DEF ReadTable
  <2>2. PICK k : k = [job[o] EXCEPT !.next = @ + 1, !.items = @ \cup new]
    OBVIOUS
  <2>3. "pc" \in DOMAIN k /\ k.pc = "context_read"
    BY <1>2, <2>2 DEF ReadTable, At, Otherwise
  <2>4. QED
    BY <2>1, <2>2, <2>3, TellsOtherwise DEF Extracting
<1>3. CASE CommitContext(o)
  BY <1>3, TellsOtherwise, EndsOtherwise DEF CommitContext, SealsNext, Extracting
<1>4. CASE CommitAlias(o)
  BY <1>4, TellsOtherwise, EndsOtherwise DEF CommitAlias, SealsNext, Extracting
<1>5. CASE BeginReview(o)
  BY <1>5, TellsOtherwise DEF BeginReview, Extracting
<1>6. CASE CommitManifest(o)
  BY <1>6, TellsOtherwise DEF CommitManifest, Extracting
<1>7. CASE Finish(o)
  BY <1>7, EndsOtherwise
<1>8. CASE \E table, row : AddsFact(o, table, row)
  BY <1>8, TellsOtherwise DEF AddsFact, Extracting
<1>9. QED
  BY <1>1, <1>2, <1>3, <1>4, <1>5, <1>6, <1>7, <1>8
     DEF BuildNext, ResearchNext, CompanyNext, ContextRefused, ManifestRefused, ProviderFails, RecordHypothesis,
         RecordReview, CommitFact, AddCompany, AddFiling, AddFundamental, AddExposure

LEMMA ManyMoveOtherwise ==
    ASSUME NEW o, MovesOtherwise(Spoken, o)
    PROVE  MovesOtherwise(Building, o) /\ MovesOtherwise(Extracting, o)
BY DEF MovesOtherwise, Otherwise, Spoken, Building, Extracting

BuilderParts == {"company", "context", "research"}

KnownBy(items, at) == \A s \in items : s \in DOMAIN statements /\ statements[s] <= at

\* Every row was observed no sooner than the evidence it cites.
RegistryRows ==
    /\ \A s \in DOMAIN statements : statements[s] \in Nat
    /\ \A x \in filings \cup fundamentals \cup exposures : x.at \in Nat /\ KnownBy(x.cites, x.at)
    /\ \A l \in leads : l.at \in Nat /\ (l.table = "geopolitical" => KnownBy(l.cites, l.at))

CallTraced(c) ==
    \E t \in traces :
        /\ t.call = c.id
        /\ t.manifest \in contextManifests /\ t.manifest.context \in contexts /\ t.manifest.at <= c.at
        /\ \A claim \in c.claims : claim.supports \cup claim.contradicts \subseteq Citable(t.manifest.context)

HypothesisTraced(h) ==
    \E t \in traces : t.hypothesis = h.id /\ t.review = 0 /\ t.manifest.context.cutoff = h.cutoff

EvidenceIn(context) == {i \in context.items : i.kind = "evidence"}

ReviewTraced(r) ==
    \E t, u \in traces :
        /\ t.review = r.id /\ t.hypothesis = r.of /\ t.accepted = r.accepted
        /\ u.hypothesis = r.of /\ u.review = 0 /\ u.at <= r.at
        /\ r.accepted => /\ \E h \in hypotheses : h.id = r.of /\ h.basis \subseteq Citable(u.manifest.context)
                         /\ EvidenceIn(t.manifest.context) = EvidenceIn(u.manifest.context)

TraceRows ==
    /\ \A c \in calls : CallTraced(c)
    /\ \A h \in hypotheses : h.id # 0 /\ HypothesisTraced(h)
    /\ \A r \in researchReviews : ReviewTraced(r)

\* The source of a review is the context that its hypothesis was generated of; that of a
\* hypothesis is the context that is sealed.
SourceOf(j, context) ==
    /\ j.run # 0
    /\ j.of = 0 => j.source = context
    /\ j.of # 0 => /\ \E u \in traces : u.hypothesis = j.of /\ u.review = 0 /\ u.manifest.context = j.source
                   /\ EvidenceIn(context) = EvidenceIn(j.source)

BuilderJob(j) ==
    /\ j.pc = "company_insert" /\ j.table # "companies" => j.row.at \in Nat /\ KnownBy(j.row.cites, j.row.at)
    /\ j.pc = "context_read" =>
          /\ j = [pc |-> "context_read", run |-> j.run, company |-> j.company, cutoff |-> j.cutoff,
                  next |-> j.next, items |-> j.items]
          /\ j.run # 0 /\ j.cutoff \in Nat
          /\ \A i \in j.items : i.kind \in Collected => KnownBy(i.cites, j.cutoff)
    /\ j.pc = "alias_commit" => j.run # 0
    /\ j.pc = "manifest_commit" => SourceOf(j, j.context)
    /\ j.pc = "provider_call" =>
          /\ SourceOf(j, j.manifest.context)
          /\ j.manifest \in contextManifests /\ j.manifest.context \in contexts
          /\ j.manifest.at \in Nat /\ j.manifest.at <= now

ResearchInv ==
    /\ part \notin BuilderParts =>
          job = [o \in Operators |-> job[o]] /\ \A o \in Operators : Otherwise(Building, job[o])
    /\ part \in BuilderParts => SessionsOK /\ started >= 0 /\ \A o \in Operators : BuilderJob(job[o])
    /\ part = "research" => \A t \in traces : t.at \in Nat /\ t.at <= now
    /\ RegistryRows /\ TraceRows

LEMMA ResearchPart ==
    ASSUME [Next]_vars
    PROVE  /\ part' = part
           /\ part # "research" => UNCHANGED traces
           /\ part \in BuilderParts =>
                 \/ \E o \in Operators : BuildNext(o)
                 \/ \E o \in Operators : CompanyNext(o) /\ UNCHANGED researchVars
                 \/ \E o \in Operators : part = "research" /\ ResearchNext(o)
                 \/ StatementArrives /\ UNCHANGED <<sessionVars, researchVars>>
                 \/ LeadArrives /\ UNCHANGED <<sessionVars, companyVars>>
                 \/ (\E o \in Operators : Dies(o)) /\ UNCHANGED <<companyVars, researchVars>>
                 \/ Tick /\ UNCHANGED <<companyVars, researchVars>>
                 \/ UNCHANGED <<sessionVars, companyVars, researchVars>>
<1>1. part' = part
  BY DEF Next, vars
<1>2. UNCHANGED researchVars => UNCHANGED traces
  BY DEF researchVars
<1>3. ASSUME NEW o \in Operators, BuildNext(o)
      PROVE  UNCHANGED traces
  BY <1>3 DEF BuildNext, BeginResearch, ReadTable, CommitContext, ContextRefused, researchVars
<1>4. LeadArrives => UNCHANGED traces
  BY DEF LeadArrives
<1>5. part # "research" => UNCHANGED traces
  BY <1>2, <1>3, <1>4
     DEF Next, vars, Lab, Study, Evolution, Source, Replay, Research, Campaign, Agents, Arrival, Outside, deskVars
<1>6. part \in BuilderParts =>
         \/ \E o \in Operators : BuildNext(o)
         \/ \E o \in Operators : CompanyNext(o) /\ UNCHANGED researchVars
         \/ \E o \in Operators : part = "research" /\ ResearchNext(o)
         \/ StatementArrives /\ UNCHANGED <<sessionVars, researchVars>>
         \/ LeadArrives /\ UNCHANGED <<sessionVars, companyVars>>
         \/ (\E o \in Operators : Dies(o)) /\ UNCHANGED <<companyVars, researchVars>>
         \/ Tick /\ UNCHANGED <<companyVars, researchVars>>
         \/ UNCHANGED <<sessionVars, companyVars, researchVars>>
  BY DEF BuilderParts, Next, vars, Lab, Study, Evolution, Source, Replay, Research, Campaign, Agents, Arrival,
     Outside, deskVars
<1>7. QED
  BY <1>1, <1>5, <1>6

\* Evidence, contexts, manifests and traces are only added, and time goes on.
ResearchGrows ==
    /\ DOMAIN statements \subseteq DOMAIN statements'
    /\ \A s \in DOMAIN statements : statements'[s] = statements[s]
    /\ contexts \subseteq contexts' /\ contextManifests \subseteq contextManifests'
    /\ hypotheses \subseteq hypotheses' /\ traces \subseteq traces'
    /\ now \in Nat /\ now' \in Nat /\ now <= now'

LEMMA KnownStays ==
    ASSUME ResearchGrows, NEW items, NEW at, KnownBy(items, at)
    PROVE  KnownBy(items, at)'
BY DEF ResearchGrows, KnownBy

LEMMA TracesStay ==
    ASSUME ResearchGrows
    PROVE  /\ \A c : CallTraced(c) => CallTraced(c)'
           /\ \A h : HypothesisTraced(h) => HypothesisTraced(h)'
           /\ \A r : ReviewTraced(r) => ReviewTraced(r)'
<1>1. ASSUME NEW c, CallTraced(c) PROVE CallTraced(c)'
  BY <1>1 DEF ResearchGrows, CallTraced
<1>2. ASSUME NEW h, HypothesisTraced(h) PROVE HypothesisTraced(h)'
  BY <1>2 DEF ResearchGrows, HypothesisTraced
<1>3. ASSUME NEW r, ReviewTraced(r) PROVE ReviewTraced(r)'
  BY <1>3 DEF ResearchGrows, ReviewTraced
<1>4. QED
  BY <1>1, <1>2, <1>3

LEMMA SourceStays ==
    ASSUME ResearchGrows, NEW j, NEW context, SourceOf(j, context)
    PROVE  SourceOf(j, context)'
BY DEF ResearchGrows, SourceOf

LEMMA BuilderJobStays ==
    ASSUME ResearchGrows, NEW j, BuilderJob(j)
    PROVE  BuilderJob(j)'
<1>1. j.pc = "company_insert" => BuilderJob(j)'
  <2>1. PICK cites, at : cites = j.row.cites /\ at = j.row.at
    OBVIOUS
  <2>2. KnownBy(cites, at) => KnownBy(cites, at)'
    BY KnownStays
  <2>3. QED
    BY <2>1, <2>2 DEF BuilderJob
<1>2. j.pc = "context_read" => BuilderJob(j)'
  <2>1. ASSUME NEW i \in j.items, KnownBy(i.cites, j.cutoff)
        PROVE  KnownBy(i.cites, j.cutoff)'
    <3>1. PICK cites, at : cites = i.cites /\ at = j.cutoff
      OBVIOUS
    <3>2. KnownBy(cites, at)'
      BY <2>1, <3>1, KnownStays
    <3>3. QED
      BY <3>1, <3>2
  <2>2. QED
    BY <2>1 DEF BuilderJob
<1>3. j.pc = "manifest_commit" => BuilderJob(j)'
  <2>1. PICK context : context = j.context
    OBVIOUS
  <2>2. SourceOf(j, context) => SourceOf(j, context)'
    BY SourceStays
  <2>3. QED
    BY <2>1, <2>2 DEF BuilderJob
<1>4. j.pc = "provider_call" => BuilderJob(j)'
  <2>1. PICK context : context = j.manifest.context
    OBVIOUS
  <2>2. SourceOf(j, context) => SourceOf(j, context)'
    BY SourceStays
  <2>3. QED
    BY <2>1, <2>2 DEF BuilderJob, ResearchGrows
<1>5. QED
  BY <1>1, <1>2, <1>3, <1>4 DEF BuilderJob

LEMMA BuilderNumbers ==
    ASSUME ResearchInv, part \in BuilderParts
    PROVE  SessionsOK /\ now \in Nat /\ now \in Time /\ started \in Nat
BY SessionsAssumption DEF ResearchInv, SessionsOK, Time

LEMMA BuilderStep ==
    ASSUME ResearchInv, part \in BuilderParts, part' = part, SessionsOK', started' >= 0, ResearchGrows,
           RegistryRows', TraceRows', (part = "research" => \A t \in traces : t.at \in Nat /\ t.at <= now)',
           NEW o \in Operators, BuilderJob(job[o])',
           \A q \in Operators : q # o => job'[q] = job[q]
    PROVE  ResearchInv'
<1>1. \A q \in Operators : BuilderJob(job[q])'
  <2> TAKE q \in Operators
  <2>1. CASE q = o
    BY <2>1
  <2>2. CASE q # o
    <3>1. PICK k : k = job[q]
      OBVIOUS
    <3>2. BuilderJob(k)'
      BY <3>1, BuilderJobStays DEF ResearchInv
    <3>3. QED
      BY <2>2, <3>1, <3>2
  <2>3. QED
    BY <2>1, <2>2
<1>2. QED
  BY <1>1 DEF ResearchInv

LEMMA RowsStay ==
    ASSUME ResearchInv, ResearchGrows, UNCHANGED <<filings, fundamentals, exposures, leads, statements>>
    PROVE  RegistryRows'
BY DEF ResearchInv, RegistryRows, KnownBy

\* A step of a process that adds nothing but contexts and manifests.
LEMMA BuilderLearns ==
    ASSUME ResearchInv, part \in BuilderParts, part' = part, NEW o \in Operators, NEW j, Learn(o, j),
           UNCHANGED <<companyVars, leads, calls, hypotheses, researchReviews, traces>>,
           contexts \subseteq contexts', contextManifests \subseteq contextManifests', BuilderJob(j)'
    PROVE  ResearchInv'
<1>1. /\ SessionsOK' /\ now' = now /\ started' = started /\ job'[o] = j
      /\ \A q \in Operators : q # o => job'[q] = job[q]
  BY OneLearns, BuilderNumbers
<1>2. ResearchGrows /\ started' >= 0
  BY <1>1, BuilderNumbers DEF ResearchGrows, companyVars
<1>3. RegistryRows'
  BY <1>2, RowsStay DEF companyVars
<1>4. TraceRows'
  BY <1>2, TracesStay DEF ResearchInv, TraceRows
<1>5. (part = "research" => \A t \in traces : t.at \in Nat /\ t.at <= now)'
  BY <1>1 DEF ResearchInv
<1>6. BuilderJob(job[o])'
  BY <1>1
<1>7. QED
  BY <1>1, <1>2, <1>3, <1>4, <1>5, <1>6, BuilderStep

LEMMA IdleBuilder == BuilderJob(Idle) /\ BuilderJob(Idle)'
BY DEF BuilderJob, Idle

LEMMA BuilderEnds ==
    ASSUME ResearchInv, part \in BuilderParts, part' = part, NEW o \in Operators, Finish(o),
           UNCHANGED <<companyVars, researchVars>>
    PROVE  ResearchInv'
BY IdleBuilder, BuilderLearns DEF Finish, researchVars

LEMMA BuilderBegins ==
    ASSUME ResearchInv, part \in BuilderParts, part' = part, NEW o \in Operators, NEW j, Begin(o, j), BuilderJob(j),
           UNCHANGED <<companyVars, researchVars>>
    PROVE  ResearchInv'
<1>1. /\ SessionsOK' /\ now' = now /\ started' = started + 1 /\ job'[o] = j
      /\ \A q \in Operators : q # o => job'[q] = job[q]
  BY OneBegins, BuilderNumbers
<1>2. ResearchGrows /\ started' >= 0
  BY <1>1, BuilderNumbers DEF ResearchGrows, companyVars, researchVars
<1>3. RegistryRows'
  BY <1>2, RowsStay DEF companyVars, researchVars
<1>4. TraceRows'
  BY <1>2, TracesStay DEF ResearchInv, TraceRows, researchVars
<1>5. (part = "research" => \A t \in traces : t.at \in Nat /\ t.at <= now)'
  BY <1>1 DEF ResearchInv, researchVars
<1>6. BuilderJob(j)'
  BY <1>2, BuilderJobStays
<1>7. BuilderJob(job[o])'
  BY <1>1, <1>6
<1>8. QED
  BY <1>1, <1>2, <1>3, <1>4, <1>5, <1>7, BuilderStep

LEMMA AddsFactKeeps ==
    ASSUME ResearchInv, part \in BuilderParts, part' = part, UNCHANGED researchVars,
           NEW o \in Operators, NEW table, NEW row, AddsFact(o, table, row),
           table # "companies" => row.at \in Nat /\ KnownBy(row.cites, row.at)
    PROVE  ResearchInv'
<1>1. BuilderJob([pc |-> "company_insert", table |-> table, row |-> row])
  BY DEF BuilderJob
<1>2. QED
  BY <1>1, BuilderBegins DEF AddsFact

LEMMA EvidenceIsKnown ==
    ASSUME NEW items, NEW at, EvidenceBy(items, at)
    PROVE  KnownBy(items, at)
BY DEF EvidenceBy, KnownBy

LEMMA CompanyNextKeeps ==
    ASSUME ResearchInv, part \in BuilderParts, part' = part, UNCHANGED researchVars, NEW o \in Operators, CompanyNext(o)
    PROVE  ResearchInv'
<1>1. CASE AddCompany(o)
  BY <1>1, AddsFactKeeps DEF AddCompany
<1>2. CASE AddFiling(o)
  <2>1. PICK c \in Companies, items \in SUBSET Statements, at \in 0..now, prior \in {0} \cup {f.id : f \in filings} :
            /\ EvidenceBy(items, at)
            /\ AddsFact(o, "filings", [id |-> started + 1, company |-> c, cites |-> items,
                                       at |-> at, restates |-> prior])
    BY <1>2 DEF AddFiling
  <2>2. at \in Nat /\ KnownBy(items, at)
    BY <2>1, BuilderNumbers, EvidenceIsKnown
  <2>3. QED
    BY <2>1, <2>2, AddsFactKeeps
<1>3. CASE AddFundamental(o)
  <2>1. PICK f \in filings, items \in SUBSET Statements, at \in 0..now, prior \in {0} \cup {x.id : x \in fundamentals} :
            /\ EvidenceBy(items, at)
            /\ AddsFact(o, "fundamentals", [id |-> started + 1, company |-> f.company, filing |-> f.id,
                                            cites |-> items, at |-> at, restates |-> prior])
    BY <1>3 DEF AddFundamental
  <2>2. at \in Nat /\ KnownBy(items, at)
    BY <2>1, BuilderNumbers, EvidenceIsKnown
  <2>3. QED
    BY <2>1, <2>2, AddsFactKeeps
<1>4. CASE AddExposure(o)
  <2>1. PICK c \in Companies, items \in SUBSET Statements, from \in 0..now, at \in 0..now, until \in {now + 1, Always},
             version \in {1, 1 + Cardinality(exposures)} :
            /\ EvidenceBy(items, at)
            /\ AddsFact(o, "exposures", [id |-> started + 1, company |-> c, from |-> from, until |-> until,
                                         cites |-> items, at |-> at, version |-> version])
    BY <1>4 DEF AddExposure
  <2>2. at \in Nat /\ KnownBy(items, at)
    BY <2>1, BuilderNumbers, EvidenceIsKnown
  <2>3. QED
    BY <2>1, <2>2, AddsFactKeeps
<1>5. CASE CommitFact(o)
  <2>1. /\ job[o].pc = "company_insert"
        /\ filings' = KeepsFact(o, "filings", filings)
        /\ fundamentals' = KeepsFact(o, "fundamentals", fundamentals)
        /\ exposures' = KeepsFact(o, "exposures", exposures)
        /\ Learn(o, Idle) /\ statements' = statements
    BY <1>5 DEF CommitFact, At, Finish
  <2>2. /\ SessionsOK' /\ now' = now /\ started' = started /\ job'[o] = Idle
        /\ \A q \in Operators : q # o => job'[q] = job[q]
    BY <2>1, OneLearns, BuilderNumbers
  <2>3. ResearchGrows /\ started' >= 0
    BY <2>1, <2>2, BuilderNumbers DEF ResearchGrows, researchVars
  <2>4. \A x \in filings' \cup fundamentals' \cup exposures' :
            \/ x \in filings \cup fundamentals \cup exposures
            \/ job[o].table # "companies" /\ x = job[o].row
    BY <2>1 DEF KeepsFact
  <2>5. job[o].table # "companies" => job[o].row.at \in Nat /\ KnownBy(job[o].row.cites, job[o].row.at)
    BY <2>1 DEF ResearchInv, BuilderJob
  <2>6. RegistryRows'
    BY <2>1, <2>4, <2>5 DEF ResearchInv, RegistryRows, KnownBy, researchVars
  <2>7. TraceRows'
    BY <2>3, TracesStay DEF ResearchInv, TraceRows, researchVars
  <2>8. (part = "research" => \A t \in traces : t.at \in Nat /\ t.at <= now)'
    BY <2>2 DEF ResearchInv, researchVars
  <2>9. BuilderJob(job[o])'
    BY <2>2, IdleBuilder
  <2>10. QED
    BY <2>2, <2>3, <2>6, <2>7, <2>8, <2>9, BuilderStep
<1>6. QED
  BY <1>1, <1>2, <1>3, <1>4, <1>5 DEF CompanyNext

\* What a query returns of a table whose evidence is collected was known by its cutoff.
LEMMA RowsKnown ==
    ASSUME RegistryRows, NEW table \in Collected, NEW c, NEW cutoff \in Nat, NEW rows \in RowsOf(table, c, cutoff),
           NEW r \in rows
    PROVE  KnownBy(r.cites, cutoff)
<1>1. \A x \in filings \cup fundamentals \cup exposures : x.at <= cutoff => KnownBy(x.cites, cutoff)
  BY DEF RegistryRows, KnownBy
<1>2. CASE table = "filing"
  BY <1>1, <1>2 DEF RowsOf, FilingsAt
<1>3. CASE table = "fundamental"
  BY <1>1, <1>3 DEF RowsOf, FundamentalsAt
<1>4. CASE table = "exposure"
  <2>1. RowsOf(table, c, cutoff) =
          IF ExposuresAt(c, cutoff) = {} THEN {{}} ELSE {{x} : x \in ExposuresAt(c, cutoff)}
    BY <1>4 DEF RowsOf
  <2>2. r \in ExposuresAt(c, cutoff)
    BY <2>1
  <2>3. QED
    BY <1>1, <2>2 DEF ExposuresAt
<1>5. CASE table \notin {"filing", "fundamental", "exposure"}
  <2>1. r \in {l \in leads : /\ l.table = table /\ l.at <= cutoff
                             /\ table = "guarded" => EvidenceBy(l.cites, cutoff)}
    BY <1>5 DEF RowsOf
  <2>2. table \in {"guarded", "geopolitical"}
    BY <1>5 DEF Collected
  <2>3. CASE table = "guarded"
    BY <2>1, <2>3, EvidenceIsKnown
  <2>4. CASE table = "geopolitical"
    BY <2>1, <2>4 DEF RegistryRows, KnownBy
  <2>5. QED
    BY <2>2, <2>3, <2>4
<1>6. QED
  BY <1>2, <1>3, <1>4, <1>5

LEMMA BuildNextKeeps ==
    ASSUME ResearchInv, part \in BuilderParts, part' = part, NEW o \in Operators, BuildNext(o)
    PROVE  ResearchInv'
<1>1. UNCHANGED companyVars /\ BuilderJob(job[o])
  BY DEF BuildNext, ResearchInv
<1>2. CASE BeginResearch(o)
  <2>1. PICK c \in Companies, cutoff \in 0..now + 1 : \E v \in CompaniesAt(c, cutoff) :
            Begin(o, [pc |-> "context_read", run |-> started + 1, company |-> c, cutoff |-> cutoff, next |-> 1,
                      items |-> {ContextItem("company", v.version, v.at, {})}])
    BY <1>2 DEF BeginResearch
  <2>2. PICK v \in CompaniesAt(c, cutoff) :
            Begin(o, [pc |-> "context_read", run |-> started + 1, company |-> c, cutoff |-> cutoff, next |-> 1,
                      items |-> {ContextItem("company", v.version, v.at, {})}])
    BY <2>1
  <2>3. cutoff \in Nat /\ started + 1 # 0
    BY BuilderNumbers
  <2>4. BuilderJob([pc |-> "context_read", run |-> started + 1, company |-> c, cutoff |-> cutoff, next |-> 1,
                    items |-> {ContextItem("company", v.version, v.at, {})}])
    BY <2>3 DEF BuilderJob, ContextItem, Collected
  <2>5. UNCHANGED <<companyVars, researchVars>>
    BY <1>1, <1>2 DEF BeginResearch
  <2>6. QED
    BY <2>2, <2>4, <2>5, BuilderBegins
<1>3. CASE ReadTable(o)
  <2>1. PICK table : table = Tables[job[o].next]
    OBVIOUS
  <2>2. PICK rows \in RowsOf(table, job[o].company, job[o].cutoff) :
            Learn(o, [job[o] EXCEPT !.next = @ + 1,
                      !.items = @ \cup {ContextItem(table, r.id, r.at, r.cites) : r \in rows}])
    BY <1>3, <2>1 DEF ReadTable
  <2>3. job[o].pc = "context_read" /\ UNCHANGED researchVars
    BY <1>3 DEF ReadTable, At
  <2>4. PICK k : k = job[o]
    OBVIOUS
  <2>5. PICK more : more = {ContextItem(table, r.id, r.at, r.cites) : r \in rows}
    OBVIOUS
  <2>6. PICK j : j = [k EXCEPT !.next = @ + 1, !.items = @ \cup more]
    OBVIOUS
  <2>7. Learn(o, j)
    BY <2>2, <2>4, <2>5, <2>6
  <2>8. k.pc = "context_read" /\ BuilderJob(k)
    BY <1>1, <2>3, <2>4
  <2>9. PICK run, company, cutoff, next, items :
            k = [pc |-> "context_read", run |-> run, company |-> company, cutoff |-> cutoff, next |-> next,
                 items |-> items]
    BY <2>8 DEF BuilderJob
  <2>10. /\ BuilderJob([pc |-> "context_read", run |-> run, company |-> company, cutoff |-> cutoff,
                        next |-> next, items |-> items])
         /\ k.company = company /\ k.cutoff = cutoff
    BY <2>8, <2>9
  <2>11. j = [pc |-> "context_read", run |-> run, company |-> company, cutoff |-> cutoff, next |-> next + 1,
              items |-> items \cup more]
    BY <2>6, <2>9
  <2>12. /\ run # 0 /\ cutoff \in Nat
         /\ \A i \in items : i.kind \in Collected => KnownBy(i.cites, cutoff)
    BY <2>10 DEF BuilderJob
  <2>13. \A i \in more : i.kind \in Collected => KnownBy(i.cites, cutoff)
    <3>1. \A i \in more : \E r \in rows : i.kind = table /\ i.cites = r.cites
      BY <2>5 DEF ContextItem
    <3>2. rows \in RowsOf(table, company, cutoff)
      BY <2>2, <2>4, <2>10
    <3>3. table \in Collected => \A r \in rows : KnownBy(r.cites, cutoff)
      BY <2>12, <3>2, RowsKnown DEF ResearchInv
    <3>4. QED
      BY <3>1, <3>3
  <2>14. BuilderJob([pc |-> "context_read", run |-> run, company |-> company, cutoff |-> cutoff, next |-> next + 1,
                     items |-> items \cup more])
    BY <2>12, <2>13 DEF BuilderJob
  <2>15. UNCHANGED <<leads, calls, hypotheses, researchReviews, traces, contexts, contextManifests>>
    BY <2>3 DEF researchVars
  <2>16. now' = now
    BY <2>7 DEF Learn
  <2>17. ResearchGrows
    BY <1>1, <2>15, <2>16, BuilderNumbers DEF ResearchGrows, companyVars
  <2>18. BuilderJob(j)'
    BY <2>11, <2>14, <2>17, BuilderJobStays
  <2>19. QED
    BY <1>1, <2>7, <2>15, <2>18, BuilderLearns
<1>4. CASE CommitContext(o)
  <2>1. PICK j : j = job[o]
    OBVIOUS
  <2>2. PICK context : context = ContextOf(j)
    OBVIOUS
  <2>3. /\ j.pc = "context_read" /\ contexts' = contexts \cup {context}
        /\ \/ Learn(o, [pc |-> "alias_commit", run |-> j.run, context |-> context])
           \/ Learn(o, SealsNext(j.run, context))
           \/ Learn(o, Idle)
        /\ UNCHANGED <<leads, aliases, contextManifests, calls, hypotheses, researchReviews, traces>>
    BY <1>4, <2>1, <2>2 DEF CommitContext, At, Finish
  <2>4. j.run # 0
    BY <1>1, <2>1, <2>3 DEF BuilderJob
  <2>5. BuilderJob([pc |-> "alias_commit", run |-> j.run, context |-> context])'
    BY <2>4 DEF BuilderJob
  <2>6. BuilderJob(SealsNext(j.run, context))'
    BY <2>4 DEF BuilderJob, SealsNext, SourceOf
  <2>7. contexts \subseteq contexts' /\ contextManifests \subseteq contextManifests'
        /\ UNCHANGED <<companyVars, leads, calls, hypotheses, researchReviews, traces>>
    BY <1>1, <2>3
  <2>8. QED
    BY <2>3, <2>5, <2>6, <2>7, IdleBuilder, BuilderLearns
<1>5. CASE ContextRefused(o)
  BY <1>1, <1>5, BuilderEnds DEF ContextRefused
<1>6. QED
  BY <1>2, <1>3, <1>4, <1>5 DEF BuildNext

\* The call is recorded: what the rest of the rows needs of the step.
LEMMA BuilderRecords ==
    ASSUME ResearchInv, part = "research", part' = part, NEW o \in Operators, Finish(o),
           UNCHANGED <<companyVars, leads, contexts, contextManifests>>,
           hypotheses \subseteq hypotheses', traces \subseteq traces',
           \A t \in traces' : t \in traces \/ t.at = now,
           \A c \in calls' : c \in calls \/ CallTraced(c)',
           \A h \in hypotheses' : h \in hypotheses \/ (h.id # 0 /\ HypothesisTraced(h)'),
           \A r \in researchReviews' : r \in researchReviews \/ ReviewTraced(r)'
    PROVE  ResearchInv'
<1>1. /\ SessionsOK' /\ now' = now /\ started' = started /\ job'[o] = Idle
      /\ \A q \in Operators : q # o => job'[q] = job[q]
  BY OneFinishes, BuilderNumbers DEF BuilderParts
<1>2. ResearchGrows /\ started' >= 0
  BY <1>1, BuilderNumbers DEF ResearchGrows, companyVars, BuilderParts
<1>3. RegistryRows'
  BY <1>2, RowsStay DEF companyVars
<1>4. TraceRows'
  BY <1>2, TracesStay DEF ResearchInv, TraceRows
<1>5. (part = "research" => \A t \in traces : t.at \in Nat /\ t.at <= now)'
  BY <1>1, BuilderNumbers DEF ResearchInv, BuilderParts
<1>6. BuilderJob(job[o])'
  BY <1>1, IdleBuilder
<1>7. QED
  BY <1>1, <1>2, <1>3, <1>4, <1>5, <1>6, BuilderStep DEF BuilderParts

LEMMA RecordHypothesisKeeps ==
    ASSUME ResearchInv, part = "research", part' = part, UNCHANGED companyVars, NEW o \in Operators, RecordHypothesis(o)
    PROVE  ResearchInv'
<1>1. PICK j : j = job[o]
  OBVIOUS
<1>2. PICK claim \in Claim :
          /\ Grounded(j.manifest.context, claim)
          /\ calls' = calls \cup {CallOf(j, {claim})}
          /\ hypotheses' = hypotheses \cup {HypothesisOf(j, claim)}
          /\ traces' = traces \cup {TraceOf(j, j.run, 0, FALSE)}
  BY <1>1 DEF RecordHypothesis
<1>3. /\ j.pc = "provider_call" /\ j.of = 0 /\ Finish(o)
      /\ UNCHANGED <<leads, contexts, aliases, contextManifests, researchReviews>>
  BY <1>1 DEF RecordHypothesis, At
<1>4. /\ j.run # 0 /\ j.source = j.manifest.context
      /\ j.manifest \in contextManifests /\ j.manifest.context \in contexts
      /\ j.manifest.at \in Nat /\ j.manifest.at <= now
  BY <1>1, <1>3 DEF ResearchInv, BuilderJob, BuilderParts, SourceOf
<1>5. PICK t, c, h : t = TraceOf(j, j.run, 0, FALSE) /\ c = CallOf(j, {claim}) /\ h = HypothesisOf(j, claim)
  OBVIOUS
<1>6. /\ t.call = j.run /\ t.manifest = j.manifest /\ t.hypothesis = j.run /\ t.review = 0 /\ t.at = now
      /\ c.id = j.run /\ c.at = now /\ c.claims = {claim}
      /\ h.id = j.run /\ h.cutoff = j.source.cutoff
  BY <1>5 DEF TraceOf, CallOf, HypothesisOf
<1>7. calls' = calls \cup {c} /\ hypotheses' = hypotheses \cup {h} /\ traces' = traces \cup {t}
  BY <1>2, <1>5
<1>8. CallTraced(c)'
  BY <1>2, <1>3, <1>4, <1>6, <1>7 DEF CallTraced, Grounded
<1>9. HypothesisTraced(h)' /\ h.id # 0
  BY <1>4, <1>6, <1>7 DEF HypothesisTraced
<1>10. QED
  BY <1>3, <1>6, <1>7, <1>8, <1>9, BuilderRecords

LEMMA RecordReviewKeeps ==
    ASSUME ResearchInv, part = "research", part' = part, UNCHANGED companyVars, NEW o \in Operators, RecordReview(o)
    PROVE  ResearchInv'
<1>1. PICK j : j = job[o]
  OBVIOUS
<1>2. PICK h \in hypotheses, worded \in BOOLEAN, claims \in {{}} \cup {{c} : c \in Claim} :
          /\ h.id = j.of
          /\ \A c \in claims : Grounded(j.manifest.context, c)
          /\ calls' = calls \cup {CallOf(j, claims)}
          /\ researchReviews' = researchReviews \cup {ReviewOf(j, Acceptable(h, j.source, worded))}
          /\ traces' = traces \cup {TraceOf(j, h.id, j.run, Acceptable(h, j.source, worded))}
  BY <1>1 DEF RecordReview
<1>3. /\ j.pc = "provider_call" /\ j.of # 0 /\ Finish(o)
      /\ UNCHANGED <<leads, contexts, aliases, contextManifests, hypotheses>>
  BY <1>1 DEF RecordReview, At
<1>4. /\ j.run # 0 /\ EvidenceIn(j.manifest.context) = EvidenceIn(j.source)
      /\ j.manifest \in contextManifests /\ j.manifest.context \in contexts
      /\ j.manifest.at \in Nat /\ j.manifest.at <= now
      /\ \E u \in traces : u.hypothesis = j.of /\ u.review = 0 /\ u.manifest.context = j.source
  BY <1>1, <1>3 DEF ResearchInv, BuilderJob, BuilderParts, SourceOf
<1>5. PICK u \in traces : u.hypothesis = j.of /\ u.review = 0 /\ u.manifest.context = j.source
  BY <1>4
<1>6. u.at <= now
  BY DEF ResearchInv
<1>7. PICK accepted : accepted = Acceptable(h, j.source, worded)
  OBVIOUS
<1>8. PICK t, c, r : t = TraceOf(j, h.id, j.run, accepted) /\ c = CallOf(j, claims) /\ r = ReviewOf(j, accepted)
  OBVIOUS
<1>9. /\ t.call = j.run /\ t.manifest = j.manifest /\ t.hypothesis = j.of /\ t.review = j.run
      /\ t.accepted = accepted /\ t.at = now
      /\ c.id = j.run /\ c.at = now /\ c.claims = claims
      /\ r.id = j.run /\ r.of = j.of /\ r.accepted = accepted /\ r.at = now
  BY <1>2, <1>8 DEF TraceOf, CallOf, ReviewOf
<1>10. calls' = calls \cup {c} /\ researchReviews' = researchReviews \cup {r} /\ traces' = traces \cup {t}
  BY <1>2, <1>7, <1>8
<1>11. CallTraced(c)'
  BY <1>2, <1>3, <1>4, <1>9, <1>10 DEF CallTraced, Grounded
<1>12. accepted => h.basis \subseteq Citable(u.manifest.context)
  BY <1>5, <1>7 DEF Acceptable
<1>13. ReviewTraced(r)'
  BY <1>2, <1>3, <1>4, <1>5, <1>6, <1>9, <1>10, <1>12 DEF ReviewTraced
<1>14. QED
  BY <1>3, <1>9, <1>10, <1>11, <1>13, BuilderRecords

LEMMA CommitManifestKeeps ==
    ASSUME ResearchInv, part = "research", part' = part, UNCHANGED companyVars, NEW o \in Operators, CommitManifest(o)
    PROVE  ResearchInv'
<1>1. PICK k : k = job[o]
  OBVIOUS
<1>2. PICK m : m = ManifestOf(k.context)
  OBVIOUS
<1>3. /\ k.pc = "manifest_commit"
      /\ contexts' = contexts \cup {k.context} /\ contextManifests' = contextManifests \cup {m}
      /\ Learn(o, [pc |-> "provider_call", run |-> k.run, of |-> k.of, source |-> k.source, manifest |-> m])
      /\ UNCHANGED <<leads, aliases, calls, hypotheses, researchReviews, traces>>
  BY <1>1, <1>2 DEF CommitManifest, At
<1>4. SourceOf(k, k.context)
  BY <1>1, <1>3 DEF ResearchInv, BuilderJob, BuilderParts
<1>5. m.context = k.context /\ m.at = now
  BY <1>2 DEF ManifestOf
<1>6. now' = now /\ now \in Nat
  BY <1>3, BuilderNumbers DEF Learn, BuilderParts
<1> DEFINE j == [pc |-> "provider_call", run |-> k.run, of |-> k.of, source |-> k.source, manifest |-> m]
<1>7. SourceOf(j, m.context)'
  BY <1>3, <1>4, <1>5 DEF SourceOf
<1>8. BuilderJob(j)'
  BY <1>3, <1>5, <1>6, <1>7 DEF BuilderJob
<1>9. QED
  BY <1>3, <1>8, BuilderLearns DEF BuilderParts

LEMMA BeginReviewKeeps ==
    ASSUME ResearchInv, part = "research", part' = part, UNCHANGED companyVars, NEW o \in Operators, BeginReview(o)
    PROVE  ResearchInv'
<1>1. PICK h \in hypotheses : \E t \in SourceTraces(h) :
          Begin(o, [pc |-> "manifest_commit", run |-> started + 1, of |-> h.id, source |-> t.manifest.context,
                    context |-> ReviewContext(h, t.manifest.context)])
  BY DEF BeginReview
<1>2. PICK t \in SourceTraces(h) :
          Begin(o, [pc |-> "manifest_commit", run |-> started + 1, of |-> h.id, source |-> t.manifest.context,
                    context |-> ReviewContext(h, t.manifest.context)])
  BY <1>1
<1>3. t \in traces /\ t.hypothesis = h.id /\ t.review = 0
  BY DEF SourceTraces
<1>4. h.id # 0 /\ started + 1 # 0
  BY BuilderNumbers DEF ResearchInv, TraceRows, BuilderParts
<1>5. EvidenceIn(ReviewContext(h, t.manifest.context)) = EvidenceIn(t.manifest.context)
  BY DEF EvidenceIn, ReviewContext, ContextItem
<1>6. BuilderJob([pc |-> "manifest_commit", run |-> started + 1, of |-> h.id, source |-> t.manifest.context,
                  context |-> ReviewContext(h, t.manifest.context)])
  <2>1. PICK context : context = ReviewContext(h, t.manifest.context)
    OBVIOUS
  <2>2. SourceOf([pc |-> "manifest_commit", run |-> started + 1, of |-> h.id, source |-> t.manifest.context,
                  context |-> context], context)
    BY <1>3, <1>4, <1>5, <2>1 DEF SourceOf
  <2>3. BuilderJob([pc |-> "manifest_commit", run |-> started + 1, of |-> h.id, source |-> t.manifest.context,
                    context |-> context])
    BY <2>2 DEF BuilderJob
  <2>4. QED
    BY <2>1, <2>3
<1>7. UNCHANGED researchVars
  BY DEF BeginReview
<1>8. QED
  BY <1>2, <1>6, <1>7, BuilderBegins DEF BuilderParts

LEMMA CommitAliasKeeps ==
    ASSUME ResearchInv, part = "research", part' = part, UNCHANGED companyVars, NEW o \in Operators, CommitAlias(o)
    PROVE  ResearchInv'
<1>1. PICK k : k = job[o]
  OBVIOUS
<1>2. PICK aliased : aliased = Anonymized(k.context)
  OBVIOUS
<1>3. /\ k.pc = "alias_commit" /\ contexts' = contexts \cup {aliased}
      /\ Learn(o, SealsNext(k.run, aliased)) \/ Learn(o, Idle)
      /\ UNCHANGED <<leads, contextManifests, calls, hypotheses, researchReviews, traces>>
  BY <1>1, <1>2 DEF CommitAlias, At, Finish
<1>4. k.run # 0
  BY <1>1, <1>3 DEF ResearchInv, BuilderJob, BuilderParts
<1>5. BuilderJob(SealsNext(k.run, aliased))'
  BY <1>4 DEF BuilderJob, SealsNext, SourceOf
<1>6. contexts \subseteq contexts' /\ contextManifests \subseteq contextManifests'
  BY <1>3
<1>7. QED
  BY <1>3, <1>5, <1>6, IdleBuilder, BuilderLearns DEF BuilderParts

LEMMA ResearchNextKeeps ==
    ASSUME ResearchInv, part = "research", part' = part, NEW o \in Operators, ResearchNext(o)
    PROVE  ResearchInv'
<1>1. UNCHANGED companyVars
  BY DEF ResearchNext
<1>2. CASE ManifestRefused(o) \/ ProviderFails(o)
  BY <1>1, <1>2, BuilderEnds DEF ManifestRefused, ProviderFails, BuilderParts
<1>3. QED
  BY <1>1, <1>2, CommitAliasKeeps, CommitManifestKeeps, RecordHypothesisKeeps, BeginReviewKeeps, RecordReviewKeeps
     DEF ResearchNext

\* Between the steps of the processes.
LEMMA ResearchGoesOn ==
    ASSUME ResearchInv, part \in BuilderParts, part' = part, SessionsOK', started' >= 0, job' = job, ResearchGrows,
           UNCHANGED <<calls, hypotheses, researchReviews, traces>>, RegistryRows'
    PROVE  ResearchInv'
<1>1. TraceRows'
  BY TracesStay DEF ResearchInv, TraceRows
<1>2. \A o \in Operators : BuilderJob(job[o])'
  <2> TAKE o \in Operators
  <2>1. PICK k : k = job[o]
    OBVIOUS
  <2>2. BuilderJob(k)'
    BY <2>1, BuilderJobStays DEF ResearchInv
  <2>3. QED
    BY <2>1, <2>2
<1>3. (part = "research" => \A t \in traces : t.at \in Nat /\ t.at <= now)'
  BY DEF ResearchInv, ResearchGrows
<1>4. QED
  BY <1>1, <1>2, <1>3 DEF ResearchInv

LEMMA StatementArrivesKeeps ==
    ASSUME ResearchInv, part \in BuilderParts, part' = part, StatementArrives, UNCHANGED <<sessionVars, researchVars>>
    PROVE  ResearchInv'
<1>1. PICK s \in Statements \ DOMAIN statements :
          statements' = [q \in DOMAIN statements \cup {s} |-> IF q = s THEN now ELSE statements[q]]
  BY DEF StatementArrives
<1>2. UNCHANGED <<companies, filings, fundamentals, exposures>>
  BY DEF StatementArrives
<1>3. SessionsOK' /\ job' = job /\ now' = now /\ started' >= 0 /\ now \in Nat
  BY NothingHappens, BuilderNumbers DEF sessionVars
<1>4. ResearchGrows
  BY <1>1, <1>2, <1>3 DEF ResearchGrows, researchVars
<1>5. RegistryRows'
  <2>1. \A q \in DOMAIN statements' : statements'[q] \in Nat
    BY <1>1, <1>3 DEF ResearchInv, RegistryRows
  <2>2. ASSUME NEW x, KnownBy(x.cites, x.at) PROVE KnownBy(x.cites, x.at)'
    <3>1. PICK items, at : items = x.cites /\ at = x.at
      OBVIOUS
    <3>2. QED
      BY <1>4, <2>2, <3>1, KnownStays
  <2>3. UNCHANGED leads
    BY DEF researchVars
  <2>4. QED
    BY <1>2, <2>1, <2>2, <2>3 DEF ResearchInv, RegistryRows
<1>6. QED
  BY <1>3, <1>4, <1>5, ResearchGoesOn DEF researchVars

LEMMA LeadArrivesKeeps ==
    ASSUME ResearchInv, part \in BuilderParts, part' = part, LeadArrives, UNCHANGED <<sessionVars, companyVars>>
    PROVE  ResearchInv'
<1>1. PICK table \in LeadTables, at \in 0..now, items \in SUBSET Statements \ {{}} :
          /\ table = "geopolitical" => EvidenceBy(items, at)
          /\ leads' = leads \cup {[id |-> Cardinality(leads) + 1, table |-> table, at |-> at, cites |-> items]}
  BY DEF LeadArrives
<1>2. UNCHANGED <<contexts, aliases, contextManifests, calls, hypotheses, researchReviews, traces>>
  BY DEF LeadArrives
<1>3. SessionsOK' /\ job' = job /\ now' = now /\ started' >= 0 /\ now \in Nat
  BY NothingHappens, BuilderNumbers DEF sessionVars
<1>4. ResearchGrows
  BY <1>2, <1>3 DEF ResearchGrows, companyVars
<1>5. RegistryRows'
  <2>1. at \in Nat /\ (table = "geopolitical" => KnownBy(items, at))
    BY <1>1, <1>3, EvidenceIsKnown
  <2>2. UNCHANGED <<statements, filings, fundamentals, exposures>>
    BY DEF companyVars
  <2>3. QED
    BY <1>1, <2>1, <2>2 DEF ResearchInv, RegistryRows, KnownBy
<1>6. QED
  BY <1>2, <1>3, <1>4, <1>5, ResearchGoesOn

LEMMA ResearchStarts == Init => ResearchInv
<1> SUFFICES ASSUME Init PROVE ResearchInv
  OBVIOUS
<1>1. /\ CompanyInit(KnownStatements) /\ \E known \in KnownLeads : ResearchInit(known)
      /\ SessionsInit(MaxCommands - CommandsOf[part]) /\ part \in Parts
  BY DEF Init
<1>2. started >= 0
  BY <1>1, DeskAssumption, SessionsAssumption DEF SessionsInit
<1>3. statements = [s \in KnownStatements |-> 0]
  BY <1>1 DEF CompanyInit
<1>4. \A x \in filings \cup fundamentals \cup exposures : x.at = 0 /\ x.cites \subseteq KnownStatements
  BY <1>1 DEF CompanyInit
<1>5. \A l \in leads : part = "research" /\ l.at = 0 /\ l.cites \subseteq Statements
  BY <1>1 DEF ResearchInit, KnownLeads
<1>6. part = "research" => KnownStatements = Statements
  BY DEF KnownStatements
<1>7. RegistryRows
  BY <1>3, <1>4, <1>5, <1>6 DEF RegistryRows, KnownBy
<1>8. TraceRows /\ traces = {}
  BY <1>1 DEF TraceRows, ResearchInit
<1>9. Otherwise(Building, Idle)
  BY DEF Otherwise, Idle, Building
<1>10. QED
  BY <1>2, <1>7, <1>8, <1>9, DeskStarts, IdleBuilder DEF ResearchInv, SessionsOK

\* In the parts that build no contexts.
LEMMA OthersMove ==
    ASSUME part \notin BuilderParts, [Next]_vars, \A o \in Operators : Otherwise(Building, job[o])
    PROVE  (\E o \in Operators : MovesOtherwise(Building, o)) \/ UNCHANGED job
<1>1. \/ \E o \in Operators : \/ LabNext(o) \/ PaperNext(o) \/ EvolutionNext(o) \/ MacroNext(o)
                              \/ ObservatoryNext(o) \/ MarketNext(o) \/ ReplayNext(o)
                              \/ CampaignNext(o) \/ AgentsNext(o) \/ Finish(o)
      \/ UNCHANGED job
  BY DEF BuilderParts, Next, vars, Lab, Study, Evolution, Source, Replay, Research, Campaign, Agents, Arrival,
     Outside, Dies, Tick, sessionVars
<1>2. \A o \in Operators : Otherwise({}, job[o])
  BY DEF Otherwise
<1>3. QED
  BY <1>1, <1>2, LabMovesOtherwise, PaperMovesOtherwise, EvolutionMovesOtherwise, MacroMovesOtherwise,
     ObservatoryMovesOtherwise, MarketMovesOtherwise, ReplayMovesOtherwise, CampaignMovesOtherwise,
     AgentsMovesOtherwise, EndsOtherwise, ManyMoveOtherwise

LEMMA OthersStay ==
    ASSUME part \notin BuilderParts, [Next]_vars
    PROVE  UNCHANGED <<companyVars, researchVars>>
BY DEF BuilderParts, Next, vars, Lab, Study, Evolution, Source, Replay, Research, Campaign, Agents, Arrival,
   Outside, deskVars

LEMMA ResearchKept == ResearchInv /\ [Next]_vars => ResearchInv'
<1> SUFFICES ASSUME ResearchInv, [Next]_vars PROVE ResearchInv'
  OBVIOUS
<1>1. part' = part
  BY ResearchPart
<1>2. CASE part \notin BuilderParts
  <2>1. UNCHANGED <<companyVars, researchVars>>
    BY <1>2, OthersStay
  <2>2. RegistryRows' /\ TraceRows'
    <3>1. UNCHANGED <<statements, filings, fundamentals, exposures, leads, contexts, contextManifests, calls,
                      hypotheses, researchReviews, traces>>
      BY <2>1 DEF companyVars, researchVars
    <3>2. RegistryRows'
      BY <3>1 DEF ResearchInv, RegistryRows, KnownBy
    <3>3. \A c \in calls' : CallTraced(c)'
      BY <3>1 DEF ResearchInv, TraceRows, CallTraced
    <3>4. \A h \in hypotheses' : h.id # 0 /\ HypothesisTraced(h)'
      BY <3>1 DEF ResearchInv, TraceRows, HypothesisTraced
    <3>5. \A r \in researchReviews' : ReviewTraced(r)'
      BY <3>1 DEF ResearchInv, TraceRows, ReviewTraced
    <3>6. QED
      BY <3>2, <3>3, <3>4, <3>5 DEF TraceRows
  <2>3. job' = [o \in Operators |-> job'[o]] /\ \A o \in Operators : Otherwise(Building, job'[o])
    <3>1. CASE UNCHANGED job
      BY <1>2, <3>1 DEF ResearchInv
    <3>2. CASE \E o \in Operators : MovesOtherwise(Building, o)
      BY <1>2, <3>2 DEF ResearchInv, MovesOtherwise
    <3>3. QED
      BY <1>2, <3>1, <3>2, OthersMove DEF ResearchInv
  <2>4. QED
    BY <1>1, <1>2, <2>2, <2>3 DEF ResearchInv, BuilderParts, Otherwise
<1>3. CASE part \in BuilderParts
  <2>1. ASSUME NEW o \in Operators, Dies(o), UNCHANGED <<companyVars, researchVars>> PROVE ResearchInv'
    BY <1>1, <1>3, <2>1, BuilderEnds DEF Dies
  <2>2. ASSUME Tick \/ UNCHANGED sessionVars, UNCHANGED <<companyVars, researchVars>> PROVE ResearchInv'
    <3>1. SessionsOK' /\ job' = job /\ now' \in Nat /\ now <= now' /\ started' = started
      BY <1>3, <2>2, ClockTicks, NothingHappens, BuilderNumbers, SessionsAssumption
         DEF SessionsOK, Time, Tick, sessionVars
    <3>2. ResearchGrows /\ started' >= 0
      BY <1>3, <2>2, <3>1, BuilderNumbers DEF ResearchGrows, companyVars, researchVars
    <3>3. RegistryRows'
      BY <2>2, <3>2, RowsStay DEF companyVars, researchVars
    <3>4. QED
      BY <1>1, <1>3, <2>2, <3>1, <3>2, <3>3, ResearchGoesOn DEF researchVars
  <2>3. QED
    BY <1>1, <1>3, <2>1, <2>2, BuildNextKeeps, CompanyNextKeeps, ResearchNextKeeps, StatementArrivesKeeps,
       LeadArrivesKeeps, ResearchPart
<1>4. QED
  BY <1>2, <1>3

\* Inductive: whatever a builder collected was known by its cutoff, since every row was
\* observed no sooner than what it cites; a call in flight has its manifest, and the
\* source of a review is the context that its hypothesis was generated of.
THEOREM ResearchInductive == Spec => []ResearchInv
BY ResearchStarts, ResearchKept, PTL DEF Spec

\* No order of arrival stops the research of a company at a cutoff (_evidence, build).
THEOREM EveryCutoffStaysOpen == Spec => []EveryCutoffCanBeResearched
<1>1. ASSUME ResearchInv PROVE EveryCutoffCanBeResearched
  <2> SUFFICES ASSUME NEW o \in Operators, job[o].pc = "context_read", NEW s \in EvidenceOf(job[o].items)
               PROVE  s \in DOMAIN statements /\ statements[s] <= job[o].cutoff
    BY DEF EveryCutoffCanBeResearched, At
  <2>1. part \in BuilderParts
    BY <1>1 DEF ResearchInv, Otherwise, Building
  <2>2. \A i \in job[o].items : i.kind \in Collected => KnownBy(i.cites, job[o].cutoff)
    BY <1>1, <2>1 DEF ResearchInv, BuilderJob
  <2>3. QED
    BY <2>2 DEF EvidenceOf, KnownBy
<1>2. QED
  BY <1>1, ResearchInductive, PTL

\* Every call, hypothesis and review can be replayed of a context that was committed
\* before the call, whatever died or failed (ResearchEngine, ReviewEngine).
THEOREM TracesAlwaysReplay == Spec => []TracesReplayTheirContext
<1>1. ASSUME ResearchInv PROVE TracesReplayTheirContext
  <2>1. ASSUME NEW o \in Operators, At(o, "provider_call")
        PROVE  job[o].manifest \in contextManifests /\ job[o].manifest.context \in contexts
    <3>1. part \in BuilderParts
      BY <1>1, <2>1 DEF ResearchInv, Otherwise, Building, At
    <3>2. QED
      BY <1>1, <2>1, <3>1 DEF ResearchInv, BuilderJob, At
  <2>2. TraceRows
    BY <1>1 DEF ResearchInv
  <2>3. QED
    BY <2>1, <2>2 DEF TracesReplayTheirContext, TraceRows, CallTraced, HypothesisTraced, ReviewTraced, EvidenceIn
<1>2. QED
  BY <1>1, ResearchInductive, PTL

-----------------------------------------------------------------------------
(* The rows of the registry and of research have their types.              *)

\* Every version of the company below this one is there.
NoGapBelow(row) == \A k \in 1..row.version - 1 : \E w \in companies : w.company = row.company /\ w.version = k

RowTyped(table, row) ==
    /\ table = "companies" => row \in CompanyVersion /\ NoGapBelow(row)
    /\ table = "filings" => row \in Filing
    /\ table = "fundamentals" => row \in Fundamental
    /\ table = "exposures" => row \in Exposure

CutoffTyped(context) == context.cutoff \in 0..MaxTime + 1

Shaped(context) ==
    context = [subject |-> context.subject, cutoff |-> context.cutoff,
               anonymized |-> context.anonymized, items |-> context.items]

TypedJob(j) ==
    /\ j.pc = "company_insert" => RowTyped(j.table, j.row)
    /\ j.pc = "context_read" => j.cutoff \in 0..MaxTime + 1
    /\ j.pc = "alias_commit" => Shaped(j.context) /\ CutoffTyped(j.context)
    /\ j.pc = "manifest_commit" => CutoffTyped(j.context)

\* The registry can be counted, and no version of a company is missing: what is counted
\* bounds the version that comes next.
RegistryTyped ==
    /\ DOMAIN statements \subseteq Statements /\ \A s \in DOMAIN statements : statements[s] \in Time
    /\ companies \subseteq CompanyVersion /\ filings \subseteq Filing /\ fundamentals \subseteq Fundamental
    /\ exposures \subseteq Exposure
    /\ IsFiniteSet(companies) /\ IsFiniteSet(filings) /\ IsFiniteSet(fundamentals) /\ IsFiniteSet(exposures)
    /\ \A v \in companies : NoGapBelow(v)

LeadsTyped == leads \subseteq Lead /\ IsFiniteSet(leads)

ContextsTyped ==
    /\ \A x \in contexts : CutoffTyped(x)
    /\ \A m \in contextManifests : m.context \in contexts /\ m.at \in Time
    /\ \A c \in calls : c.claims \subseteq Claim
    /\ \A h \in hypotheses : h.at \in Time

TypedInv ==
    /\ RegistryTyped /\ LeadsTyped /\ ContextsTyped
    /\ part \in BuilderParts => \A o \in Operators : TypedJob(job[o])

\* A part of the desk that leaves tables alone leaves them typed.
LEMMA TypesStay ==
    /\ RegistryTyped /\ UNCHANGED companyVars => RegistryTyped'
    /\ LeadsTyped /\ UNCHANGED leads => LeadsTyped'
    /\ ContextsTyped /\ UNCHANGED <<contexts, contextManifests, calls, hypotheses>> => ContextsTyped'
<1>1. ASSUME RegistryTyped, UNCHANGED companyVars PROVE RegistryTyped'
  BY <1>1 DEF RegistryTyped, companyVars, NoGapBelow
<1>2. ASSUME LeadsTyped, UNCHANGED leads PROVE LeadsTyped'
  BY <1>2 DEF LeadsTyped
<1>3. ASSUME ContextsTyped, UNCHANGED <<contexts, contextManifests, calls, hypotheses>> PROVE ContextsTyped'
  BY <1>3 DEF ContextsTyped, CutoffTyped
<1>4. QED
  BY <1>1, <1>2, <1>3

LEMMA TypedJobStays ==
    ASSUME companies \subseteq companies', NEW j, TypedJob(j)
    PROVE  TypedJob(j)'
<1>1. ASSUME NEW row, NoGapBelow(row) PROVE NoGapBelow(row)'
  BY <1>1 DEF NoGapBelow
<1>2. ASSUME NEW table, NEW row, RowTyped(table, row) PROVE RowTyped(table, row)'
  <2>1. NoGapBelow(row) => NoGapBelow(row)'
    BY <1>1
  <2>2. QED
    BY <1>2, <2>1 DEF RowTyped
<1>3. PICK table, row : table = j.table /\ row = j.row
  OBVIOUS
<1>4. RowTyped(table, row) => RowTyped(table, row)'
  BY <1>2
<1>5. QED
  BY <1>3, <1>4 DEF TypedJob, Shaped, CutoffTyped

LEMMA TypedStep ==
    ASSUME TypedInv, part \in BuilderParts, part' = part, companies \subseteq companies',
           RegistryTyped', LeadsTyped', ContextsTyped',
           NEW o \in Operators, TypedJob(job[o])', \A q \in Operators : q # o => job'[q] = job[q]
    PROVE  TypedInv'
<1>1. \A q \in Operators : TypedJob(job[q])'
  <2> TAKE q \in Operators
  <2>1. CASE q = o
    BY <2>1
  <2>2. CASE q # o
    <3>1. PICK k : k = job[q]
      OBVIOUS
    <3>2. TypedJob(k)'
      BY <3>1, TypedJobStays DEF TypedInv
    <3>3. QED
      BY <2>2, <3>1, <3>2
  <2>3. QED
    BY <2>1, <2>2
<1>2. QED
  BY <1>1 DEF TypedInv

\* A step of a process that adds no row to the registry.
LEMMA TypedLearns ==
    ASSUME TypedInv, ResearchInv, part \in BuilderParts, part' = part, UNCHANGED <<companyVars, leads>>,
           ContextsTyped', NEW o \in Operators, NEW j, Learn(o, j), TypedJob(j)
    PROVE  TypedInv'
<1>1. job'[o] = j /\ \A q \in Operators : q # o => job'[q] = job[q]
  BY OneLearns, BuilderNumbers
<1>2. RegistryTyped' /\ LeadsTyped' /\ companies \subseteq companies'
  BY TypesStay DEF TypedInv, companyVars
<1>3. TypedJob(j)'
  BY <1>2, TypedJobStays
<1>4. TypedJob(job[o])'
  BY <1>1, <1>3
<1>5. QED
  BY <1>1, <1>2, <1>4, TypedStep

LEMMA TypedIdle == TypedJob(Idle) /\ TypedJob(Idle)'
BY DEF TypedJob, Idle

LEMMA TypedEnds ==
    ASSUME TypedInv, ResearchInv, part \in BuilderParts, part' = part, UNCHANGED <<companyVars, leads>>,
           ContextsTyped', NEW o \in Operators, Finish(o)
    PROVE  TypedInv'
BY TypedIdle, TypedLearns DEF Finish

LEMMA TypedBegins ==
    ASSUME TypedInv, ResearchInv, part \in BuilderParts, part' = part, UNCHANGED <<companyVars, researchVars>>,
           NEW o \in Operators, NEW j, Begin(o, j), TypedJob(j)
    PROVE  TypedInv'
<1>1. job'[o] = j /\ \A q \in Operators : q # o => job'[q] = job[q]
  BY OneBegins, BuilderNumbers
<1>2. RegistryTyped' /\ LeadsTyped' /\ ContextsTyped' /\ companies \subseteq companies'
  BY TypesStay DEF TypedInv, companyVars, researchVars
<1>3. TypedJob(j)'
  BY <1>2, TypedJobStays
<1>4. TypedJob(job[o])'
  BY <1>1, <1>3
<1>5. QED
  BY <1>1, <1>2, <1>4, TypedStep

\* A company has no more versions than there are rows of versions.
LEMMA VersionIsCounted ==
    ASSUME RegistryTyped, NEW v \in companies
    PROVE  v.version <= Cardinality(companies)
<1>1. PICK n \in Nat : n = v.version
  BY DEF RegistryTyped, CompanyVersion
<1>2. \A k \in 1..n : \E w \in companies : w.version = k
  <2> TAKE k \in 1..n
  <2>1. CASE k = n
    BY <1>1, <2>1
  <2>2. CASE k # n
    <3>1. k \in 1..v.version - 1
      BY <1>1, <2>2
    <3>2. QED
      BY <3>1 DEF RegistryTyped, NoGapBelow
  <2>3. QED
    BY <2>1, <2>2
<1> DEFINE row == [k \in 1..n |-> CHOOSE w \in companies : w.version = k]
<1>3. \A k \in 1..n : row[k] \in companies /\ row[k].version = k
  BY <1>2
<1>4. row \in [1..n -> companies]
  BY <1>3
<1>5. \A k, l \in 1..n : row[k] = row[l] => k = l
  BY <1>3
<1> HIDE DEF row
<1>6. row \in Injection(1..n, companies)
  BY <1>4, <1>5 DEF Injection, IsInjective
<1>7. Cardinality(1..n) <= Cardinality(companies)
  BY <1>6, FS_Injection DEF RegistryTyped
<1>8. Cardinality(1..n) = n
  BY FS_Interval
<1>9. QED
  BY <1>1, <1>7, <1>8

\* Where a fact may be added, the next version of any company is within the bound.
LEMMA FactsAreCounted ==
    ASSUME RegistryTyped, FactsAdded < MaxFacts
    PROVE  /\ \A v \in companies : v.version + 1 \in 1..MaxFacts
           /\ Cardinality(exposures) + 1 \in 1..MaxFacts
<1>1. /\ Cardinality(companies) \in Nat /\ Cardinality(filings) \in Nat
      /\ Cardinality(fundamentals) \in Nat /\ Cardinality(exposures) \in Nat
  BY FS_CardinalityType DEF RegistryTyped
<1>2. Cardinality(companies) < MaxFacts /\ Cardinality(exposures) < MaxFacts
  BY <1>1, CompanyAssumption DEF FactsAdded
<1>3. \A v \in companies : v.version \in Nat /\ v.version <= Cardinality(companies)
  BY VersionIsCounted DEF RegistryTyped, CompanyVersion
<1>4. QED
  BY <1>1, <1>2, <1>3, CompanyAssumption

LEMMA TypedFact ==
    ASSUME TypedInv, ResearchInv, part \in BuilderParts, part' = part, UNCHANGED researchVars,
           NEW o \in Operators, NEW table, NEW row, AddsFact(o, table, row), RowTyped(table, row)
    PROVE  TypedInv'
<1>1. TypedJob([pc |-> "company_insert", table |-> table, row |-> row])
  BY DEF TypedJob
<1>2. QED
  BY <1>1, TypedBegins DEF AddsFact

LEMMA FactNumbers ==
    ASSUME ResearchInv, part \in BuilderParts, NEW o, FactAllowed(o)
    PROVE  /\ started + 1 \in FactId /\ FactsAdded < MaxFacts
           /\ \A at \in 0..now : at \in Time
           /\ now + 1 \in 1..Always /\ Always \in 1..Always /\ now + 1 \in 0..MaxTime + 1
BY BuilderNumbers, SessionsAssumption DEF FactAllowed, Free, FactId, Time, Always, SessionsOK

LEMMA TypedCompany ==
    ASSUME TypedInv, ResearchInv, part \in BuilderParts, part' = part, UNCHANGED researchVars,
           NEW o \in Operators, AddCompany(o)
    PROVE  TypedInv'
<1>1. PICK c \in Companies, from \in 0..now, at \in 0..now, until \in {now + 1, Always} :
          \E last \in {v.version : v \in {w \in companies : w.company = c}} :
              AddsFact(o, "companies", [company |-> c, from |-> from, until |-> until, at |-> at,
                                        version |-> last + 1])
  BY DEF AddCompany
<1>2. PICK v \in companies :
          /\ v.company = c
          /\ AddsFact(o, "companies", [company |-> c, from |-> from, until |-> until, at |-> at,
                                       version |-> v.version + 1])
  BY <1>1
<1>3. FactAllowed(o) /\ RegistryTyped
  BY DEF AddCompany, TypedInv
<1>4. v.version + 1 \in 1..MaxFacts /\ v.version \in Nat
  BY <1>3, FactNumbers, FactsAreCounted DEF RegistryTyped, CompanyVersion
<1>5. PICK version : version = v.version + 1
  OBVIOUS
<1>6. PICK row : row = [company |-> c, from |-> from, until |-> until, at |-> at, version |-> version]
  OBVIOUS
<1>7. row \in CompanyVersion
  BY <1>3, <1>4, <1>5, <1>6, FactNumbers DEF CompanyVersion
<1>8. NoGapBelow(row)
  <2> SUFFICES ASSUME NEW k \in 1..version - 1
               PROVE  \E w \in companies : w.company = c /\ w.version = k
    BY <1>6 DEF NoGapBelow
  <2>1. CASE k = v.version
    BY <1>2, <2>1
  <2>2. CASE k # v.version
    <3>1. k \in 1..v.version - 1
      BY <1>4, <1>5, <2>2
    <3>2. QED
      BY <1>2, <1>3, <3>1 DEF RegistryTyped, NoGapBelow
  <2>3. QED
    BY <2>1, <2>2
<1>9. RowTyped("companies", row)
  BY <1>7, <1>8 DEF RowTyped
<1>10. QED
  BY <1>2, <1>5, <1>6, <1>9, TypedFact

LEMMA TypedFiling ==
    ASSUME TypedInv, ResearchInv, part \in BuilderParts, part' = part, UNCHANGED researchVars,
           NEW o \in Operators, AddFiling(o)
    PROVE  TypedInv'
<1>1. PICK c \in Companies, items \in SUBSET Statements, at \in 0..now, prior \in {0} \cup {f.id : f \in filings} :
          AddsFact(o, "filings", [id |-> started + 1, company |-> c, cites |-> items, at |-> at, restates |-> prior])
  BY DEF AddFiling
<1>2. FactAllowed(o) /\ RegistryTyped
  BY DEF AddFiling, TypedInv
<1>3. prior \in {0} \cup FactId
  BY <1>2 DEF RegistryTyped, Filing
<1>4. [id |-> started + 1, company |-> c, cites |-> items, at |-> at, restates |-> prior] \in Filing
  BY <1>2, <1>3, FactNumbers DEF Filing
<1>5. RowTyped("filings", [id |-> started + 1, company |-> c, cites |-> items, at |-> at, restates |-> prior])
  BY <1>4 DEF RowTyped
<1>6. QED
  BY <1>1, <1>5, TypedFact

LEMMA TypedFundamental ==
    ASSUME TypedInv, ResearchInv, part \in BuilderParts, part' = part, UNCHANGED researchVars,
           NEW o \in Operators, AddFundamental(o)
    PROVE  TypedInv'
<1>1. PICK f \in filings, items \in SUBSET Statements, at \in 0..now, prior \in {0} \cup {x.id : x \in fundamentals} :
          AddsFact(o, "fundamentals", [id |-> started + 1, company |-> f.company, filing |-> f.id,
                                       cites |-> items, at |-> at, restates |-> prior])
  BY DEF AddFundamental
<1>2. FactAllowed(o) /\ RegistryTyped
  BY DEF AddFundamental, TypedInv
<1>3. prior \in {0} \cup FactId /\ f.company \in Companies /\ f.id \in FactId
  BY <1>2 DEF RegistryTyped, Filing, Fundamental
<1>4. PICK row : row = [id |-> started + 1, company |-> f.company, filing |-> f.id,
                        cites |-> items, at |-> at, restates |-> prior]
  OBVIOUS
<1>5. row \in Fundamental
  BY <1>2, <1>3, <1>4, FactNumbers DEF Fundamental
<1>6. RowTyped("fundamentals", row)
  BY <1>5 DEF RowTyped
<1>7. QED
  BY <1>1, <1>4, <1>6, TypedFact

LEMMA TypedExposure ==
    ASSUME TypedInv, ResearchInv, part \in BuilderParts, part' = part, UNCHANGED researchVars,
           NEW o \in Operators, AddExposure(o)
    PROVE  TypedInv'
<1>1. PICK c \in Companies, items \in SUBSET Statements, from \in 0..now, at \in 0..now, until \in {now + 1, Always},
           version \in {1, 1 + Cardinality(exposures)} :
          AddsFact(o, "exposures", [id |-> started + 1, company |-> c, from |-> from, until |-> until,
                                    cites |-> items, at |-> at, version |-> version])
  BY DEF AddExposure
<1>2. FactAllowed(o) /\ RegistryTyped
  BY DEF AddExposure, TypedInv
<1>3. Cardinality(exposures) \in Nat
  BY <1>2, FS_CardinalityType DEF RegistryTyped
<1>4. version \in 1..MaxFacts
  BY <1>2, <1>3, FactNumbers, FactsAreCounted, CompanyAssumption
<1>5. PICK row : row = [id |-> started + 1, company |-> c, from |-> from, until |-> until,
                        cites |-> items, at |-> at, version |-> version]
  OBVIOUS
<1>6. row \in Exposure
  BY <1>2, <1>4, <1>5, FactNumbers DEF Exposure
<1>7. RowTyped("exposures", row)
  BY <1>6 DEF RowTyped
<1>8. QED
  BY <1>1, <1>5, <1>7, TypedFact

\* A row that is committed is of the table it was meant for.
LEMMA TypedCommit ==
    ASSUME TypedInv, ResearchInv, part \in BuilderParts, part' = part, UNCHANGED researchVars,
           NEW o \in Operators, CommitFact(o)
    PROVE  TypedInv'
<1>1. PICK table, row : table = job[o].table /\ row = job[o].row
  OBVIOUS
<1>2. /\ companies' = IF table = "companies" THEN companies \cup {row} ELSE companies
      /\ filings' = IF table = "filings" THEN filings \cup {row} ELSE filings
      /\ fundamentals' = IF table = "fundamentals" THEN fundamentals \cup {row} ELSE fundamentals
      /\ exposures' = IF table = "exposures" THEN exposures \cup {row} ELSE exposures
      /\ Finish(o) /\ statements' = statements
  BY <1>1 DEF CommitFact, KeepsFact
<1>3. RowTyped(table, row) /\ RegistryTyped
  BY <1>1 DEF CommitFact, At, TypedInv, TypedJob
<1>4. /\ IsFiniteSet(companies \cup {row}) /\ IsFiniteSet(filings \cup {row})
      /\ IsFiniteSet(fundamentals \cup {row}) /\ IsFiniteSet(exposures \cup {row})
  BY <1>3, FS_AddElement DEF RegistryTyped
<1>5. IsFiniteSet(companies') /\ IsFiniteSet(filings') /\ IsFiniteSet(fundamentals') /\ IsFiniteSet(exposures')
  BY <1>2, <1>3, <1>4 DEF RegistryTyped
<1>6. /\ companies' \subseteq CompanyVersion /\ filings' \subseteq Filing /\ fundamentals' \subseteq Fundamental
      /\ exposures' \subseteq Exposure
  BY <1>2, <1>3 DEF RegistryTyped, RowTyped
<1>7. companies \subseteq companies'
  BY <1>2
<1>8. \A v \in companies' : NoGapBelow(v)'
  <2>1. \A v \in companies' : NoGapBelow(v)
    BY <1>2, <1>3 DEF RegistryTyped, RowTyped
  <2>2. QED
    BY <1>7, <2>1 DEF NoGapBelow
<1>9. RegistryTyped'
  BY <1>2, <1>3, <1>5, <1>6, <1>8 DEF RegistryTyped
<1>10. LeadsTyped' /\ ContextsTyped'
  BY TypesStay DEF TypedInv, researchVars
<1>11. job'[o] = Idle /\ \A q \in Operators : q # o => job'[q] = job[q]
  BY <1>2, OneFinishes, BuilderNumbers
<1>12. TypedJob(job[o])'
  BY <1>11, TypedIdle
<1>13. QED
  BY <1>7, <1>9, <1>10, <1>11, <1>12, TypedStep

\* The contexts grow by one of a cutoff.
LEMMA ContextAdded ==
    ASSUME ContextsTyped, NEW context, CutoffTyped(context), contexts' = contexts \cup {context},
           UNCHANGED <<contextManifests, calls, hypotheses>>
    PROVE  ContextsTyped'
BY DEF ContextsTyped, CutoffTyped

LEMMA TypedBuild ==
    ASSUME TypedInv, ResearchInv, part \in BuilderParts, part' = part, NEW o \in Operators, BuildNext(o)
    PROVE  TypedInv'
<1>1. UNCHANGED companyVars /\ TypedJob(job[o]) /\ BuilderJob(job[o])
  BY DEF BuildNext, TypedInv, ResearchInv
<1>2. now + 1 \in 0..MaxTime + 1 /\ now \in Nat
  BY BuilderNumbers, SessionsAssumption DEF Time
<1>3. CASE BeginResearch(o)
  <2>1. PICK c \in Companies, cutoff \in 0..now + 1 : \E v \in CompaniesAt(c, cutoff) :
            Begin(o, [pc |-> "context_read", run |-> started + 1, company |-> c, cutoff |-> cutoff, next |-> 1,
                      items |-> {ContextItem("company", v.version, v.at, {})}])
    BY <1>3 DEF BeginResearch
  <2>2. PICK items : Begin(o, [pc |-> "context_read", run |-> started + 1, company |-> c, cutoff |-> cutoff,
                               next |-> 1, items |-> items])
    BY <2>1
  <2>3. cutoff \in 0..MaxTime + 1
    BY <1>2, SessionsAssumption
  <2>4. TypedJob([pc |-> "context_read", run |-> started + 1, company |-> c, cutoff |-> cutoff,
                  next |-> 1, items |-> items])
    BY <2>3 DEF TypedJob
  <2>5. UNCHANGED <<companyVars, researchVars>>
    BY <1>1, <1>3 DEF BeginResearch
  <2>6. QED
    BY <2>2, <2>4, <2>5, TypedBegins
<1>4. CASE ReadTable(o)
  <2>1. PICK k : k = job[o]
    OBVIOUS
  <2>2. PICK more : Learn(o, [k EXCEPT !.next = @ + 1, !.items = @ \cup more])
    BY <1>4, <2>1 DEF ReadTable
  <2>3. k.pc = "context_read" /\ UNCHANGED researchVars /\ BuilderJob(k) /\ TypedJob(k)
    BY <1>1, <1>4, <2>1 DEF ReadTable, At
  <2>4. k = [pc |-> "context_read", run |-> k.run, company |-> k.company, cutoff |-> k.cutoff,
             next |-> k.next, items |-> k.items]
    BY <2>3 DEF BuilderJob
  <2>5. PICK j : j = [k EXCEPT !.next = @ + 1, !.items = @ \cup more]
    OBVIOUS
  <2>6. j.pc = "context_read" /\ j.cutoff = k.cutoff
    BY <2>4, <2>5
  <2>7. TypedJob(j)
    BY <2>3, <2>6 DEF TypedJob
  <2>8. UNCHANGED leads /\ ContextsTyped'
    BY <2>3, TypesStay DEF TypedInv, researchVars
  <2>9. QED
    BY <1>1, <2>2, <2>5, <2>7, <2>8, TypedLearns
<1>5. CASE CommitContext(o)
  <2>1. PICK j : j = job[o]
    OBVIOUS
  <2>2. PICK context : context = ContextOf(j)
    OBVIOUS
  <2>3. /\ j.pc = "context_read" /\ contexts' = contexts \cup {context}
        /\ \/ Learn(o, [pc |-> "alias_commit", run |-> j.run, context |-> context])
           \/ Learn(o, SealsNext(j.run, context))
           \/ Learn(o, Idle)
        /\ UNCHANGED <<leads, aliases, contextManifests, calls, hypotheses, researchReviews, traces>>
    BY <1>5, <2>1, <2>2 DEF CommitContext, At, Finish
  <2>4. j.cutoff \in 0..MaxTime + 1
    BY <1>1, <2>1, <2>3 DEF TypedJob
  <2>5. Shaped(context) /\ CutoffTyped(context)
    BY <2>2, <2>4 DEF ContextOf, Shaped, CutoffTyped
  <2>6. ContextsTyped'
    BY <2>3, <2>5, ContextAdded DEF TypedInv
  <2>7. TypedJob([pc |-> "alias_commit", run |-> j.run, context |-> context])
    BY <2>5 DEF TypedJob
  <2>8. TypedJob(SealsNext(j.run, context))
    BY <2>5 DEF TypedJob, SealsNext
  <2>9. UNCHANGED <<companyVars, leads>>
    BY <1>1, <2>3
  <2>10. QED
    BY <2>3, <2>6, <2>7, <2>8, <2>9, TypedIdle, TypedLearns
<1>6. CASE ContextRefused(o)
  <2>1. Finish(o) /\ UNCHANGED leads /\ ContextsTyped'
    BY <1>6, TypesStay DEF ContextRefused, TypedInv, researchVars
  <2>2. QED
    BY <1>1, <2>1, TypedEnds
<1>7. QED
  BY <1>3, <1>4, <1>5, <1>6 DEF BuildNext

LEMMA TypedAlias ==
    ASSUME TypedInv, ResearchInv, part \in BuilderParts, part' = part, UNCHANGED companyVars,
           NEW o \in Operators, CommitAlias(o)
    PROVE  TypedInv'
<1>1. PICK named, aliased : named = job[o].context /\ aliased = Anonymized(named)
  OBVIOUS
<1>2. /\ contexts' = contexts \cup {aliased}
      /\ Learn(o, SealsNext(job[o].run, aliased)) \/ Learn(o, Idle)
      /\ UNCHANGED <<leads, contextManifests, calls, hypotheses, researchReviews, traces>>
  BY <1>1 DEF CommitAlias, Finish
<1>3. Shaped(named) /\ CutoffTyped(named)
  BY <1>1 DEF CommitAlias, At, TypedInv, TypedJob
<1>4. PICK subject, cutoff, anonymized, items :
          named = [subject |-> subject, cutoff |-> cutoff, anonymized |-> anonymized, items |-> items]
  BY <1>3 DEF Shaped
<1>5. aliased = [subject |-> "COMPANY_A", cutoff |-> cutoff, anonymized |-> TRUE, items |-> items]
  <2>1. aliased = [named EXCEPT !.subject = "COMPANY_A", !.anonymized = TRUE]
    BY <1>1 DEF Anonymized
  <2>2. QED
    BY <1>4, <2>1
<1>6. CutoffTyped(aliased)
  BY <1>3, <1>4, <1>5 DEF CutoffTyped
<1>7. TypedJob(SealsNext(job[o].run, aliased))
  BY <1>6 DEF TypedJob, SealsNext
<1>8. ContextsTyped'
  BY <1>2, <1>6, ContextAdded DEF TypedInv
<1>9. QED
  BY <1>2, <1>7, <1>8, TypedIdle, TypedLearns

LEMMA TypedManifest ==
    ASSUME TypedInv, ResearchInv, part \in BuilderParts, part' = part, UNCHANGED companyVars,
           NEW o \in Operators, CommitManifest(o)
    PROVE  TypedInv'
<1>1. PICK context, j : /\ context = job[o].context
                        /\ contexts' = contexts \cup {context}
                        /\ contextManifests' = contextManifests \cup {ManifestOf(context)}
                        /\ Learn(o, j) /\ j.pc = "provider_call"
                        /\ UNCHANGED <<leads, calls, hypotheses>>
  BY DEF CommitManifest
<1>2. CutoffTyped(context)
  BY <1>1 DEF CommitManifest, At, TypedInv, TypedJob
<1>3. now \in Time
  BY BuilderNumbers
<1>4. PICK m : m = ManifestOf(context)
  OBVIOUS
<1>5. m.context = context /\ m.at = now
  BY <1>4 DEF ManifestOf
<1>6. ContextsTyped'
  BY <1>1, <1>2, <1>3, <1>4, <1>5 DEF TypedInv, ContextsTyped, CutoffTyped
<1>7. TypedJob(j)
  BY <1>1 DEF TypedJob
<1>8. QED
  BY <1>1, <1>6, <1>7, TypedLearns

LEMMA TypedRecord ==
    ASSUME TypedInv, ResearchInv, part \in BuilderParts, part' = part, UNCHANGED companyVars,
           NEW o \in Operators, RecordHypothesis(o) \/ RecordReview(o)
    PROVE  TypedInv'
<1>1. now \in Time /\ ContextsTyped
  BY BuilderNumbers DEF TypedInv
<1>2. CASE RecordHypothesis(o)
  <2>1. PICK claim \in Claim :
            /\ calls' = calls \cup {CallOf(job[o], {claim})}
            /\ hypotheses' = hypotheses \cup {HypothesisOf(job[o], claim)}
    BY <1>2 DEF RecordHypothesis
  <2>2. UNCHANGED <<leads, contexts, contextManifests>> /\ Finish(o)
    BY <1>2 DEF RecordHypothesis
  <2>3. PICK c, h : c = CallOf(job[o], {claim}) /\ h = HypothesisOf(job[o], claim)
    OBVIOUS
  <2>4. c.claims \subseteq Claim /\ h.at \in Time
    BY <1>1, <2>3 DEF CallOf, HypothesisOf
  <2>5. ContextsTyped'
    BY <1>1, <2>1, <2>2, <2>3, <2>4 DEF ContextsTyped, CutoffTyped
  <2>6. QED
    BY <2>2, <2>5, TypedEnds
<1>3. CASE RecordReview(o)
  <2>1. PICK claims \in {{}} \cup {{c} : c \in Claim} : calls' = calls \cup {CallOf(job[o], claims)}
    BY <1>3 DEF RecordReview
  <2>2. UNCHANGED <<leads, contexts, contextManifests, hypotheses>> /\ Finish(o)
    BY <1>3 DEF RecordReview
  <2>3. PICK c : c = CallOf(job[o], claims)
    OBVIOUS
  <2>4. c.claims \subseteq Claim
    BY <2>3 DEF CallOf
  <2>5. ContextsTyped'
    BY <1>1, <2>1, <2>2, <2>3, <2>4 DEF ContextsTyped, CutoffTyped
  <2>6. QED
    BY <2>2, <2>5, TypedEnds
<1>4. QED
  BY <1>2, <1>3

LEMMA TypedReview ==
    ASSUME TypedInv, ResearchInv, part \in BuilderParts, part' = part, UNCHANGED companyVars,
           NEW o \in Operators, BeginReview(o)
    PROVE  TypedInv'
<1>1. PICK h \in hypotheses : \E t \in SourceTraces(h) :
          Begin(o, [pc |-> "manifest_commit", run |-> started + 1, of |-> h.id, source |-> t.manifest.context,
                    context |-> ReviewContext(h, t.manifest.context)])
  BY DEF BeginReview
<1>2. PICK source : Begin(o, [pc |-> "manifest_commit", run |-> started + 1, of |-> h.id, source |-> source,
                              context |-> ReviewContext(h, source)])
  BY <1>1
<1>3. h.at \in 0..MaxTime + 1
  BY SessionsAssumption DEF TypedInv, ContextsTyped, Time
<1>4. PICK context : context = ReviewContext(h, source)
  OBVIOUS
<1>5. CutoffTyped(context)
  BY <1>3, <1>4 DEF CutoffTyped, ReviewContext
<1>6. TypedJob([pc |-> "manifest_commit", run |-> started + 1, of |-> h.id, source |-> source, context |-> context])
  BY <1>5 DEF TypedJob
<1>7. UNCHANGED researchVars
  BY DEF BeginReview
<1>8. QED
  BY <1>2, <1>4, <1>6, <1>7, TypedBegins

LEMMA TypedResearch ==
    ASSUME TypedInv, ResearchInv, part \in BuilderParts, part' = part, NEW o \in Operators, ResearchNext(o)
    PROVE  TypedInv'
<1>1. UNCHANGED companyVars
  BY DEF ResearchNext
<1>2. ASSUME Finish(o), UNCHANGED researchVars PROVE TypedInv'
  <2>1. UNCHANGED leads /\ ContextsTyped'
    BY <1>2, TypesStay DEF TypedInv, researchVars
  <2>2. QED
    BY <1>1, <1>2, <2>1, TypedEnds
<1>3. QED
  BY <1>1, <1>2, TypedAlias, TypedManifest, TypedRecord, TypedReview DEF ResearchNext, ManifestRefused, ProviderFails

LEMMA TypedArrival ==
    ASSUME TypedInv, ResearchInv, part \in BuilderParts, part' = part,
           \/ StatementArrives /\ UNCHANGED <<sessionVars, researchVars>>
           \/ LeadArrives /\ UNCHANGED <<sessionVars, companyVars>>
    PROVE  TypedInv'
<1>1. now \in Time /\ now \in Nat /\ (\A at \in 0..now : at \in Time)
  BY BuilderNumbers, SessionsAssumption DEF Time
<1>2. RegistryTyped' /\ LeadsTyped' /\ ContextsTyped' /\ companies' = companies /\ job' = job
  <2>1. CASE StatementArrives /\ UNCHANGED <<sessionVars, researchVars>>
    <3>1. PICK s \in Statements \ DOMAIN statements :
              statements' = [q \in DOMAIN statements \cup {s} |-> IF q = s THEN now ELSE statements[q]]
      BY <2>1 DEF StatementArrives
    <3>2. UNCHANGED <<companies, filings, fundamentals, exposures>>
      BY <2>1 DEF StatementArrives
    <3>3. RegistryTyped'
      BY <1>1, <3>1, <3>2 DEF TypedInv, RegistryTyped, NoGapBelow
    <3>4. QED
      BY <2>1, <3>2, <3>3, TypesStay DEF TypedInv, researchVars, sessionVars
  <2>2. CASE LeadArrives /\ UNCHANGED <<sessionVars, companyVars>>
    <3>1. PICK table \in LeadTables, at \in 0..now, items \in SUBSET Statements \ {{}} :
              leads' = leads \cup {[id |-> Cardinality(leads) + 1, table |-> table, at |-> at, cites |-> items]}
      BY <2>2 DEF LeadArrives
    <3>2. PICK id : id = Cardinality(leads) + 1
      OBVIOUS
    <3>3. IsFiniteSet(leads) /\ leads \subseteq Lead
      BY DEF TypedInv, LeadsTyped
    <3>4. Cardinality(leads) \in Nat
      BY <3>3, FS_CardinalityType
    <3>5. id \in 1..MaxLeads
      BY <2>2, <3>2, <3>4, ResearchAssumption DEF LeadArrives
    <3>6. PICK l : l = [id |-> id, table |-> table, at |-> at, cites |-> items]
      OBVIOUS
    <3>7. l \in Lead
      BY <1>1, <3>5, <3>6 DEF Lead
    <3>8. leads' = leads \cup {l}
      BY <3>1, <3>2, <3>6
    <3>9. LeadsTyped'
      BY <3>3, <3>7, <3>8, FS_AddElement DEF LeadsTyped
    <3>10. QED
      BY <2>2, <3>9, TypesStay DEF TypedInv, LeadArrives, companyVars, sessionVars
  <2>3. QED
    BY <2>1, <2>2
<1>3. \A o \in Operators : TypedJob(job[o])'
  <2> TAKE o \in Operators
  <2>1. PICK k : k = job[o]
    OBVIOUS
  <2>2. TypedJob(k)'
    BY <1>2, <2>1, TypedJobStays DEF TypedInv
  <2>3. QED
    BY <1>2, <2>1, <2>2
<1>4. QED
  BY <1>2, <1>3 DEF TypedInv

LEMMA TypedStarts == Init => TypedInv
<1> SUFFICES ASSUME Init PROVE TypedInv
  OBVIOUS
<1>1. /\ CompanyInit(KnownStatements) /\ \E known \in KnownLeads : ResearchInit(known)
      /\ part \in Parts
  BY DEF Init
<1>2. 0 \in Time /\ 1 \in 1..MaxFacts /\ Always \in 1..Always
  BY SessionsAssumption, CompanyAssumption DEF Time, Always
<1>3. KnownStatements \subseteq Statements
  BY CompanyAssumption DEF KnownStatements, Cited
<1>4. PICK cited, filed :
          /\ cited \subseteq Statements /\ filed \subseteq Companies
          /\ part \notin BuilderParts => filed = {}
          /\ filings = {[id |-> 1, company |-> c, cites |-> cited, at |-> 0, restates |-> 0] : c \in filed}
          /\ fundamentals = {[id |-> 2, company |-> c, filing |-> 1, cites |-> cited,
                              at |-> 0, restates |-> 0] : c \in filed}
  <2> DEFINE cited == IF KnownStatements = {} THEN {} ELSE {CHOOSE s \in KnownStatements : TRUE}
             filed == {c \in Companies : cited # {}}
  <2>1. cited \subseteq Statements
    BY <1>3
  <2>2. part \notin BuilderParts => cited = {}
    BY DEF KnownStatements, BuilderParts
  <2>3. /\ filings = {[id |-> 1, company |-> c, cites |-> cited, at |-> 0, restates |-> 0] : c \in filed}
        /\ fundamentals = {[id |-> 2, company |-> c, filing |-> 1, cites |-> cited,
                            at |-> 0, restates |-> 0] : c \in filed}
    BY <1>1 DEF CompanyInit
  <2>4. filed \subseteq Companies /\ (part \notin BuilderParts => filed = {})
    BY <2>2
  <2> HIDE DEF cited, filed
  <2>5. QED
    BY <2>1, <2>3, <2>4
<1>5. filed # {} => 1 \in FactId /\ 2 \in FactId
  <2>1. part \in BuilderParts => CommandsOf[part] \in Nat /\ CommandsOf[part] + 2 <= MaxCommands
    BY <1>1, DeskAssumption, SessionsAssumption DEF BuilderParts
  <2>2. QED
    BY <1>4, <2>1, SessionsAssumption DEF FactId
<1>6. companies = {SeedVersion(c) : c \in Companies} /\ statements = [s \in KnownStatements |-> 0] /\ exposures = {}
  BY <1>1 DEF CompanyInit
<1>7. IsFiniteSet(companies) /\ IsFiniteSet(filings) /\ IsFiniteSet(fundamentals) /\ IsFiniteSet(exposures)
  <2>1. IsFiniteSet(Companies) /\ IsFiniteSet(filed)
    BY <1>4, CompanyAssumption, FS_Subset
  <2>2. [c \in Companies |-> SeedVersion(c)] \in Surjection(Companies, companies)
    BY <1>6 DEF Surjection
  <2>3. [c \in filed |-> [id |-> 1, company |-> c, cites |-> cited, at |-> 0, restates |-> 0]]
            \in Surjection(filed, filings)
    BY <1>4 DEF Surjection
  <2>4. [c \in filed |-> [id |-> 2, company |-> c, filing |-> 1, cites |-> cited, at |-> 0, restates |-> 0]]
            \in Surjection(filed, fundamentals)
    BY <1>4 DEF Surjection
  <2>5. IsFiniteSet(companies)
    BY <2>1, <2>2, FS_Surjection
  <2>6. IsFiniteSet(filings)
    BY <2>1, <2>3, FS_Surjection
  <2>7. IsFiniteSet(fundamentals)
    BY <2>1, <2>4, FS_Surjection
  <2>8. QED
    BY <1>6, <2>5, <2>6, <2>7, FS_EmptySet
<1>8. companies \subseteq CompanyVersion /\ \A v \in companies : NoGapBelow(v)
  <2>1. \A c \in Companies : SeedVersion(c) \in CompanyVersion /\ SeedVersion(c).version = 1
    BY <1>2 DEF SeedVersion, CompanyVersion
  <2>2. QED
    BY <1>6, <2>1 DEF NoGapBelow
<1>9. filings \subseteq Filing /\ fundamentals \subseteq Fundamental
  BY <1>2, <1>4, <1>5 DEF Filing, Fundamental
<1>10. RegistryTyped
  BY <1>2, <1>3, <1>6, <1>7, <1>8, <1>9 DEF RegistryTyped
<1>11. LeadsTyped
  <2>1. PICK known \in KnownLeads : leads = known
    BY <1>1 DEF ResearchInit
  <2>2. 1 \in 1..MaxLeads /\ Statements \ {Cited} \in SUBSET Statements
    BY ResearchAssumption
  <2>3. \A x \in [id : {1}, table : LeadTables, at : {0}, cites : {Statements \ {Cited}}] : x \in Lead
    BY <1>2, <2>2 DEF Lead
  <2>4. known = {} \/ \E l \in [id : {1}, table : LeadTables, at : {0}, cites : {Statements \ {Cited}}] : known = {l}
    BY DEF KnownLeads
  <2>5. known = {} \/ \E l \in Lead : known = {l}
    BY <2>3, <2>4
  <2>6. IsFiniteSet(known)
    BY <2>5, FS_EmptySet, FS_Singleton
  <2>7. QED
    BY <2>1, <2>5, <2>6 DEF LeadsTyped
<1>12. ContextsTyped
  BY <1>1 DEF ContextsTyped, ResearchInit
<1>13. QED
  BY <1>10, <1>11, <1>12, DeskStarts, TypedIdle DEF TypedInv

LEMMA TypedKept == TypedInv /\ ResearchInv /\ [Next]_vars => TypedInv'
<1> SUFFICES ASSUME TypedInv, ResearchInv, [Next]_vars PROVE TypedInv'
  OBVIOUS
<1>1. part' = part
  BY ResearchPart
<1>2. CASE part \notin BuilderParts
  <2>1. UNCHANGED <<companyVars, researchVars>>
    BY <1>2, OthersStay
  <2>2. RegistryTyped' /\ LeadsTyped' /\ ContextsTyped'
    BY <2>1, TypesStay DEF TypedInv, researchVars
  <2>3. QED
    BY <1>1, <1>2, <2>2 DEF TypedInv, BuilderParts
<1>3. CASE part \in BuilderParts
  <2>1. ASSUME UNCHANGED <<companyVars, researchVars>>, job' = job PROVE TypedInv'
    <3>1. RegistryTyped' /\ LeadsTyped' /\ ContextsTyped' /\ companies' = companies
      BY <2>1, TypesStay DEF TypedInv, companyVars, researchVars
    <3>2. ASSUME NEW o \in Operators PROVE TypedJob(job[o])'
      <4>1. PICK k : k = job[o]
        OBVIOUS
      <4>2. TypedJob(k)'
        BY <1>3, <3>1, <4>1, TypedJobStays DEF TypedInv
      <4>3. QED
        BY <2>1, <4>1, <4>2
    <3>3. QED
      BY <3>1, <3>2 DEF TypedInv
  <2>2. ASSUME NEW o \in Operators, Dies(o), UNCHANGED <<companyVars, researchVars>> PROVE TypedInv'
    <3>1. Finish(o) /\ UNCHANGED leads /\ ContextsTyped'
      BY <2>2, TypesStay DEF Dies, TypedInv, researchVars
    <3>2. QED
      BY <1>1, <1>3, <2>2, <3>1, TypedEnds
  <2>3. ASSUME NEW o \in Operators, CompanyNext(o), UNCHANGED researchVars PROVE TypedInv'
    BY <1>1, <1>3, <2>3, TypedCompany, TypedFiling, TypedFundamental, TypedExposure, TypedCommit DEF CompanyNext
  <2>4. (Tick \/ UNCHANGED sessionVars) => job' = job
    BY DEF Tick, sessionVars
  <2>5. QED
    BY <1>1, <1>3, <2>1, <2>2, <2>3, <2>4, TypedBuild, TypedResearch, TypedArrival, ResearchPart
<1>4. QED
  BY <1>2, <1>3

\* Inductive: the versions of a company have no gap, so that what may be added is within
\* the bound on the rows, whatever else is in flight; and every row in flight is of the
\* table it is meant for.
THEOREM TypedInductive == Spec => []TypedInv
BY TypedStarts, TypedKept, ResearchInductive, PTL DEF Spec

\* The rows of the registry and of research are of their types, and no manifest is
\* committed without its context (SqlCompanyRepository, SqlResearchRepository).
THEOREM ResearchTypes == Spec => []ResearchTypeOK
<1>1. TypedInv => ResearchTypeOK
  BY DEF TypedInv, RegistryTyped, LeadsTyped, ContextsTyped, CutoffTyped, ResearchTypeOK
<1>2. QED
  BY <1>1, TypedInductive, PTL

-----------------------------------------------------------------------------
(* Observed rates and the events extracted of them.                        *)

LEMMA ObservationsAreTyped ==
    ASSUME NEW x \in Observation
    PROVE  /\ x.day \in 1..MaxDay /\ x.day \in Nat
           /\ x.at \in Time /\ x.at \in Nat
           /\ x.rate \in Rates /\ x.rate \in Nat \ {0}
           /\ x = [day |-> x.day, at |-> x.at, rate |-> x.rate]
<1>1. /\ x.day \in 1..MaxDay /\ x.at \in Time /\ x.rate \in Rates
      /\ x = [day |-> x.day, at |-> x.at, rate |-> x.rate]
  BY DEF Observation
<1>2. MaxDay \in Nat /\ Rates \subseteq Nat \ {0}
  BY ObservatoryAssumption
<1>3. x.day \in Nat
  <2>1. 1..MaxDay \subseteq Nat
    BY <1>2
  <2>2. QED
    BY <1>1, <2>1
<1>4. x.at \in Nat
  <2>1. Time \subseteq Nat
    BY SessionsAssumption DEF Time
  <2>2. QED
    BY <1>1, <2>1
<1>5. x.rate \in Nat \ {0}
  BY <1>1, <1>2, Zenon
<1>6. QED
  BY <1>1, <1>3, <1>4, <1>5

LEMMA BeforeOrders ==
    ASSUME NEW x \in Observation, NEW y \in Observation, NEW z \in Observation
    PROVE  /\ ~Before(x, x)
           /\ Before(x, y) /\ Before(y, z) => Before(x, z)
           /\ x = y \/ Before(x, y) \/ Before(y, x)
<1>1. /\ x.day \in Nat /\ x.at \in Nat /\ x.rate \in Nat
      /\ y.day \in Nat /\ y.at \in Nat /\ y.rate \in Nat
      /\ z.day \in Nat /\ z.at \in Nat /\ z.rate \in Nat
  BY ObservationsAreTyped
<1>2. x.day = y.day /\ x.at = y.at /\ x.rate = y.rate => x = y
  BY ObservationsAreTyped
<1>3. QED
  BY <1>1, <1>2 DEF Before

\* The list of a set of observations has each of them, and no other.
LEMMA ListedIsAll ==
    ASSUME NEW all, all \subseteq Observation, IsFiniteSet(all)
    PROVE  /\ Len(Listed(all)) \in Nat
           /\ Listed(all) = [i \in 1..Len(Listed(all)) |-> Listed(all)[i]]
           /\ \A i \in 1..Len(Listed(all)) : Listed(all)[i] \in all
           /\ \A x \in all : \E i \in 1..Len(Listed(all)) : Listed(all)[i] = x
<1> DEFINE n == Cardinality(all)
           earlier(x) == {y \in all : Before(y, x)}
           rank == [x \in all |-> Cardinality(earlier(x))]
<1>1. n \in Nat
  BY FS_CardinalityType
<1>2. ASSUME NEW x \in all
      PROVE  IsFiniteSet(earlier(x)) /\ Cardinality(earlier(x)) \in 0..(n - 1)
  <2>1. IsFiniteSet(all \ {x}) /\ Cardinality(all \ {x}) = n - 1
    BY FS_RemoveElement
  <2>2. earlier(x) \in SUBSET (all \ {x})
    BY BeforeOrders
  <2>3. IsFiniteSet(earlier(x)) /\ Cardinality(earlier(x)) <= n - 1
    <3> HIDE DEF earlier, n
    <3>1. QED
      BY <2>1, <2>2, FS_Subset
  <2>4. Cardinality(earlier(x)) \in Nat
    <3> HIDE DEF earlier
    <3>1. QED
      BY <2>3, FS_CardinalityType
  <2>5. QED
    BY <1>1, <2>3, <2>4
<1>3. ASSUME NEW x \in all, NEW y \in all, Before(x, y)
      PROVE  Cardinality(earlier(x)) < Cardinality(earlier(y))
  <2>1. x \in earlier(y)
    BY <1>3
  <2>2. earlier(x) \in SUBSET (earlier(y) \ {x})
    BY <1>3, BeforeOrders
  <2>3. IsFiniteSet(earlier(y) \ {x}) /\ Cardinality(earlier(y) \ {x}) = Cardinality(earlier(y)) - 1
    <3> HIDE DEF earlier
    <3>1. QED
      BY <1>2, <2>1, FS_RemoveElement
  <2>4. Cardinality(earlier(x)) <= Cardinality(earlier(y)) - 1
    <3> HIDE DEF earlier
    <3>1. QED
      BY <2>2, <2>3, FS_Subset
  <2>5. Cardinality(earlier(x)) \in Int /\ Cardinality(earlier(y)) \in Int
    <3> HIDE DEF earlier
    <3>1. QED
      BY <1>2
  <2>6. QED
    BY <2>4, <2>5
<1>4. \A x, y \in all : Cardinality(earlier(x)) = Cardinality(earlier(y)) => x = y
  <2> SUFFICES ASSUME NEW x \in all, NEW y \in all, x # y
               PROVE  Cardinality(earlier(x)) # Cardinality(earlier(y))
    OBVIOUS
  <2>1. Before(x, y) \/ Before(y, x)
    BY BeforeOrders
  <2> HIDE DEF earlier
  <2>2. Cardinality(earlier(x)) \in Int /\ Cardinality(earlier(y)) \in Int
    BY <1>2
  <2>3. QED
    BY <1>3, <2>1, <2>2
<1> HIDE DEF earlier
<1>5. rank \in Injection(all, 0..(n - 1))
  BY <1>2, <1>4 DEF Injection, IsInjective
<1>6. IsFiniteSet(0..(n - 1)) /\ Cardinality(0..(n - 1)) = n
  <2>1. /\ IsFiniteSet(0..(n - 1))
        /\ Cardinality(0..(n - 1)) = IF 0 > n - 1 THEN 0 ELSE (n - 1) - 0 + 1
    <3> HIDE DEF n
    <3>1. QED
      BY <1>1, FS_Interval
  <2>2. QED
    BY <1>1, <2>1
<1>7. rank \in Surjection(all, 0..(n - 1))
  <2> HIDE DEF rank
  <2>1. QED
    BY <1>5, <1>6, FS_Injection
<1>8. \A r \in 0..(n - 1) : \E x \in all : Cardinality(earlier(x)) = r
  BY <1>7 DEF Surjection
<1>9. Listed(all) = [i \in 1..n |-> CHOOSE x \in all : Cardinality(earlier(x)) = i - 1]
  BY Zenon DEF Listed, earlier
<1>10. Len(Listed(all)) = n
  BY <1>1, <1>9
<1>11. ASSUME NEW i \in 1..n
       PROVE  Listed(all)[i] \in all /\ Cardinality(earlier(Listed(all)[i])) = i - 1
  <2>1. i - 1 \in 0..(n - 1)
    BY <1>1
  <2>2. PICK x \in all : Cardinality(earlier(x)) = i - 1
    BY <1>8, <2>1
  <2>3. Listed(all)[i] = CHOOSE y \in all : Cardinality(earlier(y)) = i - 1
    BY <1>9
  <2>4. QED
    BY <2>2, <2>3
<1>12. ASSUME NEW x \in all
       PROVE  \E i \in 1..n : Listed(all)[i] = x
  <2>1. PICK r \in 0..(n - 1) : r = Cardinality(earlier(x))
    BY <1>2
  <2>2. r + 1 \in 1..n /\ (r + 1) - 1 = r
    BY <1>1
  <2>3. Listed(all)[r + 1] = x
    BY <1>4, <1>11, <2>1, <2>2
  <2>4. QED
    BY <2>2, <2>3
<1>13. Listed(all) = [i \in 1..n |-> Listed(all)[i]]
  BY <1>9
<1>14. QED
  BY <1>1, <1>10, <1>11, <1>12, <1>13

-----------------------------------------------------------------------------

\* Apart from its supersession a transition is of the time its event was observed.
HistoryOf(r) ==
    \A i \in DOMAIN r.transitions :
        r.transitions[i].to = "superseded" \/ r.transitions[i].at = r.at

\* The event that k supersedes is another of its identity, and was told of it.
FollowsPast(known, k) ==
    LET prior == known[k].supersedes IN
    prior # NoEvent =>
        /\ prior \in DOMAIN known /\ prior.kind = k.kind /\ prior.day = k.day
        /\ prior.says # k.says \/ ~prior.corrected
        /\ known[prior].at < known[k].at
        /\ \E i \in DOMAIN known[prior].transitions :
              known[prior].transitions[i] = [to |-> "superseded", at |-> known[k].at]

SupportSays(known, k, all) ==
    \A obs \in known[k].support : obs \in all /\ obs.day = k.day /\ Last(k.says) = obs.rate

\* What an extraction over the observations may make of the events.
EventsSound(known, all) ==
    /\ DOMAIN known \subseteq EventKey
    /\ \A k \in DOMAIN known : known[k] \in Record /\ HistoryOf(known[k])
    /\ \A k \in DOMAIN known : FollowsPast(known, k)
    /\ \A k \in DOMAIN known : SupportSays(known, k, all)

\* Support and transitions are only added to an event.
GoesOn(known, next) ==
    \A k \in DOMAIN known :
        /\ k \in DOMAIN next
        /\ next[k].at = known[k].at /\ next[k].supersedes = known[k].supersedes
        /\ known[k].support \subseteq next[k].support
        /\ \A i \in DOMAIN known[k].transitions :
              i \in DOMAIN next[k].transitions /\ next[k].transitions[i] = known[k].transitions[i]

LEMMA EventsGoOn ==
    ASSUME NEW known, NEW next, NEW all, EventsSound(known, all), GoesOn(known, next),
           DOMAIN next \subseteq EventKey,
           \A k \in DOMAIN next : next[k] \in Record /\ HistoryOf(next[k]),
           \A k \in DOMAIN next : SupportSays(next, k, all),
           \A k \in DOMAIN next : k \in DOMAIN known \/ FollowsPast(next, k)
    PROVE  EventsSound(next, all)
<1>1. ASSUME NEW k \in DOMAIN known PROVE FollowsPast(next, k)
  <2> DEFINE prior == known[k].supersedes
  <2>1. next[k].supersedes = prior /\ next[k].at = known[k].at
    BY DEF GoesOn
  <2> SUFFICES ASSUME prior # NoEvent
               PROVE  /\ prior \in DOMAIN next /\ prior.kind = k.kind /\ prior.day = k.day
                      /\ prior.says # k.says \/ ~prior.corrected
                      /\ next[prior].at < next[k].at
                      /\ \E i \in DOMAIN next[prior].transitions :
                            next[prior].transitions[i] = [to |-> "superseded", at |-> next[k].at]
    BY <2>1 DEF FollowsPast
  <2>2. /\ prior \in DOMAIN known /\ prior.kind = k.kind /\ prior.day = k.day
        /\ prior.says # k.says \/ ~prior.corrected
        /\ known[prior].at < known[k].at
        /\ \E i \in DOMAIN known[prior].transitions :
              known[prior].transitions[i] = [to |-> "superseded", at |-> known[k].at]
    BY DEF EventsSound, FollowsPast
  <2> HIDE DEF prior
  <2>3. /\ prior \in DOMAIN next /\ next[prior].at = known[prior].at
        /\ \A i \in DOMAIN known[prior].transitions :
              /\ i \in DOMAIN next[prior].transitions
              /\ next[prior].transitions[i] = known[prior].transitions[i]
    BY <2>2 DEF GoesOn
  <2>4. QED
    BY <2>1, <2>2, <2>3
<1>2. QED
  BY <1>1 DEF EventsSound

\* Observations may come while an extraction runs.
LEMMA SoundAmongMore ==
    ASSUME NEW known, NEW all, NEW more, EventsSound(known, all), all \subseteq more
    PROVE  EventsSound(known, more)
BY DEF EventsSound, SupportSays

LEMMA GoesOnAndOn ==
    ASSUME NEW known, NEW next, NEW last, GoesOn(known, next), GoesOn(next, last)
    PROVE  GoesOn(known, last)
<1> SUFFICES ASSUME NEW k \in DOMAIN known
             PROVE  /\ k \in DOMAIN last
                    /\ last[k].at = known[k].at /\ last[k].supersedes = known[k].supersedes
                    /\ known[k].support \subseteq last[k].support
                    /\ \A i \in DOMAIN known[k].transitions :
                          /\ i \in DOMAIN last[k].transitions
                          /\ last[k].transitions[i] = known[k].transitions[i]
  BY DEF GoesOn
<1>1. /\ k \in DOMAIN next
      /\ next[k].at = known[k].at /\ next[k].supersedes = known[k].supersedes
      /\ known[k].support \subseteq next[k].support
      /\ \A i \in DOMAIN known[k].transitions :
            i \in DOMAIN next[k].transitions /\ next[k].transitions[i] = known[k].transitions[i]
  BY DEF GoesOn
<1>2. /\ k \in DOMAIN last
      /\ last[k].at = next[k].at /\ last[k].supersedes = next[k].supersedes
      /\ next[k].support \subseteq last[k].support
      /\ \A i \in DOMAIN next[k].transitions :
            i \in DOMAIN last[k].transitions /\ last[k].transitions[i] = next[k].transitions[i]
  BY <1>1 DEF GoesOn
<1>3. QED
  BY <1>1, <1>2

\* From the time of its successor on an event counts as superseded.
LEMMA SupersededStays ==
    ASSUME NEW r \in Record, HistoryOf(r), NEW i \in DOMAIN r.transitions,
           r.transitions[i].to = "superseded", r.at < r.transitions[i].at,
           NEW cutoff \in Time, r.transitions[i].at <= cutoff
    PROVE  StatusAt(r, cutoff) = "superseded"
<1> DEFINE ts == r.transitions
           due == {j \in DOMAIN ts : ts[j].at <= cutoff}
           times == {ts[j].at : j \in due}
<1>1. PICK n \in Nat : DOMAIN ts = 1..n
  BY DEF Record
<1>2. \A j \in DOMAIN ts : j \in Nat /\ j <= n /\ ts[j].at \in Nat
  <2>1. \A j \in DOMAIN ts : ts[j] \in Transition
    BY DEF Record
  <2>2. \A t \in Transition : t.at \in Nat
    BY SessionsAssumption DEF Transition, Time
  <2>3. QED
    BY <1>1, <2>1, <2>2
<1>3. cutoff \in Nat /\ r.at \in Nat
  BY SessionsAssumption DEF Record, Time
<1>4. i \in due
  OBVIOUS
<1>5. times \subseteq Nat /\ times # {} /\ \A t \in times : t <= cutoff
  BY <1>2, <1>4
<1>6. PICK latest \in times : \A t \in times : t <= latest
  <2> HIDE DEF times
  <2>1. QED
    BY <1>3, <1>5, GreatestNatural
<1> DEFINE lasts == {j \in due : ts[j].at = latest}
<1>7. lasts \subseteq Nat /\ lasts # {} /\ \A j \in lasts : j <= n
  BY <1>2, <1>6
<1>8. PICK k \in lasts : \A j \in lasts : j <= k
  <2> HIDE DEF lasts
  <2>1. QED
    BY <1>1, <1>7, GreatestNatural
<1>9. \A j \in due : ts[j].at < ts[k].at \/ (ts[j].at = ts[k].at /\ j <= k)
  <2> TAKE j \in due
  <2>1. ts[j].at \in times
    OBVIOUS
  <2>2. ts[j].at <= latest /\ ts[k].at = latest
    BY <1>6, <1>8, <2>1
  <2>3. ts[j].at \in Nat /\ latest \in Nat
    BY <1>2, <1>5, <1>6
  <2>4. ts[j].at = latest => j <= k
    BY <1>8
  <2>5. QED
    BY <2>2, <2>3, <2>4
<1> DEFINE last == CHOOSE j \in due : \A m \in due :
                       \/ ts[m].at < ts[j].at
                       \/ ts[m].at = ts[j].at /\ m <= j
<1>10. StatusAt(r, cutoff) = IF due = {} THEN "none" ELSE ts[last].to
  BY DEF StatusAt
<1>11. last \in due /\ \A m \in due : ts[m].at < ts[last].at \/ (ts[m].at = ts[last].at /\ m <= last)
  <2> HIDE DEF due, ts
  <2>1. k \in due
    BY <1>8 DEF due, ts
  <2>2. QED
    BY <1>9, <2>1
<1> HIDE DEF last
<1>12. StatusAt(r, cutoff) = ts[last].to
  BY <1>4, <1>10
<1>13. ts[last].at # r.at
  <2>1. ts[i].at < ts[last].at \/ ts[i].at = ts[last].at
    BY <1>4, <1>11
  <2>2. ts[i].at \in Nat /\ ts[last].at \in Nat
    BY <1>2, <1>4, <1>11
  <2>3. QED
    BY <1>3, <2>1, <2>2
<1>14. QED
  BY <1>11, <1>12, <1>13 DEF HistoryOf

-----------------------------------------------------------------------------

\* Of a step: the events stay sound, what was kept is kept, and obs supports key.
Supports(known, next, key, obs, all) ==
    /\ EventsSound(next, all) /\ GoesOn(known, next)
    /\ key \in DOMAIN next /\ obs \in next[key].support

LEMMA SupportedKeeps ==
    ASSUME NEW all, all \subseteq Observation, NEW known, EventsSound(known, all),
           NEW key \in DOMAIN known, NEW obs \in all, obs.day = key.day, Last(key.says) = obs.rate
    PROVE  Supports(known, Supported(known, key, obs), key, obs, all)
<1> DEFINE r == known[key]
           next == Supported(known, key, obs)
<1>1. r \in Record
  BY DEF EventsSound
<1>2. PICK s : s = [r EXCEPT !.support = @ \cup {obs}]
  OBVIOUS
<1>3. /\ s.at = r.at /\ s.supersedes = r.supersedes /\ s.transitions = r.transitions
      /\ s.support = r.support \cup {obs} /\ s \in Record
  BY <1>1, <1>2 DEF Record
<1>4. DOMAIN next = DOMAIN known /\ \A k \in DOMAIN known : next[k] = IF k = key THEN s ELSE known[k]
  BY <1>2 DEF Supported
<1> HIDE DEF next
<1>5. GoesOn(known, next)
  BY <1>3, <1>4 DEF GoesOn
<1>6. HistoryOf(s)
  BY <1>3 DEF EventsSound, HistoryOf
<1>7. \A k \in DOMAIN next : next[k] \in Record /\ HistoryOf(next[k])
  BY <1>3, <1>4, <1>6 DEF EventsSound
<1>8. \A k \in DOMAIN next : SupportSays(next, k, all)
  BY <1>3, <1>4 DEF EventsSound, SupportSays
<1>9. EventsSound(next, all)
  <2>1. DOMAIN next \subseteq EventKey
    BY <1>4 DEF EventsSound
  <2>2. QED
    BY <1>4, <1>5, <1>7, <1>8, <2>1, EventsGoOn
<1>10. QED
  BY <1>3, <1>4, <1>5, <1>9 DEF Supports, next

\* A new event supersedes no event, or one of its identity observed before, which
\* is told of it.
LEMMA RecordedKeeps ==
    ASSUME NEW all, all \subseteq Observation, NEW known, EventsSound(known, all),
           NEW key \in EventKey, key \notin DOMAIN known,
           NEW obs \in all, obs.day = key.day, Last(key.says) = obs.rate
    PROVE  Supports(known, Recorded(known, key, NewRecord(key, NoEvent, obs)), key, obs, all)
<1> DEFINE next == Recorded(known, key, NewRecord(key, NoEvent, obs))
<1>1. PICK r : r = NewRecord(key, NoEvent, obs)
  OBVIOUS
<1>2. r \in Record /\ HistoryOf(r) /\ r.supersedes = NoEvent /\ r.support = {obs}
  <2>1. obs \in Observation /\ obs.at \in Time
    BY ObservationsAreTyped
  <2>2. PICK ts : ts = r.transitions
    OBVIOUS
  <2>3. ts \in Seq(Transition) /\ \A i \in DOMAIN ts : ts[i].at = obs.at
    BY <1>1, <2>1, <2>2 DEF NewRecord, Transition
  <2>4. r = [at |-> obs.at, supersedes |-> NoEvent, support |-> {obs}, transitions |-> ts]
    BY <1>1, <2>2 DEF NewRecord
  <2>5. r \in Record
    BY <2>1, <2>3, <2>4 DEF Record
  <2>6. QED
    BY <2>3, <2>4, <2>5 DEF HistoryOf
<1>3. DOMAIN next = DOMAIN known \cup {key} /\ \A k \in DOMAIN next : next[k] = IF k = key THEN r ELSE known[k]
  BY <1>1 DEF Recorded
<1> HIDE DEF next
<1>4. GoesOn(known, next)
  BY <1>3 DEF GoesOn
<1>5. \A k \in DOMAIN next : next[k] \in Record /\ HistoryOf(next[k])
  BY <1>2, <1>3 DEF EventsSound
<1>6. \A k \in DOMAIN next : SupportSays(next, k, all)
  BY <1>2, <1>3 DEF EventsSound, SupportSays
<1>7. FollowsPast(next, key)
  BY <1>2, <1>3 DEF FollowsPast
<1>8. EventsSound(next, all)
  <2>1. DOMAIN next \subseteq EventKey
    BY <1>3 DEF EventsSound
  <2>2. QED
    BY <1>3, <1>4, <1>5, <1>6, <1>7, <2>1, EventsGoOn
<1>9. QED
  BY <1>2, <1>3, <1>4, <1>8 DEF Supports, next

LEMMA SupersedeKeeps ==
    ASSUME NEW all, all \subseteq Observation, NEW known, EventsSound(known, all),
           NEW key \in EventKey, key \notin DOMAIN known, NEW prior \in DOMAIN known,
           prior.kind = key.kind, prior.day = key.day, prior.says # key.says \/ ~prior.corrected,
           NEW obs \in all, obs.day = key.day, Last(key.says) = obs.rate,
           known[prior].at < obs.at
    PROVE  Supports(known, Supersede(Recorded(known, key, NewRecord(key, prior, obs)), prior, obs.at),
                    key, obs, all)
<1> DEFINE recorded == Recorded(known, key, NewRecord(key, prior, obs))
           next == Supersede(recorded, prior, obs.at)
           told == [to |-> "superseded", at |-> obs.at]
<1>1. PICK r : r = NewRecord(key, prior, obs)
  OBVIOUS
<1>2. prior \in EventKey /\ known[prior] \in Record /\ HistoryOf(known[prior]) /\ prior # key
  BY DEF EventsSound
<1>3. obs \in Observation /\ obs.at \in Time /\ told \in Transition
  BY ObservationsAreTyped DEF Transition
<1>4. r \in Record /\ HistoryOf(r) /\ r.supersedes = prior /\ r.support = {obs} /\ r.at = obs.at
  <2>2. PICK ts : ts = r.transitions
    OBVIOUS
  <2>3. ts \in Seq(Transition) /\ \A i \in DOMAIN ts : ts[i].at = obs.at
    BY <1>1, <1>3, <2>2 DEF NewRecord, Transition
  <2>4. r = [at |-> obs.at, supersedes |-> prior, support |-> {obs}, transitions |-> ts]
    BY <1>1, <2>2 DEF NewRecord
  <2>5. r \in Record
    BY <1>2, <1>3, <2>3, <2>4 DEF Record
  <2>6. QED
    BY <2>3, <2>4, <2>5 DEF HistoryOf
<1>5. PICK p : p = known[prior]
  OBVIOUS
<1>6. PICK s : s = [p EXCEPT !.transitions = Append(@, told)]
  OBVIOUS
<1>7. PICK ts : ts = p.transitions
  OBVIOUS
<1>8. ts \in Seq(Transition) /\ p \in Record
  BY <1>2, <1>5, <1>7 DEF Record
<1>9. PICK longer : longer = Append(ts, told)
  OBVIOUS
<1>10. /\ longer \in Seq(Transition)
       /\ Len(ts) + 1 \in DOMAIN longer /\ longer[Len(ts) + 1] = told
       /\ \A i \in DOMAIN longer : i \in DOMAIN ts \/ longer[i] = told
       /\ \A i \in DOMAIN ts : i \in DOMAIN longer /\ longer[i] = ts[i]
  BY <1>3, <1>8, <1>9
<1>11. s = [p EXCEPT !.transitions = longer]
  BY <1>6, <1>7, <1>8, <1>9 DEF Record
<1>12. /\ s.at = p.at /\ s.supersedes = p.supersedes /\ s.support = p.support
       /\ s.transitions = longer /\ s \in Record
  BY <1>8, <1>10, <1>11 DEF Record
<1>13. HistoryOf(s)
  <2>1. told.to = "superseded"
    OBVIOUS
  <2>2. \A i \in DOMAIN ts : ts[i].to = "superseded" \/ ts[i].at = p.at
    BY <1>2, <1>5, <1>7 DEF HistoryOf
  <2>3. \A i \in DOMAIN longer : longer[i].to = "superseded" \/ longer[i].at = p.at
    BY <1>10, <2>1, <2>2
  <2>4. QED
    BY <1>12, <2>3 DEF HistoryOf
<1>14. /\ DOMAIN recorded = DOMAIN known \cup {key}
       /\ \A k \in DOMAIN recorded : recorded[k] = IF k = key THEN r ELSE known[k]
  BY <1>1 DEF Recorded
<1>15. /\ DOMAIN next = DOMAIN known \cup {key}
       /\ \A k \in DOMAIN next : next[k] = IF k = key THEN r ELSE IF k = prior THEN s ELSE known[k]
  <2> HIDE DEF recorded
  <2>1. next = [recorded EXCEPT ![prior].transitions = Append(@, told)]
    BY DEF Supersede
  <2>2. recorded[prior] = p
    BY <1>2, <1>5, <1>14
  <2>3. next = [recorded EXCEPT ![prior] = s]
    BY <1>6, <2>1, <2>2
  <2>4. QED
    BY <1>2, <1>14, <2>3
<1> HIDE DEF next, recorded, told
<1>16. GoesOn(known, next)
  BY <1>2, <1>5, <1>7, <1>10, <1>12, <1>15 DEF GoesOn
<1>17. \A k \in DOMAIN next : next[k] \in Record /\ HistoryOf(next[k])
  BY <1>4, <1>12, <1>13, <1>15 DEF EventsSound
<1>18. \A k \in DOMAIN next : SupportSays(next, k, all)
  <2>1. next[key].support = {obs} /\ next[prior].support = known[prior].support
    BY <1>2, <1>4, <1>5, <1>12, <1>15
  <2>2. \A k \in DOMAIN next : k # key => k \in DOMAIN known /\ next[k].support = known[k].support
    BY <1>15, <2>1
  <2>3. QED
    BY <2>1, <2>2 DEF EventsSound, SupportSays
<1>19. FollowsPast(next, key)
  <2>1. next[key] = r /\ next[prior] = s /\ prior \in DOMAIN next
    BY <1>2, <1>15
  <2>2. s.at = known[prior].at /\ \E i \in DOMAIN s.transitions : s.transitions[i] = told
    BY <1>5, <1>10, <1>12
  <2>3. QED
    BY <1>4, <2>1, <2>2 DEF FollowsPast, told
<1>20. EventsSound(next, all)
  <2>1. DOMAIN next \subseteq EventKey
    BY <1>15 DEF EventsSound
  <2>2. QED
    BY <1>15, <1>16, <1>17, <1>18, <1>19, <2>1, EventsGoOn
<1>21. QED
  BY <1>4, <1>15, <1>16, <1>20 DEF Supports, next, recorded

\* The latest of an identity before a time is one of the events.
LEMMA LatestIsBefore ==
    ASSUME NEW known, \A k \in DOMAIN known : known[k].at \in Time,
           NEW key, NEW at, at \in Time, LatestBefore(known, key, at) # NoEvent
    PROVE  LET latest == LatestBefore(known, key, at) IN
           /\ latest \in DOMAIN known /\ latest.kind = key.kind /\ latest.day = key.day
           /\ known[latest].at < at
<1> DEFINE before == {k \in SameIdentity(known, key) : known[k].at < at}
           times == {known[k].at : k \in before}
           latest == CHOOSE k \in before : \A q \in before : known[q].at <= known[k].at
<1>1. LatestBefore(known, key, at) = IF before = {} THEN NoEvent ELSE latest
  BY DEF LatestBefore
<1>2. before # {}
  BY <1>1
<1>3. before \subseteq DOMAIN known
  BY DEF SameIdentity
<1>4. times \subseteq Nat /\ times # {} /\ at \in Nat /\ \A t \in times : t <= at
  <2>1. Time \subseteq Nat
    BY SessionsAssumption DEF Time
  <2>2. times \subseteq Time /\ at \in Nat
    BY <1>3, <2>1
  <2>3. ASSUME NEW k \in before PROVE known[k].at \in Nat /\ known[k].at <= at
    <3>1. k \in DOMAIN known /\ known[k].at < at
      BY <1>3
    <3>2. known[k].at \in Nat
      <4> HIDE DEF before
      <4>1. QED
        BY <2>1, <3>1
    <3>3. QED
      BY <2>2, <3>1, <3>2
  <2>4. times \subseteq Nat /\ \A t \in times : t <= at
    BY <2>3
  <2>5. QED
    BY <1>2, <2>2, <2>4
<1>5. PICK t \in times : \A u \in times : u <= t
  <2> HIDE DEF times
  <2>1. QED
    BY <1>4, GreatestNatural
<1>6. PICK k \in before : known[k].at = t
  OBVIOUS
<1>7. \A q \in before : known[q].at <= known[k].at
  BY <1>5, <1>6
<1>8. latest \in before
  <2> HIDE DEF before
  <2>1. QED
    BY <1>6, <1>7
<1> HIDE DEF latest
<1>9. QED
  BY <1>1, <1>2, <1>8 DEF SameIdentity

\* What one candidate makes of the events; its fact is that of the observation.
LEMMA PersistKeeps ==
    ASSUME NEW all, all \subseteq Observation, NEW known, EventsSound(known, all),
           NEW fact \in EventKey, ~fact.corrected,
           NEW obs \in all, obs.day = fact.day, Last(fact.says) = obs.rate,
           Persist(known, fact, obs).ok
    PROVE  \E key \in EventKey :
              key.kind = fact.kind /\ Supports(known, Persist(known, fact, obs).known, key, obs, all)
<1> DEFINE latest == LatestBefore(known, fact, obs.at)
           changed == latest # NoEvent /\ latest # fact
           key == [fact EXCEPT !.corrected = changed]
           prior == IF changed THEN latest ELSE NoEvent
<1>1. Persist(known, fact, obs) = AddEvent(known, key, prior, obs)
  BY Zenon DEF Persist
<1>2. /\ key \in EventKey /\ key.kind = fact.kind /\ key.day = fact.day
      /\ key.says = fact.says /\ key.corrected = changed
  <2>1. changed \in BOOLEAN
    OBVIOUS
  <2> HIDE DEF changed
  <2>2. QED
    BY <2>1 DEF EventKey
<1>3. obs.at \in Time /\ \A k \in DOMAIN known : known[k].at \in Time
  BY ObservationsAreTyped DEF EventsSound, Record
<1>4. changed => /\ latest \in DOMAIN known /\ latest.kind = key.kind /\ latest.day = key.day
                 /\ known[latest].at < obs.at
  BY <1>2, <1>3, LatestIsBefore
<1> HIDE DEF latest, key
<1>5. CASE key \in DOMAIN known
  <2>1. Persist(known, fact, obs).known = Supported(known, key, obs)
    BY <1>1, <1>5 DEF AddEvent, Fine
  <2>2. QED
    BY <1>2, <1>5, <2>1, SupportedKeeps
<1>6. CASE key \notin DOMAIN known /\ ~changed
  <2>1. prior = NoEvent /\ AddEvent(known, key, prior, obs).ok
    BY <1>1, <1>6
  <2>2. Persist(known, fact, obs).known = Recorded(known, key, NewRecord(key, NoEvent, obs))
    BY <1>1, <1>6, <2>1 DEF AddEvent, Fine, Raised
  <2>3. QED
    BY <1>2, <1>6, <2>2, RecordedKeeps
<1>7. CASE key \notin DOMAIN known /\ changed
  <2>1. prior = latest /\ latest # NoEvent /\ AddEvent(known, key, prior, obs).ok
    BY <1>1, <1>7
  <2>2. Persist(known, fact, obs).known =
            Supersede(Recorded(known, key, NewRecord(key, latest, obs)), latest, obs.at)
    BY <1>1, <1>7, <2>1 DEF AddEvent, Fine, Raised
  <2>3. latest.says # key.says \/ ~latest.corrected
    <3>1. latest \in EventKey /\ latest # key /\ key.corrected
      BY <1>2, <1>4, <1>7 DEF EventsSound
    <3>2. QED
      BY <1>2, <1>4, <1>7, <3>1 DEF EventKey
  <2>4. QED
    BY <1>2, <1>4, <1>7, <2>2, <2>3, SupersedeKeeps
<1>8. QED
  BY <1>5, <1>6, <1>7

LEMMA ThenKeeps ==
    ASSUME NEW all, all \subseteq Observation, NEW known,
           NEW result, result.ok => EventsSound(result.known, all) /\ GoesOn(known, result.known),
           NEW fact \in EventKey, ~fact.corrected,
           NEW obs \in all, obs.day = fact.day, Last(fact.says) = obs.rate,
           Then(result, fact, obs).ok
    PROVE  LET next == Then(result, fact, obs).known IN
           /\ result.ok
           /\ EventsSound(next, all) /\ GoesOn(known, next) /\ GoesOn(result.known, next)
<1>1. result.ok /\ Then(result, fact, obs) = Persist(result.known, fact, obs)
  BY DEF Then
<1>2. EventsSound(result.known, all) /\ Persist(result.known, fact, obs).ok
  BY <1>1
<1>3. PICK key \in EventKey : Supports(result.known, Persist(result.known, fact, obs).known, key, obs, all)
  BY <1>2, PersistKeeps
<1>4. QED
  BY <1>1, <1>3, GoesOnAndOn DEF Supports

\* An update is there that the observation supports.
Updated(known, obs) == \E k \in DOMAIN known : k.kind = "update" /\ obs \in known[k].support

LEMMA UpdatedStays ==
    ASSUME NEW known, NEW next, GoesOn(known, next), NEW obs, Updated(known, obs)
    PROVE  Updated(next, obs)
BY DEF Updated, GoesOn

LEMMA FactsAreKeys ==
    ASSUME NEW obs \in Observation
    PROVE  /\ UpdateOf(obs) \in EventKey /\ ~UpdateOf(obs).corrected
           /\ UpdateOf(obs).kind = "update"
           /\ UpdateOf(obs).day = obs.day /\ Last(UpdateOf(obs).says) = obs.rate
           /\ \A kind \in {"movement", "unusual"}, before \in Rates :
                 /\ MoveOf(kind, before, obs) \in EventKey /\ ~MoveOf(kind, before, obs).corrected
                 /\ MoveOf(kind, before, obs).day = obs.day
                 /\ Last(MoveOf(kind, before, obs).says) = obs.rate
<1>1. obs.day \in 1..MaxDay /\ obs.rate \in Rates
  BY ObservationsAreTyped
<1>2. Rate(obs.rate) \in Material /\ Last(Rate(obs.rate)) = obs.rate
  BY <1>1 DEF Rate, Material, Last
<1>3. \A before \in Rates :
         Movement(before, obs.rate) \in Material /\ Last(Movement(before, obs.rate)) = obs.rate
  BY <1>1 DEF Movement, Material, Last
<1>4. QED
  BY <1>1, <1>2, <1>3 DEF UpdateOf, MoveOf, EventKey

LEMMA PersistAllKeeps ==
    ASSUME NEW all, all \subseteq Observation, NEW known, EventsSound(known, all),
           NEW before \in Rates \cup {0}, NEW obs \in all, PersistAll(known, before, obs).ok
    PROVE  LET next == PersistAll(known, before, obs).known IN
           EventsSound(next, all) /\ GoesOn(known, next) /\ Updated(next, obs)
<1> DEFINE updated == Persist(known, UpdateOf(obs), obs)
           moved == Then(updated, MoveOf("movement", before, obs), obs)
           unusual == Then(moved, MoveOf("unusual", before, obs), obs)
<1>1. PersistAll(known, before, obs) =
          IF before = 0 THEN updated ELSE IF Unusual(before, obs.rate) THEN unusual ELSE moved
  BY Zenon DEF PersistAll
<1>2. updated.ok => /\ EventsSound(updated.known, all) /\ GoesOn(known, updated.known)
                    /\ Updated(updated.known, obs)
  <2> SUFFICES ASSUME updated.ok
               PROVE  /\ EventsSound(updated.known, all) /\ GoesOn(known, updated.known)
                      /\ Updated(updated.known, obs)
    OBVIOUS
  <2>1. PICK key \in EventKey : key.kind = "update" /\ Supports(known, updated.known, key, obs, all)
    BY FactsAreKeys, PersistKeeps
  <2>2. QED
    BY <2>1 DEF Supports, Updated
<1> HIDE DEF updated
<1>3. before # 0 /\ moved.ok => /\ updated.ok
                                /\ EventsSound(moved.known, all) /\ GoesOn(known, moved.known)
                                /\ Updated(moved.known, obs)
  <2> SUFFICES ASSUME before # 0, moved.ok
               PROVE  /\ updated.ok
                      /\ EventsSound(moved.known, all) /\ GoesOn(known, moved.known)
                      /\ Updated(moved.known, obs)
    OBVIOUS
  <2>1. before \in Rates
    OBVIOUS
  <2>2. /\ updated.ok /\ EventsSound(moved.known, all)
        /\ GoesOn(known, moved.known) /\ GoesOn(updated.known, moved.known)
    BY <1>2, <2>1, FactsAreKeys, ThenKeeps
  <2>3. QED
    BY <1>2, <2>2, UpdatedStays
<1> HIDE DEF moved
<1>4. before # 0 /\ unusual.ok => /\ EventsSound(unusual.known, all) /\ GoesOn(known, unusual.known)
                                  /\ Updated(unusual.known, obs)
  <2> SUFFICES ASSUME before # 0, unusual.ok
               PROVE  /\ EventsSound(unusual.known, all) /\ GoesOn(known, unusual.known)
                      /\ Updated(unusual.known, obs)
    OBVIOUS
  <2>1. before \in Rates
    OBVIOUS
  <2>2. /\ moved.ok /\ EventsSound(unusual.known, all)
        /\ GoesOn(known, unusual.known) /\ GoesOn(moved.known, unusual.known)
    BY <1>3, <2>1, FactsAreKeys, ThenKeeps
  <2>3. QED
    BY <1>3, <2>2, UpdatedStays
<1> HIDE DEF unusual
<1>5. QED
  BY <1>1, <1>2, <1>3, <1>4

-----------------------------------------------------------------------------
(* An extraction goes over the list of the observations; after each prefix *)
(* of it the events are sound, and what is in it supports its update.      *)

PassStep(known, listed, f, i) ==
    IF i = 0 THEN Fine(known)
    ELSE IF f[i - 1].ok
    THEN PersistAll(f[i - 1].known, IF i = 1 THEN 0 ELSE listed[i - 1].rate, listed[i])
    ELSE f[i - 1]

Passes(known, listed, f, n) == f = [i \in 0..n |-> PassStep(known, listed, f, i)]

LEMMA PassesExist ==
    ASSUME NEW known, NEW listed, NEW n \in Nat
    PROVE  \E f : Passes(known, listed, f, n)
<1> DEFINE bad == {m \in 0..n : ~ \E f : Passes(known, listed, f, m)}
<1>1. ASSUME bad # {} PROVE FALSE
  <2>1. PICK m \in bad : \A k \in bad : m <= k
    <3>1. bad \subseteq Nat
      OBVIOUS
    <3> HIDE DEF bad
    <3>2. QED
      BY <1>1, <3>1, LeastNatural
  <2>2. CASE m = 0
    <3>1. PICK f : f = [i \in 0..0 |-> Fine(known)]
      OBVIOUS
    <3>2. \A i \in 0..0 : PassStep(known, listed, f, i) = Fine(known)
      BY DEF PassStep
    <3>3. Passes(known, listed, f, 0)
      BY <3>1, <3>2 DEF Passes
    <3>4. QED
      BY <2>1, <2>2, <3>3
  <2>3. CASE m # 0
    <3>1. m - 1 \in 0..n /\ m - 1 \in Nat /\ m \in 1..n /\ m - 1 \notin bad
      BY <2>1, <2>3
    <3>2. PICK f : Passes(known, listed, f, m - 1)
      BY <3>1
    <3>3. PICK g : g = [i \in 0..m |-> IF i = m THEN PassStep(known, listed, f, m) ELSE f[i]]
      OBVIOUS
    <3>4. ASSUME NEW i \in 0..m PROVE g[i] = PassStep(known, listed, g, i)
      <4>1. CASE i = 0
        <5>1. PassStep(known, listed, g, i) = PassStep(known, listed, f, i)
          BY <4>1 DEF PassStep
        <5>2. i \in 0..(m - 1) /\ i # m
          BY <3>1, <4>1
        <5>3. f[i] = PassStep(known, listed, f, i)
          BY <3>2, <5>2 DEF Passes
        <5>4. QED
          BY <3>3, <5>1, <5>2, <5>3
      <4>2. CASE i # 0
        <5>1. i - 1 \in 0..m /\ i - 1 # m
          BY <3>1, <4>2
        <5>2. g[i - 1] = f[i - 1]
          BY <3>3, <5>1
        <5>3. PassStep(known, listed, g, i) = PassStep(known, listed, f, i)
          BY <4>2, <5>2 DEF PassStep
        <5>4. CASE i = m
          BY <3>3, <5>3, <5>4
        <5>5. CASE i # m
          <6>1. i \in 0..(m - 1)
            BY <3>1, <5>5
          <6>2. f[i] = PassStep(known, listed, f, i)
            BY <3>2, <6>1 DEF Passes
          <6>3. QED
            BY <3>3, <5>3, <5>5, <6>2
        <5>6. QED
          BY <5>4, <5>5
      <4>3. QED
        BY <4>1, <4>2
    <3>5. g = [i \in 0..m |-> PassStep(known, listed, g, i)]
      BY <3>3, <3>4
    <3>6. QED
      BY <2>1, <3>5 DEF Passes
  <2>4. QED
    BY <2>2, <2>3
<1>2. n \notin bad
  BY <1>1
<1>3. QED
  BY <1>2

\* Of what the first i observations have made of the events.
PassedSoundly(result, listed, i, all) ==
    result.ok => /\ EventsSound(result.known, all)
                 /\ \A j \in 1..i : Updated(result.known, listed[j])

LEMMA PassesAreSound ==
    ASSUME NEW all, all \subseteq Observation, NEW known, EventsSound(known, all),
           NEW n \in Nat, NEW listed \in [1..n -> all], NEW f, Passes(known, listed, f, n)
    PROVE  PassedSoundly(f[n], listed, n, all)
<1> DEFINE bad == {m \in 0..n : ~PassedSoundly(f[m], listed, m, all)}
<1>1. \A i \in 0..n : f[i] = PassStep(known, listed, f, i)
  BY DEF Passes
<1>2. ASSUME bad # {} PROVE FALSE
  <2>1. PICK m \in bad : \A k \in bad : m <= k
    <3>1. bad \subseteq Nat
      OBVIOUS
    <3> HIDE DEF bad
    <3>2. QED
      BY <1>2, <3>1, LeastNatural
  <2>2. m \in 0..n /\ ~PassedSoundly(f[m], listed, m, all)
    BY <2>1
  <2>3. m # 0
    <3>1. f[0] = Fine(known)
      BY <1>1 DEF PassStep
    <3>2. Fine(known).known = known /\ \A j \in 1..0 : FALSE
      BY DEF Fine
    <3>3. PassedSoundly(f[0], listed, 0, all)
      BY <3>1, <3>2 DEF PassedSoundly
    <3>4. QED
      BY <2>2, <3>3
  <2>4. /\ m - 1 \in 0..n /\ m \in 1..n /\ m - 1 \notin bad
        /\ \A j \in 1..m : j = m \/ j \in 1..(m - 1)
    BY <2>1, <2>3
  <2>5. PassedSoundly(f[m - 1], listed, m - 1, all)
    BY <2>4
  <2> HIDE DEF bad
  <2>6. PICK before \in Rates \cup {0} : before = IF m = 1 THEN 0 ELSE listed[m - 1].rate
    <3>1. CASE m = 1
      BY <3>1
    <3>2. CASE m # 1
      <4>1. m - 1 \in 1..n
        BY <2>4, <3>2
      <4>2. listed[m - 1] \in Observation
        BY <4>1
      <4>3. QED
        BY <3>2, <4>2, ObservationsAreTyped
    <3>3. QED
      BY <3>1, <3>2
  <2>7. listed[m] \in all
    BY <2>4
  <2>8. f[m] = IF f[m - 1].ok THEN PersistAll(f[m - 1].known, before, listed[m]) ELSE f[m - 1]
    BY <1>1, <2>2, <2>3, <2>6 DEF PassStep
  <2>9. ASSUME f[m].ok
        PROVE  /\ EventsSound(f[m].known, all)
               /\ \A j \in 1..m : Updated(f[m].known, listed[j])
    <3>1. f[m - 1].ok /\ f[m] = PersistAll(f[m - 1].known, before, listed[m])
      BY <2>8, <2>9
    <3>2. EventsSound(f[m - 1].known, all) /\ \A j \in 1..(m - 1) : Updated(f[m - 1].known, listed[j])
      BY <2>5, <3>1 DEF PassedSoundly
    <3>3. PersistAll(f[m - 1].known, before, listed[m]).ok
      BY <2>9, <3>1
    <3>4. /\ EventsSound(f[m].known, all) /\ GoesOn(f[m - 1].known, f[m].known)
          /\ Updated(f[m].known, listed[m])
      BY <2>7, <3>1, <3>2, <3>3, PersistAllKeeps
    <3>5. QED
      BY <2>4, <3>2, <3>4, UpdatedStays
  <2>10. QED
    BY <2>2, <2>9 DEF PassedSoundly
<1>3. QED
  BY <1>2

LEMMA ExtractionIsSound ==
    ASSUME NEW all, all \subseteq Observation, IsFiniteSet(all), NEW known, EventsSound(known, all),
           Extraction(known, all).ok
    PROVE  /\ EventsSound(Extraction(known, all).known, all)
           /\ \A obs \in all : Updated(Extraction(known, all).known, obs)
<1> DEFINE listed == Listed(all)
           n == Len(listed)
           passes == CHOOSE After : After =
               [i \in 0..Len(listed) |->
                  IF i = 0 THEN Fine(known)
                  ELSE LET last == After[i - 1]
                       IN  IF last.ok
                           THEN PersistAll(last.known, IF i = 1 THEN 0 ELSE listed[i - 1].rate, listed[i])
                           ELSE last]
<1>1. Extraction(known, all) = passes[n]
  BY DEF Extraction
<1>2. n \in Nat /\ listed \in [1..n -> all] /\ \A x \in all : \E i \in 1..n : listed[i] = x
  <2>1. /\ n \in Nat /\ \A i \in 1..n : listed[i] \in all
        /\ \A x \in all : \E i \in 1..n : listed[i] = x
    BY ListedIsAll
  <2>2. listed = [i \in 1..n |-> listed[i]]
    BY ListedIsAll
  <2>3. QED
    BY <2>1, <2>2
<1>3. Passes(known, listed, passes, n)
  <2> HIDE DEF listed, n
  <2>1. PICK f : Passes(known, listed, f, n)
    BY <1>2, PassesExist
  <2>2. f = [i \in 0..n |-> PassStep(known, listed, f, i)]
    BY <2>1 DEF Passes
  <2>3. passes = [i \in 0..n |-> PassStep(known, listed, passes, i)]
    BY <2>2, Zenon DEF PassStep, n
  <2>4. QED
    BY <2>3 DEF Passes
<1> HIDE DEF passes, listed, n
<1>4. PassedSoundly(passes[n], listed, n, all)
  BY <1>2, <1>3, PassesAreSound
<1>5. QED
  BY <1>1, <1>2, <1>4 DEF PassedSoundly

-----------------------------------------------------------------------------

ObservatoryRows ==
    /\ observations \subseteq Observation /\ IsFiniteSet(observations)
    /\ EventsSound(events, observations)

\* What an extraction made of what it read is still sound when it commits.
ObservatoryJob(j) ==
    /\ j.pc = "rate_commit" => j.row \in Observation
    /\ j.pc = "extract_commit" =>
          EventsSound(j.to, observations) /\ \A obs \in j.read : Updated(j.to, obs)

ObservatoryInv ==
    /\ part # "observatory" =>
          job = [o \in Operators |-> job[o]] /\ \A o \in Operators : Otherwise(Extracting, job[o])
    /\ part = "observatory" => SessionsOK /\ \A o \in Operators : ObservatoryJob(job[o])
    /\ ObservatoryRows

LEMMA ObservatoryPart ==
    ASSUME [Next]_vars
    PROVE  /\ part' = part
           /\ part # "observatory" => UNCHANGED observatoryVars
           /\ part = "observatory" =>
                 \/ \E o \in Operators : ObservatoryNext(o)
                 \/ (\E o \in Operators : Dies(o)) /\ UNCHANGED observatoryVars
                 \/ Tick /\ UNCHANGED observatoryVars
                 \/ UNCHANGED <<sessionVars, observatoryVars>>
BY DEF Next, vars, Lab, Study, Evolution, Source, Replay, Research, Campaign, Agents, Arrival, Outside, sourceVars

\* Observations are only added.
LEMMA ObservatoryJobStays ==
    ASSUME NEW j, ObservatoryJob(j), observations \subseteq observations'
    PROVE  ObservatoryJob(j)'
<1>1. \A known : EventsSound(known, observations) => EventsSound(known, observations')
  BY SoundAmongMore
<1>2. QED
  BY <1>1 DEF ObservatoryJob

LEMMA ObservatoryStep ==
    ASSUME ObservatoryInv, part = "observatory", part' = part, SessionsOK',
           observations \subseteq observations', ObservatoryRows',
           NEW o \in Operators, NEW j, job'[o] = j, ObservatoryJob(j)',
           \A q \in Operators : q # o => job'[q] = job[q]
    PROVE  ObservatoryInv'
<1>1. \A q \in Operators : ObservatoryJob(job[q])'
  <2> TAKE q \in Operators
  <2>1. CASE q = o
    BY <2>1 DEF ObservatoryJob
  <2>2. CASE q # o
    <3>1. PICK k : k = job[q]
      OBVIOUS
    <3>2. ObservatoryJob(k)'
      BY <3>1, ObservatoryJobStays DEF ObservatoryInv
    <3>3. job'[q] = k
      BY <2>2, <3>1
    <3>4. QED
      BY <3>2, <3>3 DEF ObservatoryJob
  <2>3. QED
    BY <2>1, <2>2
<1>2. QED
  BY <1>1 DEF ObservatoryInv

LEMMA IdleObserver == ObservatoryJob(Idle) /\ ObservatoryJob(Idle)'
BY DEF ObservatoryJob, Idle

\* The command is over, and has left the tables as they were.
LEMMA ObserverEnds ==
    ASSUME ObservatoryInv, part = "observatory", part' = part, NEW o \in Operators, Finish(o),
           UNCHANGED observatoryVars
    PROVE  ObservatoryInv'
<1>1. SessionsOK /\ ObservatoryRows' /\ observations' = observations
  BY DEF ObservatoryInv, ObservatoryRows, observatoryVars
<1>2. QED
  BY <1>1, IdleObserver, OneFinishes, ObservatoryStep

LEMMA ObservatoryNextKeeps ==
    ASSUME ObservatoryInv, part = "observatory", part' = part, NEW o \in Operators, ObservatoryNext(o)
    PROVE  ObservatoryInv'
<1>1. SessionsOK /\ ObservatoryRows /\ ObservatoryJob(job[o])
  BY DEF ObservatoryInv
<1>2. CASE BeginObserve(o)
  <2>1. PICK day \in 1..MaxDay, rate \in Rates :
            /\ Begin(o, [pc |-> "rate_commit", row |-> [day |-> day, at |-> now, rate |-> rate]])
            /\ UNCHANGED observatoryVars
    BY <1>2 DEF BeginObserve
  <2>2. [day |-> day, at |-> now, rate |-> rate] \in Observation
    BY <1>1 DEF SessionsOK, Observation
  <2>3. PICK j : j = [pc |-> "rate_commit", row |-> [day |-> day, at |-> now, rate |-> rate]]
    OBVIOUS
  <2>4. ObservatoryRows' /\ observations' = observations
    BY <1>1, <2>1 DEF observatoryVars, ObservatoryRows
  <2>5. ObservatoryJob(j)'
    <3>1. j.pc = "rate_commit" /\ j.row \in Observation
      BY <2>2, <2>3
    <3>2. QED
      BY <3>1 DEF ObservatoryJob, Observation, Time
  <2>6. SessionsOK' /\ job'[o] = j /\ \A q \in Operators : q # o => job'[q] = job[q]
    BY <1>1, <2>1, <2>3, OneBegins
  <2>7. QED
    BY <2>4, <2>5, <2>6, ObservatoryStep
<1>3. CASE CommitObservation(o)
  <2>1. /\ job[o].row \in Observation /\ observations' = observations \cup {job[o].row}
        /\ Learn(o, [pc |-> "extract"]) /\ events' = events
    BY <1>1, <1>3 DEF CommitObservation, At, ObservatoryJob
  <2>2. IsFiniteSet(observations')
    BY <1>1, <2>1, FS_AddElement DEF ObservatoryRows
  <2>3. EventsSound(events, observations')
    BY <1>1, <2>1, SoundAmongMore DEF ObservatoryRows
  <2>4. ObservatoryRows' /\ observations \subseteq observations'
    BY <1>1, <2>1, <2>2, <2>3 DEF ObservatoryRows
  <2>5. ObservatoryJob([pc |-> "extract"])'
    BY DEF ObservatoryJob
  <2>6. QED
    BY <1>1, <2>1, <2>4, <2>5, OneLearns, ObservatoryStep
<1>4. CASE Extract(o)
  <2>1. PICK run : run = Extraction(events, observations)
    OBVIOUS
  <2>2. /\ run.ok /\ UNCHANGED observatoryVars
        /\ Learn(o, [pc |-> "extract_commit", from |-> events, to |-> run.known, read |-> observations])
    BY <1>4, <2>1 DEF Extract
  <2>3. EventsSound(run.known, observations) /\ \A obs \in observations : Updated(run.known, obs)
    BY <1>1, <2>1, <2>2, ExtractionIsSound DEF ObservatoryRows
  <2>4. ObservatoryRows' /\ observations' = observations
    BY <1>1, <2>2 DEF observatoryVars, ObservatoryRows
  <2>5. PICK j : j = [pc |-> "extract_commit", from |-> events, to |-> run.known, read |-> observations]
    OBVIOUS
  <2>6. ObservatoryJob(j)'
    BY <2>3, <2>4, <2>5 DEF ObservatoryJob
  <2>7. SessionsOK' /\ job'[o] = j /\ \A q \in Operators : q # o => job'[q] = job[q]
    BY <1>1, <2>2, <2>5, OneLearns
  <2>8. QED
    BY <2>4, <2>6, <2>7, ObservatoryStep
<1>5. CASE CommitExtraction(o)
  <2>1. /\ EventsSound(job[o].to, observations) /\ Finish(o) /\ observations' = observations
        /\ events' = job[o].to \/ events' = events
    BY <1>1, <1>5 DEF CommitExtraction, At, ObservatoryJob
  <2>2. ObservatoryRows'
    BY <1>1, <2>1 DEF ObservatoryRows
  <2>3. QED
    BY <1>1, <2>1, <2>2, IdleObserver, OneFinishes, ObservatoryStep
<1>6. CASE ExtractRaises(o) \/ ExtractionRefused(o)
  BY <1>6, ObserverEnds DEF ExtractRaises, ExtractionRefused
<1>7. QED
  BY <1>2, <1>3, <1>4, <1>5, <1>6 DEF ObservatoryNext

LEMMA ObservatoryStarts == Init => ObservatoryInv
<1> SUFFICES ASSUME Init PROVE ObservatoryInv
  OBVIOUS
<1>1. observations = {} /\ events = << >>
  BY DEF Init, ObservatoryInit
<1>2. DOMAIN events = {}
  BY <1>1
<1>3. EventsSound(events, observations)
  BY <1>2 DEF EventsSound
<1>4. ObservatoryRows
  BY <1>1, <1>3, FS_EmptySet DEF ObservatoryRows
<1>5. Otherwise(Extracting, Idle)
  BY DEF Otherwise, Idle, Extracting
<1>6. QED
  BY <1>4, <1>5, DeskStarts, IdleObserver DEF ObservatoryInv, SessionsOK

\* In the parts that observe no rates.
LEMMA NoneExtracts ==
    ASSUME part # "observatory", [Next]_vars, \A o \in Operators : Otherwise(Extracting, job[o])
    PROVE  (\E o \in Operators : MovesOtherwise(Extracting, o)) \/ UNCHANGED job
<1>1. \/ \E o \in Operators : \/ LabNext(o) \/ PaperNext(o) \/ EvolutionNext(o) \/ MacroNext(o)
                              \/ MarketNext(o) \/ ReplayNext(o) \/ CampaignNext(o) \/ AgentsNext(o)
                              \/ BuildNext(o) \/ CompanyNext(o) \/ ResearchNext(o) \/ Finish(o)
      \/ UNCHANGED job
  BY DEF Next, vars, Lab, Study, Evolution, Source, Replay, Research, Campaign, Agents, Arrival,
     Outside, Dies, Tick, sessionVars
<1>2. \A o \in Operators : Otherwise({}, job[o])
  BY DEF Otherwise
<1>3. QED
  BY <1>1, <1>2, LabMovesOtherwise, PaperMovesOtherwise, EvolutionMovesOtherwise, MacroMovesOtherwise,
     MarketMovesOtherwise, ReplayMovesOtherwise, CampaignMovesOtherwise, AgentsMovesOtherwise,
     BuildersMoveOtherwise, EndsOtherwise, ManyMoveOtherwise

LEMMA ObservatoryKept == ObservatoryInv /\ [Next]_vars => ObservatoryInv'
<1> SUFFICES ASSUME ObservatoryInv, [Next]_vars PROVE ObservatoryInv'
  OBVIOUS
<1>1. part' = part
  BY ObservatoryPart
<1>2. ASSUME UNCHANGED observatoryVars
      PROVE  ObservatoryRows' /\ observations' = observations /\ \A j : ObservatoryJob(j) => ObservatoryJob(j)'
  BY <1>2 DEF ObservatoryInv, ObservatoryRows, observatoryVars, ObservatoryJob
<1>3. CASE part # "observatory"
  <2>1. ObservatoryRows'
    BY <1>2, <1>3, ObservatoryPart
  <2>2. job' = [o \in Operators |-> job'[o]] /\ \A o \in Operators : Otherwise(Extracting, job'[o])
    <3>1. CASE UNCHANGED job
      BY <1>3, <3>1 DEF ObservatoryInv
    <3>2. CASE \E o \in Operators : MovesOtherwise(Extracting, o)
      BY <1>3, <3>2 DEF ObservatoryInv, MovesOtherwise
    <3>3. QED
      BY <1>3, <3>1, <3>2, NoneExtracts DEF ObservatoryInv
  <2>3. QED
    BY <1>1, <1>3, <2>1, <2>2 DEF ObservatoryInv, Otherwise
<1>4. CASE part = "observatory"
  <2>1. ASSUME NEW o \in Operators, Dies(o), UNCHANGED observatoryVars PROVE ObservatoryInv'
    BY <1>1, <1>4, <2>1, ObserverEnds DEF Dies
  <2>2. ASSUME Tick \/ UNCHANGED sessionVars, UNCHANGED observatoryVars PROVE ObservatoryInv'
    <3>1. SessionsOK' /\ job' = job
      BY <1>4, <2>2, ClockTicks, NothingHappens DEF ObservatoryInv
    <3>2. QED
      BY <1>1, <1>2, <1>4, <2>2, <3>1 DEF ObservatoryInv
  <2>3. QED
    BY <1>1, <1>4, <2>1, <2>2, ObservatoryNextKeeps, ObservatoryPart
<1>5. QED
  BY <1>3, <1>4

\* Inductive: what an extraction commits was made of the events it read, and these are
\* the events still, or it commits nothing new.
THEOREM ObservatoryInductive == Spec => []ObservatoryInv
BY ObservatoryStarts, ObservatoryKept, PTL DEF Spec

\* Observations and events are of their types.
THEOREM ObservatoryTypes == Spec => []ObservatoryTypeOK
<1>1. ObservatoryInv => ObservatoryTypeOK
  BY DEF ObservatoryInv, ObservatoryRows, EventsSound, ObservatoryTypeOK
<1>2. QED
  BY <1>1, ObservatoryInductive, PTL

\* However late observations come and passes overlap, an event superseded was observed
\* before its successor and counts as superseded from then on, and what was extracted
\* supports its update (run_pending, add, transition).
THEOREM EventsStayKept == Spec => []EventsKeepTheirHistory
<1>1. ASSUME ObservatoryInv PROVE RevisionsSupersedeTheirPast
  <2> SUFFICES ASSUME NEW k \in DOMAIN events, events[k].supersedes # NoEvent
               PROVE  LET prior == events[k].supersedes IN
                      /\ prior \in DOMAIN events /\ prior \in SameIdentity(events, k)
                      /\ prior.says # k.says \/ ~prior.corrected
                      /\ events[prior].at < events[k].at
                      /\ \A cutoff \in Time : cutoff >= events[k].at =>
                             StatusAt(events[prior], cutoff) = "superseded"
    BY DEF RevisionsSupersedeTheirPast
  <2>1. PICK prior : prior = events[k].supersedes
    OBVIOUS
  <2>2. EventsSound(events, observations)
    BY <1>1 DEF ObservatoryInv, ObservatoryRows
  <2>3. /\ prior \in DOMAIN events /\ prior.kind = k.kind /\ prior.day = k.day
        /\ prior.says # k.says \/ ~prior.corrected
        /\ events[prior].at < events[k].at
        /\ \E i \in DOMAIN events[prior].transitions :
              events[prior].transitions[i] = [to |-> "superseded", at |-> events[k].at]
    BY <2>1, <2>2 DEF EventsSound, FollowsPast
  <2>4. events[prior] \in Record /\ HistoryOf(events[prior])
    BY <2>2, <2>3 DEF EventsSound
  <2>5. PICK i \in DOMAIN events[prior].transitions :
            /\ events[prior].transitions[i].to = "superseded"
            /\ events[prior].transitions[i].at = events[k].at
    BY <2>3
  <2>6. \A cutoff \in Time : events[k].at <= cutoff => StatusAt(events[prior], cutoff) = "superseded"
    BY <2>3, <2>4, <2>5, SupersededStays
  <2>7. events[k].at \in Time /\ Time \subseteq Nat
    BY <2>2, SessionsAssumption DEF EventsSound, Record, Time
  <2>8. \A cutoff \in Time : cutoff >= events[k].at => StatusAt(events[prior], cutoff) = "superseded"
    BY <2>6, <2>7
  <2>9. QED
    BY <2>1, <2>3, <2>8 DEF SameIdentity
<1>2. ASSUME ObservatoryInv PROVE ObservationsSupportWhatTheySay
  <2>1. ASSUME NEW o \in Operators, At(o, "extract_commit")
        PROVE  \A obs \in job[o].read :
                   \E k \in DOMAIN job[o].to : k.kind = "update" /\ obs \in job[o].to[k].support
    <3>1. part = "observatory"
      BY <1>2, <2>1 DEF ObservatoryInv, Otherwise, Extracting, At
    <3>2. \A obs \in job[o].read : Updated(job[o].to, obs)
      BY <1>2, <2>1, <3>1 DEF ObservatoryInv, ObservatoryJob, At
    <3>3. QED
      BY <3>2 DEF Updated
  <2>2. \A k \in DOMAIN events : \A obs \in events[k].support :
            obs \in observations /\ obs.day = k.day /\ Last(k.says) = obs.rate
    BY <1>2 DEF ObservatoryInv, ObservatoryRows, EventsSound, SupportSays
  <2>3. QED
    BY <2>1, <2>2 DEF ObservationsSupportWhatTheySay
<1>3. QED
  BY <1>1, <1>2, ObservatoryInductive, PTL DEF EventsKeepTheirHistory

=============================================================================
