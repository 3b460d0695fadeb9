---------------------------- MODULE LaboratoryProofs ----------------------------
(***************************************************************************)
(* Safety of the experiment laboratory and of the paper portfolios that    *)
(* are made of its specifications, for any number of commands that race,   *)
(* and of the backtests of its specifications, for any study.              *)
(* A row is checked by queries that precede its commit, so the invariant   *)
(* says what each process has established of the rows it will commit, and  *)
(* that what it has established stays so: rows are only ever added.        *)
(***************************************************************************)
EXTENDS ResearchDesk, CommandSessionsProofs, FiniteSetTheorems

-----------------------------------------------------------------------------
(* Specifications, accesses to the test window, and results.               *)

SpecSound(row) ==
    /\ row \in Specification
    /\ SpecAdmissible(row)
    /\ row.revision_of # 0 => row.revision_of \in DOMAIN specs

Accessed(i) == \E a \in accesses : a.spec = i

LabRows ==
    /\ LabTypeOK
    /\ \A i \in DOMAIN specs : SpecSound(specs[i])
    /\ \A r \in results :
          /\ r.spec \in DOMAIN specs /\ specs[r.spec].status = "validated"
          /\ r.cutoff >= TestEnd
          /\ Accessed(r.spec)

\* What a process of the laboratory has established.
LabJob(j) ==
    /\ j.pc \in {"spec_read", "spec_checked"} =>
          /\ j = [pc |-> j.pc, row |-> j.row]
          /\ SpecSound(j.row)
    /\ j.pc \in {"access_new", "engine"} =>
          /\ j = [pc |-> j.pc, spec |-> j.spec, at |-> j.at, cutoff |-> j.cutoff]
          /\ j.spec \in DOMAIN specs /\ j.at \in Time /\ j.cutoff \in Cutoffs
    /\ j.pc = "engine" => Accessed(j.spec)

-----------------------------------------------------------------------------
(* The versions of the portfolios.                                         *)

\* A version that revises one follows it, and it is there.
Continues(v) ==
    v.revision_of # 0 =>
        /\ v.revision_of = v.version - 1
        /\ \E u \in VersionsOf(v.portfolio) : u.version = v.revision_of /\ FollowsOn(u, v)

PaperRows ==
    /\ PaperTypeOK
    /\ \A v, w \in portfolios : SameKey(v, w) => v = w
    /\ \A v \in portfolios : Continues(v)

PaperJob(j) ==
    /\ j.pc = "creating" =>
          /\ j = [pc |-> j.pc, portfolio |-> j.portfolio, strategy |-> j.strategy, at |-> j.at]
          /\ j.portfolio \in Portfolios /\ j.strategy \in SpecId /\ j.at \in Time
    /\ j.pc = "inserting" =>
          /\ j.versions \subseteq Version /\ j.snapshots \subseteq Snapshot /\ j.audits \subseteq Audit
          /\ \A v, w \in j.versions : SameKey(v, w) => v = w
          /\ \A v \in j.versions : Continues(v)

LaboratoryInv ==
    /\ part = "lab" => SessionsOK /\ \A o \in Operators : LabJob(job[o]) /\ PaperJob(job[o])
    /\ LabRows
    /\ PaperRows

-----------------------------------------------------------------------------
(* The part of a step of the desk that the laboratory sees.                *)

LEMMA LaboratoryPart ==
    ASSUME [Next]_vars
    PROVE  /\ part' = part
           /\ part # "lab" => UNCHANGED <<labVars, paperVars>>
           /\ part = "lab" =>
                 \/ \E o \in Operators : LabNext(o) /\ UNCHANGED paperVars
                 \/ \E o \in Operators : PaperNext(o) /\ UNCHANGED labVars
                 \/ (\E o \in Operators : Dies(o)) /\ UNCHANGED <<labVars, paperVars>>
                 \/ Tick /\ UNCHANGED <<labVars, paperVars>>
                 \/ UNCHANGED <<sessionVars, labVars, paperVars>>
BY DEF Next, vars, Lab, Study, Evolution, Source, Replay, Research, Campaign, Agents, Arrival, Outside

\* Rows are only added, so what was established of them stays so.
LEMMA LabGrows ==
    ASSUME \A i \in DOMAIN specs : i \in DOMAIN specs' /\ specs'[i] = specs[i],
           accesses \subseteq accesses'
    PROVE  /\ \A row : SpecSound(row) => SpecSound(row)'
           /\ \A j : LabJob(j) => LabJob(j)'
<1>1. ASSUME NEW row, SpecSound(row) PROVE SpecSound(row)'
  BY <1>1 DEF SpecSound
<1>2. ASSUME NEW j, LabJob(j) PROVE LabJob(j)'
  BY <1>1, <1>2 DEF LabJob, Accessed
<1>3. QED
  BY <1>1, <1>2

\* Of the portfolios too.
LEMMA PaperGrows ==
    ASSUME portfolios \subseteq portfolios'
    PROVE  /\ \A v : Continues(v) => Continues(v)'
           /\ \A j : PaperJob(j) => PaperJob(j)'
<1>1. ASSUME NEW v, Continues(v) PROVE Continues(v)'
  BY <1>1 DEF Continues, VersionsOf
<1>2. QED
  BY <1>1 DEF PaperJob

LEMMA IdleJobs == LabJob(Idle) /\ PaperJob(Idle)
BY DEF LabJob, PaperJob, Idle

\* A step that changes no table needs only what its own process has established.
LEMMA LabJobStep ==
    ASSUME LaboratoryInv, part' = part, UNCHANGED <<labVars, paperVars>>, SessionsOK',
           NEW o \in Operators, LabJob(job'[o]), PaperJob(job'[o]),
           \A q \in Operators : q # o => job'[q] = job[q]
    PROVE  LaboratoryInv'
<1>1. LabRows' /\ PaperRows'
  BY DEF LaboratoryInv, LabRows, PaperRows, LabTypeOK, PaperTypeOK, labVars, paperVars, SpecSound,
         Accessed, Continues, VersionsOf
<1>2. \A j : /\ LabJob(j) => LabJob(j)'
             /\ PaperJob(j) => PaperJob(j)'
  BY LabGrows, PaperGrows DEF labVars, paperVars
<1>3. ASSUME part' = "lab", NEW q \in Operators PROVE LabJob(job[q])' /\ PaperJob(job[q])'
  <2>1. CASE q = o
    BY <1>2, <2>1
  <2>2. CASE q # o
    BY <1>2, <1>3, <2>2 DEF LaboratoryInv
  <2>3. QED
    BY <2>1, <2>2
<1>4. QED
  BY <1>1, <1>3 DEF LaboratoryInv

LEMMA LabFinishStep ==
    ASSUME LaboratoryInv, part = "lab", part' = part, UNCHANGED <<labVars, paperVars>>,
           NEW o \in Operators, Finish(o)
    PROVE  LaboratoryInv'
BY LabJobStep, OneFinishes, IdleJobs DEF LaboratoryInv

-----------------------------------------------------------------------------
(* The commands of the laboratory.                                         *)

LEMMA CreateSpecKeeps ==
    ASSUME LaboratoryInv, part = "lab", part' = part, NEW o \in Operators, CreateSpec(o), UNCHANGED paperVars
    PROVE  LaboratoryInv'
<1>1. PICK row :
          /\ row \in Specification /\ row.revision_of = 0
          /\ SpecAdmissible(row) /\ Begin(o, [pc |-> "spec_checked", row |-> row]) /\ UNCHANGED labVars
  BY WindowAssumption DEF CreateSpec, LaboratoryInv, SessionsOK, Specification
<1>2. LabJob([pc |-> "spec_checked", row |-> row]) /\ PaperJob([pc |-> "spec_checked", row |-> row])
  BY <1>1 DEF LabJob, PaperJob, SpecSound
<1>3. QED
  BY <1>1, <1>2, OneBegins, LabJobStep DEF LaboratoryInv

LEMMA ReviseSpecKeeps ==
    ASSUME LaboratoryInv, part = "lab", part' = part, NEW o \in Operators, ReviseSpec(o), UNCHANGED paperVars
    PROVE  LaboratoryInv'
<1>1. PICK i, s, c, row :
          /\ i \in DOMAIN specs /\ s \in {"proposed", "validated"} /\ c \in Cutoffs
          /\ row = [specs[i] EXCEPT !.created = now, !.status = s, !.cutoff = c,
                                    !.version = @ + 1, !.revision_of = i]
          /\ SpecAdmissible(row) /\ row.version <= MaxSpecs
          /\ Begin(o, [pc |-> "spec_read", row |-> row]) /\ UNCHANGED labVars
  BY DEF ReviseSpec
<1>2. /\ row \in Specification /\ row.revision_of = i /\ i # 0
  <2> i \in DOMAIN specs /\ s \in {"proposed", "validated"} /\ c \in Cutoffs
    BY <1>1
  <2>1. specs[i] \in Specification /\ i \in 1..MaxSpecs /\ now \in Time
    BY WindowAssumption DEF LaboratoryInv, LabRows, LabTypeOK, SessionsOK
  <2>2. row = [hypothesis |-> specs[i].hypothesis, created |-> now, cutoff |-> c, status |-> s,
               version |-> specs[i].version + 1, revision_of |-> i]
    BY <1>1, <2>1 DEF Specification
  <2>3. QED
    BY <1>1, <2>1, <2>2, WindowAssumption DEF Specification
<1>3. LabJob([pc |-> "spec_read", row |-> row]) /\ PaperJob([pc |-> "spec_read", row |-> row])
  BY <1>1, <1>2 DEF LabJob, PaperJob, SpecSound
<1>4. QED
  BY <1>1, <1>3, OneBegins, LabJobStep DEF LaboratoryInv

LEMMA CheckRevisionKeeps ==
    ASSUME LaboratoryInv, part = "lab", part' = part, NEW o \in Operators, CheckRevision(o), UNCHANGED paperVars
    PROVE  LaboratoryInv'
<1> DEFINE j == [job[o] EXCEPT !.pc = "spec_checked"]
<1>1. /\ job[o] = [pc |-> "spec_read", row |-> job[o].row]
      /\ SpecSound(job[o].row)
      /\ RevisionAllowed(job[o].row) /\ Learn(o, j) /\ UNCHANGED labVars
  BY DEF CheckRevision, At, Proceed, LaboratoryInv, LabJob
<1>2. j = [pc |-> "spec_checked", row |-> job[o].row]
  BY <1>1
<1>3. LabJob(j) /\ PaperJob(j)
  BY <1>1, <1>2 DEF LabJob, PaperJob
<1>4. QED
  BY <1>1, <1>3, OneLearns, LabJobStep DEF LaboratoryInv

LEMMA BeginBacktestKeeps ==
    ASSUME LaboratoryInv, part = "lab", part' = part, NEW o \in Operators, BeginBacktest(o), UNCHANGED paperVars
    PROVE  LaboratoryInv'
<1>1. PICK i \in DOMAIN specs, c \in Cutoffs :
          Begin(o, [pc |-> "access_new", spec |-> i, at |-> now, cutoff |-> c]) /\ UNCHANGED labVars
  BY DEF BeginBacktest
<1> DEFINE j == [pc |-> "access_new", spec |-> i, at |-> now, cutoff |-> c]
<1>2. LabJob(j) /\ PaperJob(j)
  BY DEF LabJob, PaperJob, LaboratoryInv, SessionsOK
<1>3. QED
  BY <1>1, <1>2, OneBegins, LabJobStep DEF LaboratoryInv

LEMMA RepeatAccessKeeps ==
    ASSUME LaboratoryInv, part = "lab", part' = part, NEW o \in Operators, RepeatAccess(o), UNCHANGED paperVars
    PROVE  LaboratoryInv'
<1> DEFINE j == [job[o] EXCEPT !.pc = "engine"]
<1>1. /\ job[o] = [pc |-> "access_new", spec |-> job[o].spec, at |-> job[o].at, cutoff |-> job[o].cutoff]
      /\ job[o].spec \in DOMAIN specs /\ job[o].at \in Time /\ job[o].cutoff \in Cutoffs
      /\ Accessed(job[o].spec)
      /\ Learn(o, j) \/ Finish(o)
      /\ UNCHANGED labVars
  BY DEF RepeatAccess, At, Proceed, LaboratoryInv, LabJob, Accessed
<1>2. LabJob(j) /\ PaperJob(j)
  BY <1>1 DEF LabJob, PaperJob
<1>3. QED
  BY <1>1, <1>2, OneLearns, LabJobStep, LabFinishStep DEF LaboratoryInv

\* A step that adds to the tables of the laboratory.
LEMMA LabRowStep ==
    ASSUME LaboratoryInv, part' = part, UNCHANGED paperVars, SessionsOK',
           \A i \in DOMAIN specs : i \in DOMAIN specs' /\ specs'[i] = specs[i],
           accesses \subseteq accesses', LabRows',
           NEW o \in Operators, LabJob(job[o])', PaperJob(job[o])',
           \A q \in Operators : q # o => job'[q] = job[q]
    PROVE  LaboratoryInv'
<1>1. PaperRows'
  BY DEF LaboratoryInv, PaperRows, PaperTypeOK, paperVars, Continues, VersionsOf
<1>2. \A j : LabJob(j) => LabJob(j)'
  BY LabGrows
<1>3. \A j : PaperJob(j) => PaperJob(j)'
  BY PaperGrows DEF paperVars
<1>4. ASSUME part' = "lab", NEW q \in Operators PROVE LabJob(job[q])' /\ PaperJob(job[q])'
  <2>1. CASE q = o
    BY <2>1
  <2>2. CASE q # o
    BY <1>2, <1>3, <1>4, <2>2 DEF LaboratoryInv
  <2>3. QED
    BY <2>1, <2>2
<1>5. QED
  BY <1>1, <1>4 DEF LaboratoryInv

\* A step that adds to the tables of the laboratory, and ends its command.
LEMMA LabRowEnd ==
    ASSUME LaboratoryInv, part = "lab", part' = part, UNCHANGED paperVars,
           \A i \in DOMAIN specs : i \in DOMAIN specs' /\ specs'[i] = specs[i],
           accesses \subseteq accesses', LabRows',
           NEW o \in Operators, Finish(o)
    PROVE  LaboratoryInv'
<1>1. job'[o] = Idle /\ SessionsOK' /\ \A q \in Operators : q # o => job'[q] = job[q]
  BY OneFinishes DEF LaboratoryInv
<1>2. LabJob(job[o])' /\ PaperJob(job[o])'
  BY <1>1 DEF LabJob, PaperJob, Idle
<1>3. QED
  BY <1>1, <1>2, LabRowStep

LEMMA CommitSpecKeeps ==
    ASSUME LaboratoryInv, part = "lab", part' = part, NEW o \in Operators, CommitSpec(o), UNCHANGED paperVars
    PROVE  LaboratoryInv'
<1> DEFINE row == job[o].row
<1>1. /\ SpecSound(row)
      /\ Len(specs) < MaxSpecs
      /\ specs' = specs \/ specs' = Append(specs, row)
      /\ Finish(o) /\ UNCHANGED <<accesses, results>>
  BY DEF CommitSpec, At, LaboratoryInv, LabJob
<1>2. /\ specs \in Seq(Specification) /\ row \in Specification
      /\ Len(specs) \in Nat /\ MaxSpecs \in Nat
  BY <1>1, WindowAssumption DEF LaboratoryInv, LabRows, LabTypeOK, SpecSound
<1>3. /\ specs' \in Seq(Specification) /\ Len(specs') <= MaxSpecs
      /\ \A i \in DOMAIN specs : i \in DOMAIN specs' /\ specs'[i] = specs[i]
      /\ \A i \in DOMAIN specs' : i \in DOMAIN specs \/ specs'[i] = row
  BY <1>1, <1>2
<1>4. /\ \A r : SpecSound(r) => SpecSound(r)'
  BY <1>1, <1>3, LabGrows
<1>5. LabRows'
  <2>1. LabTypeOK'
    BY <1>1, <1>3 DEF LaboratoryInv, LabRows, LabTypeOK
  <2>2. ASSUME NEW i \in DOMAIN specs' PROVE SpecSound(specs[i])'
    BY <1>1, <1>3, <1>4 DEF LaboratoryInv, LabRows
  <2>3. ASSUME NEW r \in results'
        PROVE  /\ r.spec \in DOMAIN specs' /\ specs'[r.spec].status = "validated"
               /\ r.cutoff >= TestEnd /\ Accessed(r.spec)'
    BY <1>1, <1>3 DEF LaboratoryInv, LabRows, Accessed
  <2>4. QED
    BY <2>1, <2>2, <2>3 DEF LabRows
<1>6. QED
  BY <1>1, <1>3, <1>5, LabRowEnd

LEMMA CommitAccessKeeps ==
    ASSUME LaboratoryInv, part = "lab", part' = part, NEW o \in Operators, CommitAccess(o), UNCHANGED paperVars
    PROVE  LaboratoryInv'
<1> DEFINE j == [job[o] EXCEPT !.pc = "engine"]
           access == [spec |-> job[o].spec, at |-> job[o].at]
<1>1. Learn(o, j)
  BY DEF CommitAccess, Proceed
<1>2. /\ job[o] = [pc |-> "access_new", spec |-> job[o].spec, at |-> job[o].at, cutoff |-> job[o].cutoff]
      /\ job[o].spec \in DOMAIN specs /\ job[o].at \in Time /\ job[o].cutoff \in Cutoffs
  BY DEF CommitAccess, At, LaboratoryInv, LabJob
<1>3. accesses' = accesses \cup {access} /\ specs' = specs /\ results' = results
  BY DEF CommitAccess
<1>4. access \in Access
  BY <1>2, WindowAssumption DEF LaboratoryInv, LabRows, LabTypeOK, Access, SpecId
<1>5. LabRows'
  BY <1>3, <1>4 DEF LaboratoryInv, LabRows, LabTypeOK, Accessed, SpecSound
<1>6. j = [pc |-> "engine", spec |-> job[o].spec, at |-> job[o].at, cutoff |-> job[o].cutoff]
  BY <1>2
<1>7. /\ job'[o] = [pc |-> "engine", spec |-> job[o].spec, at |-> job[o].at, cutoff |-> job[o].cutoff]
      /\ SessionsOK' /\ \A q \in Operators : q # o => job'[q] = job[q]
  BY <1>1, <1>6, OneLearns DEF LaboratoryInv
<1>8. Accessed(job[o].spec)'
  <2>1. access \in accesses' /\ access.spec = job'[o].spec
    BY <1>3, <1>7
  <2>2. QED
    BY <2>1 DEF Accessed
<1>9. LabJob(job[o])' /\ PaperJob(job[o])'
  BY <1>2, <1>3, <1>7, <1>8 DEF LabJob, PaperJob
<1>10. QED
  BY <1>3, <1>5, <1>7, <1>9, LabRowStep

LEMMA CommitResultKeeps ==
    ASSUME LaboratoryInv, part = "lab", part' = part, NEW o \in Operators, CommitResult(o), UNCHANGED paperVars
    PROVE  LaboratoryInv'
<1> DEFINE result == [spec |-> job[o].spec, cutoff |-> job[o].cutoff]
<1>1. /\ job[o].spec \in DOMAIN specs /\ job[o].cutoff \in Cutoffs /\ Accessed(job[o].spec)
      /\ specs[job[o].spec].status = "validated" /\ job[o].cutoff >= TestEnd
      /\ results' = results \cup {result}
      /\ Finish(o)
      /\ specs' = specs /\ accesses' = accesses
  BY DEF CommitResult, At, EngineRuns, LaboratoryInv, LabJob
<1>2. result \in Result
  BY <1>1, WindowAssumption DEF LaboratoryInv, LabRows, LabTypeOK, Result, SpecId
<1>3. LabRows'
  BY <1>1, <1>2 DEF LaboratoryInv, LabRows, LabTypeOK, Accessed, SpecSound
<1>4. QED
  BY <1>1, <1>3, LabRowEnd

LEMMA LabNextKeeps ==
    ASSUME LaboratoryInv, part = "lab", part' = part, NEW o \in Operators, LabNext(o), UNCHANGED paperVars
    PROVE  LaboratoryInv'
<1>1. CASE CreateSpec(o)
  BY <1>1, CreateSpecKeeps
<1>2. CASE ReviseSpec(o)
  BY <1>2, ReviseSpecKeeps
<1>3. CASE BeginBacktest(o)
  BY <1>3, BeginBacktestKeeps
<1>4. CASE CheckRevision(o)
  BY <1>4, CheckRevisionKeeps
<1>5. CASE RefuseRevision(o)
  BY <1>5, LabFinishStep DEF RefuseRevision
<1>6. CASE CommitSpec(o)
  BY <1>6, CommitSpecKeeps
<1>7. CASE CommitAccess(o)
  BY <1>7, CommitAccessKeeps
<1>8. CASE RepeatAccess(o)
  BY <1>8, RepeatAccessKeeps
<1>9. CASE CommitResult(o)
  BY <1>9, CommitResultKeeps
<1>10. CASE EngineRaises(o)
  BY <1>10, LabFinishStep DEF EngineRaises
<1>11. QED
  BY <1>1, <1>2, <1>3, <1>4, <1>5, <1>6, <1>7, <1>8, <1>9, <1>10 DEF LabNext

-----------------------------------------------------------------------------
(* The commands of the portfolios.                                         *)

\* A command that inserts rows of their types, each of which continues its portfolio.
LEMMA InsertingJob ==
    ASSUME NEW rows \in SUBSET Version, NEW snapshots \in SUBSET Snapshot, NEW audits \in SUBSET Audit,
           \A v, w \in rows : SameKey(v, w) => v = w,
           \A v \in rows : Continues(v)
    PROVE  LabJob(Inserting(rows, snapshots, audits)) /\ PaperJob(Inserting(rows, snapshots, audits))
BY DEF LabJob, PaperJob, Inserting

LEMMA BeginCreateKeeps ==
    ASSUME LaboratoryInv, part = "lab", part' = part, NEW o \in Operators, BeginCreate(o), UNCHANGED labVars
    PROVE  LaboratoryInv'
<1>1. PICK p \in Portfolios, i \in DOMAIN specs :
          /\ Begin(o, [pc |-> "creating", portfolio |-> p, strategy |-> i, at |-> now])
          /\ UNCHANGED paperVars
  BY DEF BeginCreate
<1> DEFINE j == [pc |-> "creating", portfolio |-> p, strategy |-> i, at |-> now]
<1>2. i \in SpecId /\ now \in Time
  BY WindowAssumption DEF LaboratoryInv, LabRows, LabTypeOK, SessionsOK, SpecId
<1>3. LabJob(j) /\ PaperJob(j)
  BY <1>2 DEF LabJob, PaperJob
<1>4. QED
  BY <1>1, <1>3, OneBegins, LabJobStep DEF LaboratoryInv

LEMMA CheckCreateKeeps ==
    ASSUME LaboratoryInv, part = "lab", part' = part, NEW o \in Operators, CheckCreate(o), UNCHANGED labVars
    PROVE  LaboratoryInv'
<1> DEFINE p == job[o].portfolio
           first == [portfolio |-> p, version |-> 1, status |-> "configured",
                     strategy |-> job[o].strategy, revision_of |-> 0]
           rows == IF VersionsOf(p) = {} THEN {first} ELSE {}
           snapshots == {[portfolio |-> p, at |-> job[o].at, initial |-> TRUE]}
           audits == {AuditOf(p, "create")}
<1>1. Learn(o, Inserting(rows, snapshots, audits)) /\ UNCHANGED paperVars
  BY DEF CheckCreate
<1>2. p \in Portfolios /\ job[o].strategy \in SpecId /\ job[o].at \in Time
  BY DEF CheckCreate, At, LaboratoryInv, PaperJob
<1>3. rows \in SUBSET Version /\ snapshots \in SUBSET Snapshot /\ audits \in SUBSET Audit
  BY <1>2, PortfolioAssumption DEF Version, Snapshot, Audit, AuditOf, Status
<1>4. /\ \A v, w \in rows : SameKey(v, w) => v = w
      /\ \A v \in rows : Continues(v)
  BY DEF Continues
<1>5. LabJob(Inserting(rows, snapshots, audits)) /\ PaperJob(Inserting(rows, snapshots, audits))
  BY <1>3, <1>4, InsertingJob
<1> HIDE DEF rows, snapshots, audits
<1>6. QED
  BY <1>1, <1>5, OneLearns, LabJobStep DEF LaboratoryInv

LEMMA BeginTransitionKeeps ==
    ASSUME LaboratoryInv, part = "lab", part' = part, NEW o \in Operators, BeginTransition(o), UNCHANGED labVars
    PROVE  LaboratoryInv'
<1>1. PICK v, s, row :
          /\ v \in portfolios /\ s \in Status
          /\ row = [v EXCEPT !.version = @ + 1, !.status = s, !.revision_of = v.version]
          /\ v.version < MaxVersions /\ s \in Allowed[v.status]
          /\ Begin(o, Inserting({row}, {}, {AuditOf(v.portfolio, s)}))
          /\ UNCHANGED paperVars
  BY DEF BeginTransition
<1> v \in portfolios /\ s \in Status
  BY <1>1
<1>2. v \in Version /\ now \in Time
  BY DEF LaboratoryInv, PaperRows, PaperTypeOK, SessionsOK
<1>3. row = [portfolio |-> v.portfolio, version |-> v.version + 1, status |-> s,
             strategy |-> v.strategy, revision_of |-> v.version]
  BY <1>1, <1>2 DEF Version
<1>4. row \in Version /\ AuditOf(v.portfolio, s) \in Audit
  BY <1>1, <1>2, <1>3, PortfolioAssumption DEF Version, Audit, AuditOf
<1>5. Continues(row)
  <2>1. v \in VersionsOf(row.portfolio) /\ v.version = row.revision_of /\ v.version = row.version - 1
    BY <1>2, <1>3 DEF VersionsOf, Version
  <2>2. FollowsOn(v, row)
    BY <1>1, <1>3 DEF FollowsOn
  <2>3. QED
    BY <2>1, <2>2 DEF Continues
<1>6. LabJob(Inserting({row}, {}, {AuditOf(v.portfolio, s)}))
      /\ PaperJob(Inserting({row}, {}, {AuditOf(v.portfolio, s)}))
  BY <1>4, <1>5, InsertingJob
<1>7. QED
  BY <1>1, <1>6, OneBegins, LabJobStep DEF LaboratoryInv

LEMMA BeginAddKeeps ==
    ASSUME LaboratoryInv, part = "lab", part' = part, NEW o \in Operators, BeginAdd(o), UNCHANGED labVars
    PROVE  LaboratoryInv'
<1>1. PICK row :
          /\ row \in Version /\ MayAdd(row)
          /\ Begin(o, Inserting({row}, {}, {}))
          /\ UNCHANGED paperVars
  <2>1. PICK p \in Portfolios, n \in 1..MaxVersions, s \in Status, i \in DOMAIN specs, r \in 0..MaxVersions :
            LET x == [portfolio |-> p, version |-> n, status |-> s, strategy |-> i, revision_of |-> r]
            IN  MayAdd(x) /\ Begin(o, Inserting({x}, {}, {})) /\ UNCHANGED paperVars
    BY DEF BeginAdd
  <2>2. i \in SpecId
    BY WindowAssumption DEF LaboratoryInv, LabRows, LabTypeOK, SpecId
  <2>3. QED
    BY <2>1, <2>2 DEF Version
<1>2. Continues(row)
  <2>1. CASE row.revision_of = 0
    BY <2>1 DEF Continues
  <2>2. ASSUME NEW v \in VersionsOf(row.portfolio),
               v.status = "configured", row.version = v.version + 1, row.revision_of = v.version
        PROVE  Continues(row)
    <3>1. v.version \in Nat
      BY DEF VersionsOf, LaboratoryInv, PaperRows, PaperTypeOK, Version
    <3>2. FollowsOn(v, row)
      BY <2>2 DEF FollowsOn
    <3>3. QED
      BY <2>2, <3>1, <3>2 DEF Continues
  <2>3. QED
    BY <1>1, <2>1, <2>2 DEF MayAdd
<1>3. LabJob(Inserting({row}, {}, {})) /\ PaperJob(Inserting({row}, {}, {}))
  BY <1>1, <1>2, InsertingJob
<1>4. QED
  BY <1>1, <1>3, OneBegins, LabJobStep DEF LaboratoryInv

LEMMA BeginStepKeeps ==
    ASSUME LaboratoryInv, part = "lab", part' = part, NEW o \in Operators, BeginStep(o), UNCHANGED labVars
    PROVE  LaboratoryInv'
<1>1. PICK v \in portfolios :
          Begin(o, Inserting({}, {}, {AuditOf(v.portfolio, "step")})) /\ UNCHANGED paperVars
  BY DEF BeginStep
<1>2. AuditOf(v.portfolio, "step") \in Audit
  BY DEF LaboratoryInv, PaperRows, PaperTypeOK, Version, Audit, AuditOf
<1>3. LabJob(Inserting({}, {}, {AuditOf(v.portfolio, "step")}))
      /\ PaperJob(Inserting({}, {}, {AuditOf(v.portfolio, "step")}))
  BY <1>2, InsertingJob
<1>4. QED
  BY <1>1, <1>3, OneBegins, LabJobStep DEF LaboratoryInv

LEMMA BeginSnapshotKeeps ==
    ASSUME LaboratoryInv, part = "lab", part' = part, NEW o \in Operators, BeginSnapshot(o), UNCHANGED labVars
    PROVE  LaboratoryInv'
<1>1. PICK v, t, snapshot :
          /\ v \in portfolios /\ t \in Time
          /\ snapshot = [portfolio |-> v.portfolio, at |-> t, initial |-> FALSE]
          /\ Begin(o, Inserting({}, {snapshot}, {})) /\ UNCHANGED paperVars
  BY DEF BeginSnapshot
<1>2. snapshot \in Snapshot
  BY <1>1 DEF LaboratoryInv, PaperRows, PaperTypeOK, Version, Snapshot
<1>3. LabJob(Inserting({}, {snapshot}, {})) /\ PaperJob(Inserting({}, {snapshot}, {}))
  BY <1>2, InsertingJob
<1>4. QED
  BY <1>1, <1>3, OneBegins, LabJobStep DEF LaboratoryInv

\* The primary key refuses what another command has inserted in between.
LEMMA CommitPaperKeeps ==
    ASSUME LaboratoryInv, part = "lab", part' = part, NEW o \in Operators, CommitPaper(o), UNCHANGED labVars
    PROVE  LaboratoryInv'
<1> DEFINE rows == job[o].versions
<1>1. /\ rows \subseteq Version /\ job[o].snapshots \subseteq Snapshot /\ job[o].audits \subseteq Audit
      /\ \A v, w \in rows : SameKey(v, w) => v = w
      /\ \A v \in rows : Continues(v)
      /\ ~Conflicts(rows)
      /\ portfolios' = portfolios \cup rows
      /\ account' = account \cup job[o].snapshots
      /\ journal' = journal \cup job[o].audits
      /\ Finish(o)
  BY DEF CommitPaper, At, LaboratoryInv, PaperJob
<1>2. PaperTypeOK'
  BY <1>1 DEF LaboratoryInv, PaperRows, PaperTypeOK
<1>3. ASSUME NEW v \in portfolios', NEW w \in portfolios', SameKey(v, w) PROVE v = w
  BY <1>1, <1>3 DEF LaboratoryInv, PaperRows, Conflicts, SameKey
<1>4. ASSUME NEW v \in portfolios' PROVE Continues(v)'
  BY <1>1, PaperGrows DEF LaboratoryInv, PaperRows
<1>5. PaperRows'
  BY <1>2, <1>3, <1>4 DEF PaperRows, SameKey
<1>6. /\ \A j : LabJob(j) => LabJob(j)'
      /\ \A j : PaperJob(j) => PaperJob(j)'
  BY <1>1, LabGrows, PaperGrows DEF labVars
<1>7. LabRows'
  BY DEF LaboratoryInv, LabRows, LabTypeOK, labVars, SpecSound, Accessed
<1>8. /\ SessionsOK' /\ job'[o] = Idle
      /\ \A q \in Operators : q # o => job'[q] = job[q]
  BY <1>1, OneFinishes DEF LaboratoryInv
<1>9. ASSUME NEW q \in Operators PROVE LabJob(job[q])' /\ PaperJob(job[q])'
  <2>1. CASE q = o
    BY <1>8, <2>1 DEF LabJob, PaperJob, Idle
  <2>2. CASE q # o
    BY <1>6, <1>8, <2>2 DEF LaboratoryInv
  <2>3. QED
    BY <2>1, <2>2
<1>10. QED
  BY <1>5, <1>7, <1>8, <1>9 DEF LaboratoryInv

LEMMA PaperNextKeeps ==
    ASSUME LaboratoryInv, part = "lab", part' = part, NEW o \in Operators, PaperNext(o), UNCHANGED labVars
    PROVE  LaboratoryInv'
<1>1. CASE BeginCreate(o)
  BY <1>1, BeginCreateKeeps
<1>2. CASE BeginTransition(o)
  BY <1>2, BeginTransitionKeeps
<1>3. CASE BeginAdd(o)
  BY <1>3, BeginAddKeeps
<1>4. CASE BeginStep(o)
  BY <1>4, BeginStepKeeps
<1>5. CASE BeginSnapshot(o)
  BY <1>5, BeginSnapshotKeeps
<1>6. CASE CheckCreate(o)
  BY <1>6, CheckCreateKeeps
<1>7. CASE RefuseCreate(o)
  BY <1>7, LabFinishStep DEF RefuseCreate
<1>8. CASE CommitPaper(o)
  BY <1>8, CommitPaperKeeps
<1>9. CASE LoseRace(o)
  BY <1>9, LabFinishStep DEF LoseRace
<1>10. QED
  BY <1>1, <1>2, <1>3, <1>4, <1>5, <1>6, <1>7, <1>8, <1>9 DEF PaperNext

-----------------------------------------------------------------------------
(* The invariant, and what follows from it.                                *)

LEMMA LaboratoryStarts == Init => LaboratoryInv
<1> SUFFICES ASSUME Init PROVE LaboratoryInv
  OBVIOUS
<1>1. SessionsOK /\ \A o \in Operators : job[o] = Idle
  <2>1. /\ SessionsInit(MaxCommands - CommandsOf[part])
        /\ MaxCommands - CommandsOf[part] \in Int
        /\ MaxCommands - CommandsOf[part] <= MaxCommands
    BY DeskAssumption, SessionsAssumption DEF Init
  <2>2. QED
    BY <2>1, SessionsStart
<1>2. \A o \in Operators : LabJob(job[o]) /\ PaperJob(job[o])
  BY <1>1, IdleJobs
<1>3. LabRows /\ PaperRows
  BY WindowAssumption DEF Init, LabInit, PaperInit, LabRows, LabTypeOK, PaperRows, PaperTypeOK
<1>4. QED
  BY <1>1, <1>2, <1>3 DEF LaboratoryInv

LEMMA LaboratoryKept == LaboratoryInv /\ [Next]_vars => LaboratoryInv'
<1> SUFFICES ASSUME LaboratoryInv, [Next]_vars PROVE LaboratoryInv'
  OBVIOUS
<1>1. part' = part
  BY LaboratoryPart
<1>2. ASSUME UNCHANGED <<labVars, paperVars>> PROVE LabRows' /\ PaperRows'
  BY <1>2 DEF LaboratoryInv, LabRows, PaperRows, LabTypeOK, PaperTypeOK, labVars, paperVars, SpecSound,
             Accessed, Continues, VersionsOf
<1>3. CASE part # "lab"
  BY <1>1, <1>2, <1>3, LaboratoryPart DEF LaboratoryInv
<1>4. CASE part = "lab"
  <2>1. ASSUME NEW o \in Operators, LabNext(o), UNCHANGED paperVars PROVE LaboratoryInv'
    BY <1>1, <1>4, <2>1, LabNextKeeps
  <2>2. ASSUME NEW o \in Operators, PaperNext(o), UNCHANGED labVars PROVE LaboratoryInv'
    BY <1>1, <1>4, <2>2, PaperNextKeeps
  <2>3. ASSUME NEW o \in Operators, Dies(o), UNCHANGED <<labVars, paperVars>> PROVE LaboratoryInv'
    BY <1>1, <1>4, <2>3, LabFinishStep DEF Dies
  <2>4. ASSUME Tick \/ UNCHANGED sessionVars, UNCHANGED <<labVars, paperVars>> PROVE LaboratoryInv'
    <3>1. SessionsOK' /\ job' = job
      BY <1>4, <2>4, ClockTicks, NothingHappens DEF LaboratoryInv
    <3>2. \A j : (LabJob(j) => LabJob(j)') /\ (PaperJob(j) => PaperJob(j)')
      BY <2>4, LabGrows, PaperGrows DEF labVars, paperVars
    <3>3. QED
      BY <1>2, <1>4, <2>4, <3>1, <3>2 DEF LaboratoryInv
  <2>5. QED
    BY <1>4, <2>1, <2>2, <2>3, <2>4, LaboratoryPart
<1>5. QED
  BY <1>3, <1>4

\* What every command of experiment/ and paper/ preserves: sessions that are in order,
\* the rows a session carries checked as the code checks them before it commits, and the
\* links from results and transitions to the rows they are of.
THEOREM LaboratoryInductive == Spec => []LaboratoryInv
BY LaboratoryStarts, LaboratoryKept, PTL DEF Spec

\* The tables of the laboratory and of the portfolios hold rows of their types: what
\* a command of experiment/ or paper/ commits is what it was checked to be.
THEOREM LaboratoryTypes == Spec => [](LabTypeOK /\ PaperTypeOK)
<1>1. LaboratoryInv => LabTypeOK /\ PaperTypeOK
  BY DEF LaboratoryInv, LabRows, PaperRows
<1>2. QED
  BY <1>1, LaboratoryInductive, PTL

\* Every result is out of sample: its specification was validated with what was known
\* in the research window, and a committed access preceded the run (BacktestEngine.run).
THEOREM ResultsAreOutOfSample == Spec => []ResultsOutOfSample
<1>1. LaboratoryInv => ResultsOutOfSample
  BY DEF LaboratoryInv, LabRows, SpecSound, SpecAdmissible, Accessed, ResultsOutOfSample
<1>2. QED
  BY <1>1, LaboratoryInductive, PTL

\* What an activation fixes of the versions after it.
Fixed(v, w) ==
    /\ w.strategy = v.strategy /\ w.status # "configured"
    /\ v.status \notin {"stopped", "completed"}

\* A version that follows one that is not configured keeps to it.
LEMMA StepFixes ==
    ASSUME NEW u, u.status \in Status, u.status # "configured", NEW w, FollowsOn(u, w)
    PROVE  Fixed(u, w)
BY DEF FollowsOn, Fixed, Status, Allowed

\* An activation fixes whatever follows it without a new beginning: the first version
\* that did not keep to it would follow one that does.
LEMMA ActivationFixes ==
    ASSUME PaperRows, NEW v \in portfolios, v.status # "configured",
           NEW w \in portfolios, v.portfolio = w.portfolio, v.version < w.version, ~BegunBetween(v, w)
    PROVE  Fixed(v, w)
<1> DEFINE Strays(x) == /\ x \in portfolios /\ x.portfolio = v.portfolio /\ v.version < x.version
                        /\ ~BegunBetween(v, x) /\ ~Fixed(v, x)
           S == {x.version : x \in {y \in portfolios : Strays(y)}}
<1>1. \A x \in portfolios : x.version \in Nat /\ x.revision_of \in Nat /\ x.status \in Status
  BY PortfolioAssumption DEF PaperRows, PaperTypeOK, Version
<1>2. SUFFICES ASSUME ~Fixed(v, w) PROVE FALSE
  OBVIOUS
<1>3. S \subseteq Nat /\ S # {}
  BY <1>1, <1>2
<1>4. PICK n \in S : \A m \in S : n <= m
  BY <1>3, LeastNatural
<1>5. PICK x \in portfolios : Strays(x) /\ x.version = n
  BY <1>4
<1>6. x.revision_of # 0
  BY <1>1, <1>5 DEF BegunBetween, VersionsOf
<1>7. PICK u \in VersionsOf(x.portfolio) : u.version = x.version - 1 /\ FollowsOn(u, x)
  BY <1>5, <1>6 DEF PaperRows, Continues
<1>8. u \in portfolios /\ u.portfolio = v.portfolio /\ v.version <= u.version /\ u.version < n
  BY <1>1, <1>5, <1>7 DEF VersionsOf
<1>9. CASE u.version = v.version
  <2>1. u = v
    BY <1>8, <1>9 DEF PaperRows, SameKey
  <2>2. QED
    BY <1>1, <1>5, <1>7, <2>1, StepFixes
<1>10. CASE u.version # v.version
  <2>1. v.version < u.version
    BY <1>1, <1>8, <1>10
  <2>2. ~BegunBetween(v, u)
    BY <1>1, <1>5, <1>8 DEF BegunBetween, VersionsOf
  <2>3. u.version \notin S
    BY <1>1, <1>4, <1>8
  <2>4. Fixed(v, u)
    BY <1>8, <2>1, <2>2, <2>3
  <2>5. Fixed(u, x)
    BY <1>1, <1>7, <1>8, <2>4, StepFixes DEF Fixed
  <2>6. Fixed(v, x)
    BY <2>4, <2>5 DEF Fixed
  <2>7. QED
    BY <1>5, <2>6
<1>11. QED
  BY <1>9, <1>10

\* The versions of a portfolio are one path of its lifecycle, and its configuration is
\* immutable once activated, whatever transitions and additions race for the next
\* version (transition, add_portfolio).
THEOREM LifecycleStaysAPath == Spec => []LifecycleIsAPath
<1>1. ASSUME LaboratoryInv PROVE LifecycleIsAPath
  <2>1. PaperRows
    BY <1>1 DEF LaboratoryInv
  <2>2. ASSUME NEW v \in portfolios, NEW w \in portfolios, v.portfolio = w.portfolio
        PROVE  /\ v.version = w.version => v = w
               /\ w.revision_of # 0 =>
                     /\ w.revision_of = w.version - 1
                     /\ \E u \in VersionsOf(w.portfolio) : u.version = w.revision_of /\ FollowsOn(u, w)
    BY <2>1, <2>2 DEF PaperRows, SameKey, Continues
  <2>3. QED
    BY <2>1, <2>2, ActivationFixes DEF LifecycleIsAPath, Fixed
<1>2. QED
  BY <1>1, LaboratoryInductive, PTL

-----------------------------------------------------------------------------
(* Backtests: positions, their sizes, and the drawdown.                    *)

LEMMA LeastOfSome ==
    ASSUME NEW S, S \subseteq Nat, S # {}
    PROVE  Least(S) \in S /\ \A y \in S : Least(S) <= y
BY LeastNatural DEF Least

\* What the engine multiplies is natural, and compares as its factors do.
LEMMA Times ==
    ASSUME NEW x \in Nat, NEW y \in Nat
    PROVE  x * y \in Nat
OBVIOUS

LEMMA TimesGrows ==
    ASSUME NEW x \in Nat, NEW y \in Int, NEW z \in Int, y <= z
    PROVE  x * y <= x * z
<1>1. PICK d \in Nat : z = y + d
  OBVIOUS
<1>2. x * z = x * y + x * d
  BY <1>1
<1>3. x * y \in Int /\ x * d \in Nat
  OBVIOUS
<1> QED
  BY <1>2, <1>3

\* Multiplying by a quantity neither makes nor hides that one side is the larger.
LEMMA TimesCompares ==
    ASSUME NEW x \in Nat \ {0}, NEW y \in Int, NEW z \in Int
    PROVE  x * y <= x * z <=> y <= z
<1>1. CASE y <= z
  BY <1>1, TimesGrows
<1>2. CASE ~(y <= z)
  <2>1. x * (z + 1) <= x * y
    BY <1>2, TimesGrows
  <2>2. x * (z + 1) = x * z + x
    OBVIOUS
  <2>3. x * y \in Int /\ x * z \in Int
    OBVIOUS
  <2> QED
    BY <1>2, <2>1, <2>2, <2>3
<1> QED
  BY <1>1, <1>2

\* The inputs of a study, once it runs.
StudySound ==
    /\ study.universe \in Universes /\ study.price \in [Day -> Prices]
    /\ study.entry \in {"open", "close"}

\* What PathsFollowTheRules says of one position.
FollowsTheRules(p) ==
    LET days == HeldOver(p)
    IN  /\ p.signal < p.entry /\ p.entry < p.exit
        /\ study.exit = "holding" => Cardinality(days) = Holding
        /\ study.exit \in {"stop", "profit"} =>
               /\ Cardinality(days) <= Holding
               /\ \A d \in days : Hit(p, d) => p.exit = Closes(d)
               /\ Cardinality(days) < Holding => \E d \in days : Hit(p, d)

\* What PurchasesWithinAllocation says of one position, entered with the cash before it.
WithinAllocation(p, before) ==
    /\ Len(study.universe) * (p.bought + Cost(p.bought)) <= p.before
    /\ p.before = before
    /\ p.nav \in Nat

CashBefore(i) == IF i = 1 THEN InitialCash ELSE paths[i - 1].nav

BacktestInv ==
    /\ outcome # "idle" => StudySound
    /\ outcome = "idle" => paths = <<>>
    /\ paths \in Seq({paths[i] : i \in DOMAIN paths})
    /\ cash \in Nat /\ cash = CashBefore(Len(paths) + 1)
    /\ \A i \in 1..Len(paths) : FollowsTheRules(paths[i]) /\ WithinAllocation(paths[i], CashBefore(i))

-----------------------------------------------------------------------------

LEMMA DaysAreNatural ==
    /\ Day \subseteq Nat \ {0}
    /\ \A d \in Day : Opens(d) \in Nat /\ Closes(d) \in Nat /\ Opens(d) < Closes(d) /\ EntryAt(d) \in Nat
    /\ \A d \in Day, e \in Day : Closes(d) <= Closes(e) <=> d <= e
    /\ \A d \in Day, e \in Day : Closes(d) = Closes(e) <=> d = e
BY BacktestAssumption DEF Day, Opens, Closes, EntryAt

\* The days a position was held over are the bars after its entry up to its exit.
LEMMA HeldDays ==
    ASSUME NEW d \in Day, NEW e \in Later(d), NEW p, p.entry = EntryAt(d), p.exit = Closes(e)
    PROVE  /\ HeldOver(p) = {b \in Later(d) : b <= e}
           /\ Cardinality(HeldOver(p)) = Held(d, e)
           /\ e \in HeldOver(p)
<1>1. e \in Day
  BY DEF Later
<1>2. HeldOver(p) = {b \in Later(d) : b <= e}
  BY <1>1, DaysAreNatural DEF HeldOver, Later
<1>3. e <= e
  BY <1>1, DaysAreNatural
<1> QED
  BY <1>2, <1>3 DEF Held

LEMMA HeldIsMonotone ==
    ASSUME NEW d \in Day, NEW b \in Later(d), NEW e \in Later(d), b <= e
    PROVE  Held(d, b) <= Held(d, e) /\ Held(d, b) \in Nat /\ Held(d, e) \in Nat
<1>1. b \in Day /\ e \in Day /\ Later(d) \subseteq Day
  BY DEF Later
<1>2. \A n : IsFiniteSet({x \in Later(d) : x <= n}) /\ Cardinality({x \in Later(d) : x <= n}) \in Nat
  <2> TAKE n
  <2>1. {x \in Later(d) : x <= n} \subseteq 1..Days
    BY <1>1 DEF Day
  <2>2. IsFiniteSet(1..Days)
    BY FS_Interval, BacktestAssumption
  <2>3. IsFiniteSet({x \in Later(d) : x <= n})
    BY <2>1, <2>2, FS_Subset
  <2> QED
    BY <2>3, FS_CardinalityType
<1>3. {x \in Later(d) : x <= b} \subseteq {x \in Later(d) : x <= e}
  <2>1. b \in Nat /\ e \in Nat /\ Later(d) \subseteq Nat
    BY <1>1, DaysAreNatural
  <2> QED
    BY <2>1
<1>4. Cardinality({x \in Later(d) : x <= b}) <= Cardinality({x \in Later(d) : x <= e})
  BY <1>2, <1>3, FS_Subset
<1> QED
  BY <1>2, <1>4 DEF Held

\* A position has reached its threshold on a day when the price has.
LEMMA HitIsReached ==
    ASSUME StudySound, NEW d \in Day, NEW e \in Day, NEW p, NEW q \in Nat \ {0},
           p.quantity = q, p.bought = q * study.price[d]
    PROVE  Hit(p, e) <=> Reached(d, e)
<1>1. PICK x \in Nat, y \in Nat, t \in Nat : x = study.price[d] /\ y = study.price[e] /\ t = Threshold
  BY BacktestAssumption DEF StudySound
<1>2. PICK w \in Nat, z \in Nat : w = q * x /\ z = q * y
  BY Times
<1>3. Percent(p, e) = q * (100 * (y - x))
  <2>1. 100 * q * y = 100 * z
    BY <1>2
  <2>2. Percent(p, e) = 100 * z - 100 * w
    BY <1>1, <1>2, <2>1 DEF Percent
  <2>3. q * (100 * (y - x)) = 100 * (q * y) - 100 * (q * x)
    OBVIOUS
  <2> QED
    BY <1>2, <2>2, <2>3
<1>4. Threshold * p.bought = q * (t * x) /\ (-Threshold) * p.bought = q * ((-t) * x)
  <2>1. t * (q * x) = q * (t * x)
    OBVIOUS
  <2>2. (-t) * (q * x) = q * ((-t) * x)
    OBVIOUS
  <2> QED
    BY <1>1, <2>1, <2>2
<1>5. t * x \in Int /\ (-t) * x \in Int /\ 100 * (y - x) \in Int
  OBVIOUS
<1>6. q * (100 * (y - x)) <= q * ((-t) * x) <=> 100 * (y - x) <= (-t) * x
  BY <1>5, TimesCompares
<1>7. q * (t * x) <= q * (100 * (y - x)) <=> t * x <= 100 * (y - x)
  BY <1>5, TimesCompares
<1>8. Hit(p, e) <=> IF study.exit = "stop" THEN q * (100 * (y - x)) <= q * ((-t) * x)
                    ELSE q * (t * x) <= q * (100 * (y - x))
  <2>1. q * (t * x) \in Int /\ q * (100 * (y - x)) \in Int
    BY <1>5
  <2> QED
    BY <1>3, <1>4, <2>1 DEF Hit
<1>9. Reached(d, e) <=> IF study.exit = "stop" THEN 100 * (y - x) <= (-t) * x
                        ELSE t * x <= 100 * (y - x)
  BY <1>1, <1>5 DEF Reached
<1> QED
  BY <1>6, <1>7, <1>8, <1>9

LEMMA DividesWithin ==
    ASSUME NEW x \in Nat, NEW n \in Nat \ {0}
    PROVE  x \div n \in Nat /\ n * (x \div n) <= x
OBVIOUS

LEMMA CostsAreNatural ==
    ASSUME NEW n \in Nat
    PROVE  Cost(n) \in Nat
<1>1. PICK x \in Nat, y \in Nat : x = n * CommissionPercent /\ y = n * SpreadPercent
  BY Times, BacktestAssumption
<1>2. x \div 100 \in Nat /\ y \div 100 \in Nat
  OBVIOUS
<1> QED
  BY <1>1, <1>2, BacktestAssumption DEF Cost, Larger

LEMMA AffordableIsNatural ==
    ASSUME NEW a \in Int, NEW n \in Nat \ {0}
    PROVE  Affordable(a, n) \in Nat
BY DividesWithin DEF Affordable

LEMMA QuantityIsNatural ==
    ASSUME NEW n \in Nat \ {0}, Allocation \in Nat
    PROVE  Quantity(n) \in Nat
<1>1. PICK first \in Nat : first = Affordable(Allocation, n)
  BY AffordableIsNatural
<1>2. PICK fee \in Nat : fee = Cost(first * n)
  BY Times, CostsAreNatural
<1>3. Affordable(Allocation - fee, n) \in Nat
  BY AffordableIsNatural
<1> QED
  BY <1>1, <1>2, <1>3 DEF Quantity

-----------------------------------------------------------------------------

LEMMA PositionsAreTyped ==
    ASSUME StudySound, NEW d \in Day, NEW s \in Signal, study.price[d] > 0
    PROVE  /\ s.at \in Nat
           /\ study.price[d] \in Nat \ {0}
           /\ Len(study.universe) \in Nat \ {0}
<1>1. study.price[d] \in Nat \ {0}
  <2>1. Prices \subseteq Nat
    BY BacktestAssumption
  <2>2. PICK x : x \in Prices /\ x = study.price[d]
    BY DEF StudySound
  <2>3. x \in Nat /\ x > 0
    BY <2>1, <2>2
  <2> QED
    BY <2>2, <2>3
<1>2. Len(study.universe) \in Nat \ {0}
  <2>1. \A universe \in Universes : Len(universe) \in Nat \ {0}
    BY BacktestAssumption
  <2> QED
    BY <2>1 DEF StudySound
<1>3. s.at \in Nat
  <2>1. SignalTimes \subseteq Nat
    BY BacktestAssumption
  <2>2. PICK u \in Universes : s \in SignalOf(u)
    BY DEF Signal
  <2>3. s.at \in SignalTimes
    BY <2>2 DEF SignalOf
  <2> QED
    BY <2>1, <2>3
<1> QED
  BY <1>1, <1>2, <1>3

\* Whatever ends a position, it ends on a bar after its entry.
LEMMA ExitsAreLater ==
    ASSUME NEW d \in Day, ExitDays(d) # {}
    PROVE  /\ Least(ExitDays(d)) \in ExitDays(d) /\ Least(ExitDays(d)) \in Later(d)
           /\ \A e \in ExitDays(d) : Least(ExitDays(d)) <= e
<1>1. ExitDays(d) \subseteq Later(d)
  BY DEF ExitDays, Triggered, BarNumber
<1>2. Later(d) \subseteq Nat
  BY DaysAreNatural DEF Later
<1> QED
  BY <1>1, <1>2, LeastOfSome

\* A position that is opened is entered, held and left as the rules say.
LEMMA OpenedByTheRules ==
    ASSUME StudySound, cash \in Nat, NEW s \in Signal, NEW d \in Day, NEW p, Filled(s, d, p)
    PROVE  FollowsTheRules(p)
<1> DEFINE e == Least(ExitDays(d))
<1>1. /\ EntryDays(s) # {} /\ d = Least(EntryDays(s)) /\ study.price[d] > 0
      /\ ExitDays(d) # {}
      /\ p = Path(s, d, e, Quantity(study.price[d])) /\ p.quantity > 0
      /\ p.bought + Cost(p.bought) <= Allocation
  BY DEF Filled, Enterable
<1>2. s.at \in Nat /\ study.price[d] \in Nat \ {0}
  BY <1>1, PositionsAreTyped
<1>3. s.at < EntryAt(d)
  <2>1. EntryDays(s) \subseteq Nat
    BY DaysAreNatural DEF EntryDays
  <2>2. d \in EntryDays(s)
    BY <1>1, <2>1, LeastOfSome
  <2> QED
    BY <1>2, <2>2, DaysAreNatural DEF EntryDays
<1>4. e \in ExitDays(d) /\ e \in Later(d) /\ \A x \in ExitDays(d) : e <= x
  BY <1>1, ExitsAreLater
<1>5. PICK q : q = Quantity(study.price[d])
  OBVIOUS
<1>6. /\ p.signal = s.at /\ p.entry = EntryAt(d) /\ p.exit = Closes(e)
      /\ p.quantity = q /\ p.bought = q * study.price[d]
  BY <1>1, <1>5 DEF Path
<1> HIDE DEF e
<1>7. q \in Nat \ {0}
  <2>1. Allocation \in Nat
    BY <1>1, PositionsAreTyped, DividesWithin DEF Allocation
  <2> QED
    BY <1>1, <1>2, <1>5, <1>6, <2>1, QuantityIsNatural
<1>8. /\ HeldOver(p) = {b \in Later(d) : b <= e}
      /\ Cardinality(HeldOver(p)) = Held(d, e)
      /\ e \in HeldOver(p)
  BY <1>4, <1>6, HeldDays
<1>9. e \in Day /\ Later(d) \subseteq Day /\ EntryAt(d) < Closes(e)
  BY <1>4, DaysAreNatural DEF Later
<1>10. ASSUME NEW b \in HeldOver(p)
       PROVE  /\ b \in Later(d) /\ b \in Day /\ b <= e
              /\ Held(d, b) <= Held(d, e) /\ Held(d, b) \in Nat /\ Held(d, e) \in Nat
              /\ Hit(p, b) <=> Reached(d, b)
  <2>1. b \in Later(d) /\ b \in Day /\ b <= e
    BY <1>8, <1>9
  <2>2. Held(d, b) <= Held(d, e) /\ Held(d, b) \in Nat /\ Held(d, e) \in Nat
    BY <1>4, <2>1, HeldIsMonotone
  <2>3. Hit(p, b) <=> Reached(d, b)
    BY <1>6, <1>7, <2>1, HitIsReached
  <2> QED
    BY <2>1, <2>2, <2>3
<1>11. ASSUME study.exit = "holding"
       PROVE  Cardinality(HeldOver(p)) = Holding
  BY <1>4, <1>8, <1>11 DEF ExitDays, BarNumber
<1>12. ASSUME study.exit \in {"stop", "profit"}
       PROVE  /\ Cardinality(HeldOver(p)) <= Holding
              /\ \A b \in HeldOver(p) : Hit(p, b) => p.exit = Closes(b)
              /\ Cardinality(HeldOver(p)) < Holding => \E b \in HeldOver(p) : Hit(p, b)
  <2>1. CASE Triggered(d) # {}
    <3>1. ExitDays(d) = Triggered(d)
      BY <1>12, <2>1 DEF ExitDays
    <3>2. Held(d, e) <= Holding /\ Reached(d, e)
      BY <1>4, <3>1 DEF Triggered
    <3>3. ASSUME NEW b \in HeldOver(p), Hit(p, b)
          PROVE  b = e
      <4>1. Held(d, b) <= Holding
        BY <1>10, <3>2, BacktestAssumption
      <4>2. b \in Triggered(d)
        BY <1>10, <3>3, <4>1 DEF Triggered
      <4> QED
        <5>1. e <= b /\ b <= e
          BY <1>4, <1>10, <3>1, <4>2
        <5>2. e \in Nat /\ b \in Nat
          BY <1>9, <1>10, DaysAreNatural
        <5> QED
          BY <5>1, <5>2
    <3> QED
      BY <1>6, <1>8, <1>10, <3>2, <3>3
  <2>2. CASE Triggered(d) = {}
    <3>1. ExitDays(d) = BarNumber(d, Holding)
      BY <1>12, <2>2 DEF ExitDays
    <3>2. Held(d, e) = Holding
      BY <1>4, <3>1 DEF BarNumber
    <3>3. ASSUME NEW b \in HeldOver(p), Hit(p, b)
          PROVE  FALSE
      BY <1>10, <2>2, <3>2, <3>3 DEF Triggered
    <3> QED
      BY <1>8, <3>2, <3>3, BacktestAssumption
  <2> QED
    BY <2>1, <2>2
<1> QED
  BY <1>3, <1>6, <1>9, <1>11, <1>12 DEF FollowsTheRules

\* It is bought within its share of the cash, and leaves what its path says.
LEMMA OpenedWithinTheCash ==
    ASSUME StudySound, cash \in Nat, NEW s \in Signal, NEW d \in Day, NEW p,
           Filled(s, d, p), p.nav >= 0
    PROVE  WithinAllocation(p, cash)
<1> DEFINE e == Least(ExitDays(d))
<1>1. /\ study.price[d] > 0 /\ ExitDays(d) # {}
      /\ p = Path(s, d, e, Quantity(study.price[d])) /\ p.quantity > 0
      /\ p.bought + Cost(p.bought) <= Allocation
  BY DEF Filled, Enterable
<1>2. /\ study.price[d] \in Nat \ {0} /\ Len(study.universe) \in Nat \ {0}
  BY <1>1, PositionsAreTyped
<1>3. e \in Day
  BY <1>1, ExitsAreLater DEF Later
<1>4. study.price[e] \in Nat
  BY <1>3, BacktestAssumption DEF StudySound
<1>5. Allocation \in Nat /\ Len(study.universe) * Allocation <= cash
  BY <1>2, DividesWithin DEF Allocation
<1>6. PICK q \in Nat : q = Quantity(study.price[d])
  BY <1>2, <1>5, QuantityIsNatural
<1>7. PICK bought \in Nat, sold \in Nat : bought = q * study.price[d] /\ sold = q * study.price[e]
  BY <1>2, <1>4, Times
<1> HIDE DEF e
<1>8. /\ p.bought = bought /\ p.before = cash
      /\ p.nav = cash + sold - bought - Cost(bought) - Cost(sold)
  BY <1>1, <1>6, <1>7 DEF Path
<1>9. Cost(bought) \in Nat /\ Cost(sold) \in Nat
  BY CostsAreNatural
<1>10. p.nav \in Nat
  BY <1>8, <1>9
<1>11. Len(study.universe) * (bought + Cost(bought)) <= Len(study.universe) * Allocation
  BY <1>1, <1>2, <1>5, <1>8, <1>9, TimesGrows
<1>12. Len(study.universe) * (bought + Cost(bought)) \in Nat /\ Len(study.universe) * Allocation \in Nat
  BY <1>2, <1>5, <1>9, Times
<1> QED
  BY <1>5, <1>8, <1>10, <1>11, <1>12 DEF WithinAllocation

-----------------------------------------------------------------------------

\* A sequence, written of its own elements.
LEMMA OfItsElements ==
    ASSUME NEW S, NEW s \in Seq(S)
    PROVE  s \in Seq({s[i] : i \in DOMAIN s})
<1>1. DOMAIN s = 1..Len(s) /\ Len(s) \in Nat /\ s \in [1..Len(s) -> S]
  OBVIOUS
<1>2. PICK elements : elements = {s[i] : i \in DOMAIN s}
  OBVIOUS
<1>3. s \in [1..Len(s) -> elements]
  BY <1>1, <1>2
<1>4. s \in Seq(elements)
  BY <1>1, <1>3
<1> QED
  BY <1>2, <1>4

LEMMA OneMore ==
    ASSUME NEW S, NEW s \in Seq(S), NEW p
    PROVE  /\ Append(s, p) \in Seq({Append(s, p)[i] : i \in DOMAIN Append(s, p)})
           /\ Len(s) \in Nat /\ Len(Append(s, p)) = Len(s) + 1
           /\ \A i \in 1..Len(s) : Append(s, p)[i] = s[i]
           /\ Append(s, p)[Len(s) + 1] = p
<1>1. s \in Seq(S \cup {p})
  OBVIOUS
<1>2. Append(s, p) \in Seq(S \cup {p})
  BY <1>1
<1> QED
  BY <1>2, OfItsElements

\* Only the engine touches the study, its cash and its positions.
LEMMA OnlyTheEngine ==
    ASSUME [Next]_vars
    PROVE  BacktestNext \/ UNCHANGED backtestVars
BY DEF Next, vars, Study, Lab, Evolution, Source, Replay, Research, Campaign, Agents, Arrival, Outside

LEMMA BacktestStarts == Init => BacktestInv
<1> SUFFICES ASSUME Init PROVE BacktestInv
  OBVIOUS
<1>1. cash = InitialCash /\ paths = <<>> /\ outcome = "idle"
  BY DEF Init, BacktestInit
<1>2. Len(paths) = 0 /\ paths \in Seq({paths[i] : i \in DOMAIN paths})
  BY <1>1
<1> QED
  BY <1>1, <1>2, BacktestAssumption DEF BacktestInv, CashBefore

\* A step that changes neither the study nor a position leaves the engine's invariant.
LEMMA PositionsStay ==
    ASSUME BacktestInv, UNCHANGED <<study, cash, paths>>, outcome' # "idle", outcome # "idle"
    PROVE  BacktestInv'
<1>1. StudySound'
  BY DEF BacktestInv, StudySound
<1>2. ASSUME NEW i \in 1..Len(paths)
      PROVE  /\ FollowsTheRules(paths[i])'
             /\ WithinAllocation(paths[i], CashBefore(i))'
  <2>1. FollowsTheRules(paths[i]) /\ WithinAllocation(paths[i], CashBefore(i))
    BY DEF BacktestInv
  <2>2. FollowsTheRules(paths[i])'
    BY <2>1 DEF FollowsTheRules, HeldOver, Hit, Percent
  <2>3. WithinAllocation(paths[i], CashBefore(i))'
    BY <2>1 DEF WithinAllocation, CashBefore
  <2> QED
    BY <2>2, <2>3
<1>3. cash' \in Nat /\ (cash = CashBefore(Len(paths) + 1))'
  BY DEF BacktestInv, CashBefore
<1>4. (paths \in Seq({paths[i] : i \in DOMAIN paths}))'
  BY DEF BacktestInv
<1> QED
  BY <1>1, <1>2, <1>3, <1>4 DEF BacktestInv

LEMMA ExecuteKeeps ==
    ASSUME BacktestInv, Execute
    PROVE  BacktestInv'
<1>1. PICK s, d, p :
        /\ s \in Signal /\ d \in Day
        /\ outcome = "running" /\ Filled(s, d, p) /\ p.nav >= 0
        /\ cash' = p.nav /\ paths' = Append(paths, p)
        /\ UNCHANGED <<study, outcome>>
  BY DEF Execute, Take
<1>2. StudySound /\ cash \in Nat /\ cash = CashBefore(Len(paths) + 1)
  BY <1>1 DEF BacktestInv
<1>3. FollowsTheRules(p) /\ WithinAllocation(p, cash)
  BY <1>1, <1>2, OpenedByTheRules, OpenedWithinTheCash
<1>4. /\ paths' \in Seq({paths'[i] : i \in DOMAIN paths'})
      /\ Len(paths) \in Nat /\ Len(paths') = Len(paths) + 1
      /\ \A i \in 1..Len(paths) : paths'[i] = paths[i]
      /\ paths'[Len(paths) + 1] = p
  BY <1>1, OneMore DEF BacktestInv
<1>5. StudySound'
  BY <1>1, <1>2 DEF StudySound
<1>6. cash' \in Nat /\ (cash = CashBefore(Len(paths) + 1))'
  BY <1>1, <1>3, <1>4 DEF CashBefore, WithinAllocation
<1>7. ASSUME NEW i \in 1..Len(paths')
      PROVE  /\ FollowsTheRules(paths[i])'
             /\ WithinAllocation(paths[i], CashBefore(i))'
  <2>1. PICK x : x = paths'[i]
    OBVIOUS
  <2>2. FollowsTheRules(x) /\ WithinAllocation(x, CashBefore(i))
    <3>1. CASE i = Len(paths) + 1
      BY <1>2, <1>3, <1>4, <2>1, <3>1
    <3>2. CASE i # Len(paths) + 1
      <4>1. i \in 1..Len(paths) /\ x = paths[i]
        BY <1>4, <2>1, <3>2
      <4> QED
        BY <4>1 DEF BacktestInv
    <3> QED
      BY <3>1, <3>2
  <2>3. FollowsTheRules(paths[i])'
    BY <1>1, <2>1, <2>2 DEF FollowsTheRules, HeldOver, Hit, Percent
  <2>4. CashBefore(i)' = CashBefore(i)
    <3>1. i # 1 => i - 1 \in 1..Len(paths)
      BY <1>4
    <3> QED
      BY <1>4, <3>1 DEF CashBefore
  <2>5. WithinAllocation(paths[i], CashBefore(i))'
    BY <1>1, <2>1, <2>2, <2>4 DEF WithinAllocation
  <2> QED
    BY <2>3, <2>5
<1> QED
  BY <1>1, <1>4, <1>5, <1>6, <1>7 DEF BacktestInv

LEMMA StartStudyKeeps ==
    ASSUME BacktestInv, StartStudy
    PROVE  BacktestInv'
<1>1. outcome' = "running" /\ UNCHANGED <<cash, paths>> /\ paths = <<>>
  BY DEF StartStudy, BacktestInv
<1>2. StudySound'
  BY DEF StartStudy, StudySound
<1>3. Len(paths') = 0 /\ paths' \in Seq({paths'[i] : i \in DOMAIN paths'})
  BY <1>1
<1>4. cash' \in Nat /\ (cash = CashBefore(Len(paths) + 1))'
  BY <1>1 DEF BacktestInv, CashBefore
<1> QED
  BY <1>1, <1>2, <1>3, <1>4 DEF BacktestInv

LEMMA BacktestKept == BacktestInv /\ [Next]_vars => BacktestInv'
<1> SUFFICES ASSUME BacktestInv, [Next]_vars PROVE BacktestInv'
  OBVIOUS
<1>1. CASE UNCHANGED backtestVars
  <2>1. CASE outcome = "idle"
    <3>1. /\ paths = <<>> /\ UNCHANGED <<cash, paths, outcome>>
      BY <1>1, <2>1 DEF BacktestInv, backtestVars
    <3>2. Len(paths') = 0 /\ paths' \in Seq({paths'[i] : i \in DOMAIN paths'})
      BY <3>1
    <3>3. cash' \in Nat /\ (cash = CashBefore(Len(paths) + 1))'
      BY <3>1 DEF BacktestInv, CashBefore
    <3> QED
      BY <2>1, <3>1, <3>2, <3>3 DEF BacktestInv
  <2>2. CASE outcome # "idle"
    BY <1>1, <2>2, PositionsStay DEF backtestVars
  <2> QED
    BY <2>1, <2>2
<1>2. CASE BacktestNext
  <2>1. CASE StartStudy
    BY <2>1, StartStudyKeeps
  <2>2. CASE SkipUnsatisfied
    BY <2>2, PositionsStay DEF SkipUnsatisfied, Take, Skip
  <2>3. CASE RaiseAtEntry
    BY <2>3, PositionsStay DEF RaiseAtEntry, Take, Raise
  <2>4. CASE SkipUnfilled
    BY <2>4, PositionsStay DEF SkipUnfilled, Take, Skip
  <2>5. CASE Execute
    BY <2>5, ExecuteKeeps
  <2>6. CASE RaiseMargin
    BY <2>6, PositionsStay DEF RaiseMargin, Take, Raise
  <2>7. CASE Report
    BY <2>7, PositionsStay DEF Report
  <2> QED
    BY <1>2, <2>1, <2>2, <2>3, <2>4, <2>5, <2>6, <2>7 DEF BacktestNext
<1> QED
  BY <1>1, <1>2, OnlyTheEngine

-----------------------------------------------------------------------------

\* The value of the portfolio after its i-th position.
ValueAt(nav, i) == IF i = 0 THEN InitialCash ELSE nav[i]

ScanStep(nav, f, i) ==
    IF i = 0 THEN [peak |-> InitialCash, worst |-> <<1, 1>>]
    ELSE LET peak == Larger(f[i - 1].peak, nav[i])
         IN  [peak |-> peak, worst |-> DeeperFall(f[i - 1].worst, <<nav[i], peak>>)]

Scans(nav, f, n) == f = [i \in 0..n |-> ScanStep(nav, f, i)]

\* The peak is that of the values seen, and the fall the deepest between any two.
IsPeak(nav, peak, n) ==
    /\ peak \in Nat \ {0}
    /\ \A i \in 0..n : ValueAt(nav, i) <= peak
    /\ \E i \in 0..n : ValueAt(nav, i) = peak

IsDeepest(nav, left, from, n) ==
    /\ left \in Nat /\ from \in Nat \ {0} /\ left <= from
    /\ \A i, k \in 0..n : i <= k => left * ValueAt(nav, i) <= ValueAt(nav, k) * from
    /\ \/ left = from
       \/ \E i, k \in 0..n : i < k /\ left * ValueAt(nav, i) = ValueAt(nav, k) * from

\* The recursion of MaxDrawdown defines a function.
LEMMA ScansExist ==
    ASSUME NEW nav, NEW n \in Nat
    PROVE  \E f : Scans(nav, f, n)
<1> DEFINE bad == {m \in 0..n : ~ \E f : Scans(nav, f, m)}
<1>1. ASSUME bad # {} PROVE FALSE
  <2>1. PICK m \in bad : \A k \in bad : m <= k
    <3>1. bad \subseteq Nat
      OBVIOUS
    <3> HIDE DEF bad
    <3>2. QED
      BY <1>1, <3>1, LeastNatural
  <2>2. CASE m = 0
    <3>1. PICK f : f = [i \in 0..0 |-> [peak |-> InitialCash, worst |-> <<1, 1>>]]
      OBVIOUS
    <3>2. \A i \in 0..0 : ScanStep(nav, f, i) = [peak |-> InitialCash, worst |-> <<1, 1>>]
      BY DEF ScanStep
    <3>3. Scans(nav, f, 0)
      BY <3>1, <3>2 DEF Scans
    <3>4. QED
      BY <2>1, <2>2, <3>3
  <2>3. CASE m # 0
    <3>1. m - 1 \in 0..n /\ m - 1 \in Nat /\ m \in 1..n /\ m - 1 \notin bad
      BY <2>1, <2>3
    <3>2. PICK f : Scans(nav, f, m - 1)
      BY <3>1
    <3>3. PICK g : g = [i \in 0..m |-> IF i = m THEN ScanStep(nav, f, m) ELSE f[i]]
      OBVIOUS
    <3>4. ASSUME NEW i \in 0..m PROVE g[i] = ScanStep(nav, g, i)
      <4>1. CASE i = 0
        <5>1. ScanStep(nav, g, i) = ScanStep(nav, f, i)
          BY <4>1 DEF ScanStep
        <5>2. i \in 0..(m - 1) /\ i # m
          BY <3>1, <4>1
        <5>3. f[i] = ScanStep(nav, f, i)
          BY <3>2, <5>2 DEF Scans
        <5>4. QED
          BY <3>3, <5>1, <5>2, <5>3
      <4>2. CASE i # 0
        <5>1. i - 1 \in 0..m /\ i - 1 # m
          BY <3>1, <4>2
        <5>2. g[i - 1] = f[i - 1]
          BY <3>3, <5>1
        <5>3. ScanStep(nav, g, i) = ScanStep(nav, f, i)
          BY <4>2, <5>2 DEF ScanStep
        <5>4. CASE i = m
          BY <3>3, <5>3, <5>4
        <5>5. CASE i # m
          <6>1. i \in 0..(m - 1)
            BY <3>1, <5>5
          <6>2. f[i] = ScanStep(nav, f, i)
            BY <3>2, <6>1 DEF Scans
          <6>3. QED
            BY <3>3, <5>3, <5>5, <6>2
        <5>6. QED
          BY <5>4, <5>5
      <4>3. QED
        BY <4>1, <4>2
    <3>5. g = [i \in 0..m |-> ScanStep(nav, g, i)]
      BY <3>3, <3>4
    <3>6. QED
      BY <2>1, <3>5 DEF Scans
  <2>4. QED
    BY <2>2, <2>3
<1>2. n \in 0..n
  OBVIOUS
<1>3. QED
  BY <1>1, <1>2

\* A fall that is deeper than another is deeper than every fall the other is as deep as.
LEMMA DeeperStill ==
    ASSUME NEW n \in Nat, NEW a \in Nat, NEW x \in Nat, NEW y \in Nat,
           NEW b \in Nat \ {0}, NEW peak \in Nat,
           n * b <= a * peak, a * x <= y * b
    PROVE  n * x <= y * peak
<1>1. x * (n * b) <= x * (a * peak)
  BY Times, TimesGrows
<1>2. peak * (a * x) <= peak * (y * b)
  BY Times, TimesGrows
<1>3. b * (n * x) = x * (n * b) /\ x * (a * peak) = peak * (a * x) /\ peak * (y * b) = b * (y * peak)
  OBVIOUS
<1>4. /\ n * x \in Nat /\ y * peak \in Nat /\ b * (n * x) \in Nat /\ b * (y * peak) \in Nat
      /\ x * (a * peak) \in Nat /\ peak * (a * x) \in Nat /\ x * (n * b) \in Nat /\ peak * (y * b) \in Nat
  BY Times
<1>5. b * (n * x) <= b * (y * peak)
  BY <1>1, <1>2, <1>3, <1>4
<1>6. QED
  BY <1>4, <1>5, TimesCompares

\* One value more keeps the peak the highest and the fall the deepest.
LEMMA FallsDeepen ==
    ASSUME NEW nav, NEW n \in Nat, \A i \in 0..(n + 1) : ValueAt(nav, i) \in Nat,
           NEW peak, NEW left, NEW from, IsPeak(nav, peak, n), IsDeepest(nav, left, from, n),
           NEW higher, higher = Larger(peak, ValueAt(nav, n + 1)),
           NEW fall, fall = DeeperFall(<<left, from>>, <<ValueAt(nav, n + 1), higher>>)
    PROVE  /\ IsPeak(nav, higher, n + 1)
           /\ \E a, b : fall = <<a, b>> /\ IsDeepest(nav, a, b, n + 1)
<1> DEFINE v == ValueAt(nav, n + 1)
<1>1. v \in Nat /\ peak \in Nat \ {0} /\ left \in Nat /\ from \in Nat \ {0} /\ left <= from
  BY DEF IsPeak, IsDeepest
<1>2. \A i \in 0..(n + 1) : i \in 0..n \/ i = n + 1
  OBVIOUS
<1>3. 0..n \subseteq 0..(n + 1) /\ n + 1 \in 0..(n + 1) /\ n + 1 \notin 0..n
  OBVIOUS
<1>4. IsPeak(nav, higher, n + 1)
  <2> HIDE DEF v
  <2>1. CASE peak < v
    <3>1. higher = v
      BY <2>1 DEF Larger, v
    <3>2. \A i \in 0..n : ValueAt(nav, i) <= v
      BY <1>1, <1>3, <2>1 DEF IsPeak
    <3>3. QED
      BY <1>1, <1>2, <1>3, <2>1, <3>1, <3>2 DEF IsPeak, v
  <2>2. CASE ~(peak < v)
    <3>1. higher = peak /\ v <= peak
      BY <1>1, <2>2 DEF Larger, v
    <3>2. QED
      BY <1>1, <1>2, <1>3, <3>1 DEF IsPeak, v
  <2>3. QED
    BY <2>1, <2>2
<1>5. higher \in Nat \ {0} /\ v <= higher /\ \A i \in 0..(n + 1) : ValueAt(nav, i) <= higher
  BY <1>3, <1>4 DEF IsPeak
<1>6. v * from \in Nat /\ left * higher \in Nat
  BY <1>1, <1>5, Times
<1>7. CASE v * from < left * higher
  <2>1. fall = <<v, higher>>
    BY <1>7 DEF DeeperFall
  <2>2. ASSUME NEW i \in 0..(n + 1), NEW k \in 0..(n + 1), i <= k
        PROVE  v * ValueAt(nav, i) <= ValueAt(nav, k) * higher
    <3>1. CASE k = n + 1
      BY <1>1, <1>5, <3>1, TimesGrows
    <3>2. CASE k # n + 1
      <4>1. i \in 0..n /\ k \in 0..n
        BY <2>2, <3>2
      <4>2. left * ValueAt(nav, i) <= ValueAt(nav, k) * from
        BY <2>2, <4>1 DEF IsDeepest
      <4>3. v * from <= left * higher
        BY <1>6, <1>7
      <4>4. QED
        BY <1>1, <1>3, <1>5, <4>1, <4>2, <4>3, DeeperStill
    <3>3. QED
      BY <3>1, <3>2
  <2>3. higher = peak
    <3>1. CASE peak < v
      <4>1. higher = v
        BY <3>1 DEF Larger
      <4>2. v * left <= v * from
        BY <1>1, TimesGrows
      <4>3. v * left = left * v
        BY <1>1
      <4>4. QED
        BY <1>6, <1>7, <4>1, <4>2, <4>3
    <3>2. CASE ~(peak < v)
      BY <3>2 DEF Larger
    <3>3. QED
      BY <3>1, <3>2
  <2>4. PICK i \in 0..n : ValueAt(nav, i) = peak
    BY DEF IsPeak
  <2>5. v * ValueAt(nav, i) = ValueAt(nav, n + 1) * higher
    BY <2>3, <2>4
  <2>6. i \in 0..(n + 1) /\ i < n + 1
    OBVIOUS
  <2>7. IsDeepest(nav, v, higher, n + 1)
    <3> HIDE DEF v
    <3>1. QED
      BY <1>1, <1>3, <1>5, <2>2, <2>5, <2>6 DEF IsDeepest
  <2>8. QED
    BY <1>4, <2>1, <2>7
<1>8. CASE ~(v * from < left * higher)
  <2>1. fall = <<left, from>>
    BY <1>8 DEF DeeperFall
  <2>2. left * higher <= v * from
    BY <1>6, <1>8
  <2>3. ASSUME NEW i \in 0..(n + 1), NEW k \in 0..(n + 1), i <= k
        PROVE  left * ValueAt(nav, i) <= ValueAt(nav, k) * from
    <3>1. CASE k = n + 1
      <4>1. left * ValueAt(nav, i) <= left * higher
        BY <1>1, <1>5, TimesGrows
      <4>2. left * ValueAt(nav, i) \in Nat
        BY <1>1, Times
      <4>3. QED
        BY <1>6, <2>2, <3>1, <4>1, <4>2
    <3>2. CASE k # n + 1
      <4>1. i \in 0..n /\ k \in 0..n
        BY <2>3, <3>2
      <4>2. QED
        BY <2>3, <4>1 DEF IsDeepest
    <3>3. QED
      BY <3>1, <3>2
  <2>4. \/ left = from
        \/ \E i, k \in 0..(n + 1) : i < k /\ left * ValueAt(nav, i) = ValueAt(nav, k) * from
    BY <1>3 DEF IsDeepest
  <2>5. IsDeepest(nav, left, from, n + 1)
    BY <1>1, <2>3, <2>4 DEF IsDeepest
  <2>6. QED
    BY <1>4, <2>1, <2>5
<1>9. QED
  BY <1>7, <1>8

\* A scan has, at each of its steps, the peak and the deepest fall until then.
LEMMA ScansAreSound ==
    ASSUME NEW nav, NEW n \in Nat, \A i \in 0..n : ValueAt(nav, i) \in Nat,
           NEW f, Scans(nav, f, n)
    PROVE  \E a, b : f[n].worst = <<a, b>> /\ IsDeepest(nav, a, b, n)
<1> DEFINE sound(m) == /\ IsPeak(nav, f[m].peak, m)
                       /\ \E a, b : f[m].worst = <<a, b>> /\ IsDeepest(nav, a, b, m)
           bad == {m \in 0..n : ~sound(m)}
<1>1. ASSUME bad # {} PROVE FALSE
  <2>1. PICK m \in bad : \A k \in bad : m <= k
    <3>1. bad \subseteq Nat
      OBVIOUS
    <3> HIDE DEF bad
    <3>2. QED
      BY <1>1, <3>1, LeastNatural
  <2>2. m \in 0..n /\ f[m] = ScanStep(nav, f, m)
    BY <2>1 DEF Scans
  <2>3. CASE m = 0
    <3>1. f[0].peak = InitialCash /\ f[0].worst = <<1, 1>>
      BY <2>2, <2>3 DEF ScanStep
    <3>2. InitialCash \in Nat \ {0} /\ \A i \in 0..0 : ValueAt(nav, i) = InitialCash
      BY BacktestAssumption DEF ValueAt
    <3>3. IsPeak(nav, InitialCash, 0)
      BY <3>2 DEF IsPeak
    <3>4. IsDeepest(nav, 1, 1, 0)
      BY <3>2 DEF IsDeepest
    <3>5. sound(0)
      BY <3>1, <3>3, <3>4
    <3>6. QED
      BY <2>1, <2>3, <3>5
  <2>4. CASE m # 0
    <3>1. PICK k \in Nat : m = k + 1 /\ k \in 0..n /\ k \notin bad
      <4>1. m - 1 \in Nat /\ m = (m - 1) + 1 /\ m - 1 \in 0..n /\ ~(m <= m - 1)
        BY <2>2, <2>4
      <4>2. QED
        BY <2>1, <4>1
    <3>2. sound(k)
      BY <3>1
    <3>3. PICK a, b : f[k].worst = <<a, b>> /\ IsDeepest(nav, a, b, k)
      BY <3>2
    <3>4. PICK peak : peak = f[k].peak /\ IsPeak(nav, peak, k)
      BY <3>2
    <3>5. ValueAt(nav, k + 1) = nav[m] /\ m - 1 = k
      BY <3>1 DEF ValueAt
    <3>6. PICK higher : higher = Larger(peak, ValueAt(nav, k + 1))
      OBVIOUS
    <3>7. PICK fall : fall = DeeperFall(<<a, b>>, <<ValueAt(nav, k + 1), higher>>)
      OBVIOUS
    <3>8. f[m].peak = higher /\ f[m].worst = fall
      BY <2>2, <2>4, <3>3, <3>4, <3>5, <3>6, <3>7 DEF ScanStep
    <3>9. \A i \in 0..(k + 1) : ValueAt(nav, i) \in Nat
      BY <2>2, <3>1
    <3>10. /\ IsPeak(nav, higher, k + 1)
           /\ \E x, y : fall = <<x, y>> /\ IsDeepest(nav, x, y, k + 1)
      BY <3>3, <3>4, <3>6, <3>7, <3>9, FallsDeepen
    <3>11. sound(m)
      BY <3>1, <3>8, <3>10
    <3>12. QED
      BY <2>1, <3>11
  <2>5. QED
    BY <2>3, <2>4
<1>2. n \in 0..n
  OBVIOUS
<1>3. sound(n)
  BY <1>1, <1>2
<1>4. QED
  BY <1>3

\* What _max_drawdown returns is the deepest fall of the values it scans.
LEMMA MaxDrawdownIsDeepest ==
    ASSUME NEW nav, NEW n \in Nat, Len(nav) = n, \A i \in 0..n : ValueAt(nav, i) \in Nat
    PROVE  \E a, b : MaxDrawdown(nav) = <<a, b>> /\ IsDeepest(nav, a, b, n)
<1> DEFINE scan == CHOOSE f : f = [i \in 0..Len(nav) |-> ScanStep(nav, f, i)]
<1>1. MaxDrawdown(nav) = scan[Len(nav)].worst
  BY Zenon DEF MaxDrawdown, ScanStep
<1>2. Scans(nav, scan, Len(nav))
  <2>1. PICK f : Scans(nav, f, Len(nav))
    BY ScansExist
  <2>2. f = [i \in 0..Len(nav) |-> ScanStep(nav, f, i)]
    BY <2>1 DEF Scans
  <2>3. scan = [i \in 0..Len(nav) |-> ScanStep(nav, scan, i)]
    BY <2>2, Zenon
  <2>4. QED
    BY <2>3 DEF Scans
<1> HIDE DEF scan
<1>3. QED
  BY <1>1, <1>2, ScansAreSound

-----------------------------------------------------------------------------

THEOREM BacktestInductive == Spec => []BacktestInv
BY BacktestStarts, BacktestKept, PTL DEF Spec

\* The value of the portfolio is natural wherever the drawdown looks at it.
LEMMA NavIsNatural ==
    ASSUME BacktestInv
    PROVE  /\ Len(Nav) = Len(paths) /\ Len(paths) \in Nat /\ DOMAIN paths = 1..Len(paths)
           /\ \A i \in 0..Len(paths) :
                 /\ ValueAt(Nav, i) \in Nat
                 /\ ValueAt(Nav, i) = IF i = 0 THEN InitialCash ELSE paths[i].nav
<1>1. Len(paths) \in Nat /\ DOMAIN paths = 1..Len(paths)
  BY DEF BacktestInv
<1>2. \A i \in 1..Len(paths) : paths[i].nav \in Nat
  BY DEF BacktestInv, WithinAllocation
<1>3. Nav = [i \in 1..Len(paths) |-> paths[i].nav]
  BY <1>1 DEF Nav
<1>4. Nav \in Seq(Nat) /\ Len(Nav) = Len(paths)
  BY <1>1, <1>2, <1>3
<1>5. ASSUME NEW i \in 0..Len(paths)
      PROVE  /\ ValueAt(Nav, i) \in Nat
             /\ ValueAt(Nav, i) = IF i = 0 THEN InitialCash ELSE paths[i].nav
  <2>1. CASE i = 0
    BY <2>1, BacktestAssumption DEF ValueAt
  <2>2. CASE i # 0
    <3>1. i \in 1..Len(paths)
      BY <1>1, <2>2
    <3>2. QED
      BY <1>2, <1>3, <2>2, <3>1 DEF ValueAt
  <2>3. QED
    BY <2>1, <2>2
<1>6. QED
  BY <1>1, <1>4, <1>5

\* What a backtest reports is what the rules of its study yield, for any universe,
\* prices, signals and rules: each position is entered after its signal and ended at
\* the first bar the rules name, bought within its share of the cash, and the reported
\* drawdown is the deepest fall of the cash (BacktestEngine.run, _max_drawdown).
THEOREM BacktestsFollowTheirRules == Spec => []BacktestFollowsItsRules
<1>1. ASSUME BacktestInv PROVE BacktestFollowsItsRules
  <2>1. Len(paths) \in Nat /\ DOMAIN paths = 1..Len(paths) /\ Len(Nav) = Len(paths)
    BY <1>1, NavIsNatural
  <2>2. \A i \in 1..Len(paths) : FollowsTheRules(paths[i]) /\ WithinAllocation(paths[i], CashBefore(i))
    BY <1>1 DEF BacktestInv
  <2>3. PathsFollowTheRules
    BY <2>1, <2>2 DEF PathsFollowTheRules, FollowsTheRules
  <2>4. PurchasesWithinAllocation
    <3>1. \A i \in 1..Len(paths) : paths[i].nav \in Nat => paths[i].nav >= 0
      OBVIOUS
    <3>2. QED
      BY <2>1, <2>2, <3>1 DEF PurchasesWithinAllocation, WithinAllocation, CashBefore
  <2>5. PICK a, b : MaxDrawdown(Nav) = <<a, b>> /\ IsDeepest(Nav, a, b, Len(paths))
    BY <1>1, <2>1, NavIsNatural, MaxDrawdownIsDeepest
  <2>6. DrawdownIsDeepestFall
    <3> DEFINE value(i) == IF i = 0 THEN InitialCash ELSE paths[i].nav
    <3>1. \A i \in 0..Len(paths) : ValueAt(Nav, i) = value(i)
      BY <1>1, NavIsNatural
    <3> HIDE DEF value
    <3>2. /\ \A i, j \in 0..Len(paths) : i <= j => a * value(i) <= value(j) * b
          /\ \/ a = b
             \/ \E i, j \in 0..Len(paths) : i < j /\ a * value(i) = value(j) * b
      BY <2>5, <3>1 DEF IsDeepest
    <3>3. MaxDrawdown(Nav)[1] = a /\ MaxDrawdown(Nav)[2] = b
      BY <2>5
    <3>4. QED
      BY <3>2, <3>3, Zenon DEF DrawdownIsDeepestFall, value
  <2>7. QED
    BY <2>3, <2>4, <2>6 DEF BacktestFollowsItsRules
<1>2. QED
  BY <1>1, BacktestInductive, PTL

-----------------------------------------------------------------------------
(* The queue of the engine.                                                *)

\* The turns of the engine are finitely many, and as many as the signals where the
\* universe names each asset once.
LEMMA TurnsAreCounted ==
    ASSUME NEW universe \in Universes, NEW signals \in [1..Signals -> SignalOf(universe)]
    PROVE  /\ Cardinality(Turns(universe, signals)) \in Nat
           /\ NamesEachOnce(universe) => Cardinality(Turns(universe, signals)) = Signals
<1> DEFINE places == 1..Len(universe)
           turns == Turns(universe, signals)
<1>1. DOMAIN universe = places /\ Len(universe) \in Nat /\ DOMAIN signals = 1..Signals /\ Signals \in Nat
  BY BacktestAssumption
<1>2. turns = {t \in places \X (1..Signals) : signals[t[2]].asset = universe[t[1]]}
  BY <1>1 DEF Turns
<1> HIDE DEF turns, places
<1>3. IsFiniteSet(places) /\ IsFiniteSet(1..Signals) /\ Cardinality(1..Signals) = Signals
  BY <1>1, FS_Interval DEF places
<1>4. IsFiniteSet(places \X (1..Signals))
  BY <1>3, FS_Product
<1>5. turns \in SUBSET (places \X (1..Signals))
  BY <1>2
<1>6. IsFiniteSet(turns)
  BY <1>4, <1>5, FS_Subset
<1>7. ASSUME NamesEachOnce(universe) PROVE Cardinality(turns) = Signals
  <2>1. \A k \in 1..Signals : \E i \in places : universe[i] = signals[k].asset
    BY <1>1 DEF SignalOf
  <2>2. \A i, j \in places : universe[i] = universe[j] => i = j
    BY <1>1, <1>7 DEF NamesEachOnce
  <2> DEFINE place(k) == CHOOSE i \in places : universe[i] = signals[k].asset
  <2>3. \A k \in 1..Signals : place(k) \in places /\ universe[place(k)] = signals[k].asset
    BY <2>1
  <2> HIDE DEF place
  <2> DEFINE turn == [k \in 1..Signals |-> <<place(k), k>>]
  <2>4. turn \in [1..Signals -> turns]
    BY <1>2, <2>3
  <2>5. \A k, l \in 1..Signals : turn[k] = turn[l] => k = l
    OBVIOUS
  <2>6. \A t \in turns : \E k \in 1..Signals : turn[k] = t
    <3> TAKE t \in turns
    <3>1. PICK i \in places, k \in 1..Signals : t = <<i, k>> /\ signals[k].asset = universe[i]
      BY <1>2
    <3>2. i = place(k)
      BY <2>2, <2>3, <3>1
    <3>3. QED
      BY <3>1, <3>2
  <2> HIDE DEF turn
  <2>7. turn \in Bijection(1..Signals, turns)
    BY <2>4, <2>5, <2>6 DEF Bijection, Injection, Surjection, IsInjective
  <2>8. ExistsBijection(1..Signals, turns)
    BY <2>7 DEF ExistsBijection
  <2>9. QED
    BY <1>3, <2>8, FS_Bijection
<1>8. Cardinality(turns) \in Nat
  BY <1>6, FS_CardinalityType
<1>9. QED
  BY <1>7, <1>8 DEF turns

\* What is still to be done, what was, and what was passed over make up the signals.
QueueInv ==
    /\ todo \in Seq(Signal) /\ skipped \in Nat
    /\ outcome = "idle" => skipped = 0
    /\ outcome # "idle" /\ NamesEachOnce(study.universe) => Len(todo) + Len(paths) + skipped = Signals
    /\ outcome \in {"idle", "running", "done", "raised"}

LEMMA QueueStarts == Init => QueueInv
BY DEF Init, BacktestInit, QueueInv

LEMMA StartStudyQueues ==
    ASSUME BacktestInv, QueueInv, StartStudy
    PROVE  QueueInv'
<1>1. PICK universe \in Universes : \E signals \in [1..Signals -> SignalOf(universe)] :
          \E order \in InEngineOrder(Turns(universe, signals)) :
              study'.universe = universe /\ todo' = Queue(signals, order)
  BY DEF StartStudy
<1>2. PICK signals \in [1..Signals -> SignalOf(universe)] :
          \E order \in InEngineOrder(Turns(universe, signals)) :
              study'.universe = universe /\ todo' = Queue(signals, order)
  BY <1>1
<1>3. PICK order \in InEngineOrder(Turns(universe, signals)) :
          study'.universe = universe /\ todo' = Queue(signals, order)
  BY <1>2
<1>4. outcome = "idle" /\ outcome' = "running" /\ UNCHANGED <<cash, paths, skipped>>
  BY DEF StartStudy
<1>5. PICK count : count = Cardinality(Turns(universe, signals))
  OBVIOUS
<1>6. count \in Nat /\ (NamesEachOnce(universe) => count = Signals)
  BY <1>3, <1>5, TurnsAreCounted
<1>7. order \in [1..count -> Turns(universe, signals)]
  BY <1>3, <1>5 DEF InEngineOrder
<1>8. \A n \in 1..count : signals[order[n][2]] \in Signal
  <2> TAKE n \in 1..count
  <2>1. order[n][2] \in 1..Signals
    BY <1>3, <1>7 DEF Turns
  <2>2. QED
    BY <1>3, <2>1 DEF Signal
<1>9. todo' \in Seq(Signal) /\ Len(todo') = count
  BY <1>3, <1>6, <1>7, <1>8 DEF Queue
<1>10. Len(paths') = 0 /\ skipped' = 0
  BY <1>4 DEF BacktestInv, QueueInv
<1>11. NamesEachOnce(study.universe)' => count = Signals
  BY <1>3, <1>6 DEF NamesEachOnce
<1>12. QED
  BY <1>4, <1>6, <1>9, <1>10, <1>11 DEF QueueInv

\* A step that takes the first signal counts it once, as a position or as skipped.
LEMMA SignalTaken ==
    ASSUME BacktestInv, QueueInv, outcome = "running", outcome' = "running", UNCHANGED study,
           todo # <<>>, todo' = Tail(todo), skipped' \in Nat, Len(paths') \in Nat,
           Len(paths') + skipped' = Len(paths) + skipped + 1
    PROVE  QueueInv'
<1>1. todo \in Seq(Signal) /\ skipped \in Nat /\ Len(paths) \in Nat
  BY DEF QueueInv, BacktestInv
<1>2. todo' \in Seq(Signal) /\ Len(todo') = Len(todo) - 1 /\ Len(todo) \in Nat /\ Len(todo') \in Nat
  BY <1>1
<1>3. NamesEachOnce(study.universe)' <=> NamesEachOnce(study.universe)
  BY DEF NamesEachOnce
<1>4. NamesEachOnce(study.universe) => Len(todo) + Len(paths) + skipped = Signals
  BY DEF QueueInv
<1>5. NamesEachOnce(study.universe) => Len(todo') + Len(paths') + skipped' = Signals
  BY <1>1, <1>2, <1>4
<1>6. QED
  BY <1>2, <1>3, <1>5 DEF QueueInv

LEMMA QueueKept == BacktestInv /\ QueueInv /\ [Next]_vars => QueueInv'
<1> SUFFICES ASSUME BacktestInv, QueueInv, [Next]_vars PROVE QueueInv'
  OBVIOUS
<1>1. ASSUME UNCHANGED <<study, todo, paths, skipped>>, outcome' = outcome \/ outcome # "idle",
             outcome' \in {outcome, "done", "raised"}
      PROVE  QueueInv'
  BY <1>1 DEF QueueInv, NamesEachOnce
<1>2. ASSUME NEW s, Take(s), Skip PROVE QueueInv'
  <2>1. outcome = "running" /\ todo # <<>> /\ skipped' = skipped + 1 /\ todo' = Tail(todo)
        /\ UNCHANGED <<study, paths, outcome>>
    BY <1>2 DEF Take, Skip
  <2>2. skipped \in Nat /\ Len(paths) \in Nat
    BY DEF QueueInv, BacktestInv
  <2>3. skipped' \in Nat /\ Len(paths') \in Nat /\ Len(paths') + skipped' = Len(paths) + skipped + 1
    BY <2>1, <2>2
  <2>4. QED
    BY <2>1, <2>3, SignalTaken
<1>3. CASE Execute
  <2>1. PICK p : /\ outcome = "running" /\ todo # <<>> /\ paths' = Append(paths, p) /\ todo' = Tail(todo)
                 /\ UNCHANGED <<study, skipped, outcome>>
    BY <1>3 DEF Execute, Take
  <2>2. Len(paths) \in Nat /\ Len(paths') = Len(paths) + 1
    BY <2>1, OneMore DEF BacktestInv
  <2>3. skipped \in Nat
    BY DEF QueueInv
  <2>4. QED
    BY <2>1, <2>2, <2>3, SignalTaken
<1>4. CASE UNCHANGED backtestVars
  BY <1>1, <1>4 DEF backtestVars
<1>5. CASE RaiseAtEntry \/ RaiseMargin \/ Report
  BY <1>1, <1>5 DEF RaiseAtEntry, RaiseMargin, Report, Raise, Take
<1>6. CASE SkipUnsatisfied \/ SkipUnfilled
  BY <1>2, <1>6 DEF SkipUnsatisfied, SkipUnfilled
<1>7. QED
  BY <1>3, <1>4, <1>5, <1>6, StartStudyQueues, OnlyTheEngine DEF BacktestNext

THEOREM QueueInductive == Spec => []QueueInv
BY QueueStarts, QueueKept, BacktestInductive, PTL DEF Spec

\* No signal is lost and none is counted twice, for any universe that names each of its
\* assets once, and the cash is never negative (BacktestEngine.run).
THEOREM BacktestTypes == Spec => []BacktestTypeOK
<1>1. QueueInv /\ BacktestInv => BacktestTypeOK
  BY DEF QueueInv, BacktestInv, BacktestTypeOK
<1>2. QED
  BY <1>1, QueueInductive, BacktestInductive, PTL

=============================================================================
