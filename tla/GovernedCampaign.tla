--------------------------- MODULE GovernedCampaign ---------------------------
(***************************************************************************)
(* A prospective campaign: the evidence gate of a case (governed.py), the  *)
(* priced provider call with its retries (external/provider.py), the       *)
(* grounding and the sealing of a claim, the prediction made of it and the *)
(* append-only ledger of what became of it (prospective.py).  Nothing of   *)
(* it is in the database: the campaign is one process, one case follows    *)
(* the other, and a case that dies leaves what it had handed over.         *)
(***************************************************************************)
EXTENDS CommandSessions, Sequences, FiniteSets

CONSTANTS
    MaxBulletins,   \* bound on the records of evidence
    RetryAttempts,  \* profile.retry_attempts
    GateStaleAfter, \* stale_days, in ticks
    MaxEntries      \* bound on the entries of the ledger

ASSUME CampaignAssumption ==
    /\ MaxBulletins \in Nat /\ RetryAttempts \in Nat \ {0}
    /\ GateStaleAfter \in Nat /\ MaxEntries \in Nat

VARIABLES
    bulletins,      \* the governed evidence, in the order it was observed
    accounts,       \* the accounted outcomes of provider calls
    sealed,         \* sealed research commitments
    predictions,    \* prospective commitments
    ledger          \* CommitmentLedger._entries

campaignVars == <<bulletins, accounts, sealed, predictions, ledger>>

BulletinId == 1..MaxBulletins
Officials == {"ministry"}
Press == {"paper"}
Sources == Officials \cup Press
CaseId == 1..MaxCommands
\* disputes: the records that it contradicts.
Bulletin == [source : Sources, at : Time, disputes : SUBSET BulletinId]
\* An answer that exhausted its tokens or does not fit the schema is useless.
Account == [case : CaseId, status : {"useless", "pass"}]
Sealed == [case : CaseId, cutoff : Time, at : Time, cites : SUBSET BulletinId]
Prediction == [case : CaseId, cutoff : Time, at : Time, start : Time, cites : SUBSET BulletinId]
LedgerState == {"sealed", "awaiting", "matured", "evaluated", "unusable"}
Entry == [case : CaseId, state : LedgerState, at : Time, maturity : Time]

CampaignInit == bulletins = <<>> /\ accounts = {} /\ sealed = {} /\ predictions = {} /\ ledger = <<>>

\* A record is observed live, which is the only kind that is governed.
BulletinObserved ==
    /\ Len(bulletins) < MaxBulletins
    /\ \E source \in Sources, disputes \in SUBSET DOMAIN bulletins :
          bulletins' = Append(bulletins, [source |-> source, at |-> now, disputes |-> disputes])
    /\ UNCHANGED <<accounts, sealed, predictions, ledger>>

SourcesOf(items) == {bulletins[b].source : b \in items}

\* Variant: the gate goes by what is known, not by what was known at the cutoff.
SufficientToday(items, cutoff) ==
    /\ Cardinality(SourcesOf(items)) >= 2
    /\ SourcesOf(items) \cap Officials # {} /\ SourcesOf(items) \cap Press # {}
    /\ \E b \in items : cutoff - bulletins[b].at <= GateStaleAfter

\* assess_evidence_sufficiency: nothing of it is later than the cutoff; two sources,
\* an official one, reviewed news, and not all of it stale.
Sufficient(items, cutoff) ==
    /\ \A b \in items : bulletins[b].at <= cutoff
    /\ Cardinality(SourcesOf(items)) >= 2
    /\ SourcesOf(items) \cap Officials # {} /\ SourcesOf(items) \cap Press # {}
    /\ \E b \in items : cutoff - bulletins[b].at <= GateStaleAfter

\* The campaign is one process.
BetweenCases == \A o \in Operators : job[o] = Idle

\* A case whose gate passes goes to the provider.
BeginCase(o) ==
    /\ Free(o) /\ BetweenCases
    /\ \E items \in SUBSET DOMAIN bulletins, cutoff \in Time :
          /\ Sufficient(items, cutoff)
          /\ Begin(o, [pc |-> "campaign_send", case |-> started + 1, cutoff |-> cutoff, items |-> items, sent |-> 1])
    /\ UNCHANGED campaignVars

\* _http_request: no answer in time.  The provider may have served the request; it is
\* sent again as long as attempts are left, and then the call fails.
AnswerLost(o) ==
    /\ At(o, "campaign_send")
    /\ IF job[o].sent < RetryAttempts THEN Learn(o, [job[o] EXCEPT !.sent = @ + 1]) ELSE Finish(o)
    /\ UNCHANGED campaignVars

\* An answer is final whatever it says: an error status, an oversized body or a body that
\* is not JSON fails the call, and nothing is accounted.
AnswerRefused(o) == At(o, "campaign_send") /\ Finish(o) /\ UNCHANGED campaignVars

AccountOf(j, status) == [case |-> j.case, status |-> status]

\* invoke_accounted: its tokens are accounted once, be there claims in it or not.
AnswerUseless(o) ==
    /\ At(o, "campaign_send")
    /\ accounts' = accounts \cup {AccountOf(job[o], "useless")}
    /\ Finish(o)
    /\ UNCHANGED <<bulletins, sealed, predictions, ledger>>

AnswerParsed(o) ==
    /\ At(o, "campaign_send")
    /\ accounts' = accounts \cup {AccountOf(job[o], "pass")}
    /\ Proceed(o, "campaign_ground")
    /\ UNCHANGED <<bulletins, sealed, predictions, ledger>>

Disputed(items) == UNION {bulletins[b].disputes : b \in items}

\* audit_claim_grounding: it cites nothing but the case's evidence, and none of what
\* supports it is disputed there or by the claim itself.
GroundedClaim(items, supports, contradicts) ==
    /\ supports # {} /\ supports \cup contradicts \subseteq items
    /\ supports \cap Disputed(items) = {} /\ contradicts = {}

\* seal_commitment, of a claim that is supported in whole or in part; it is not committed
\* before its cutoff.
Seal(o) ==
    /\ At(o, "campaign_ground") /\ job[o].cutoff <= now
    /\ \E supports, contradicts \in SUBSET BulletinId :
          /\ GroundedClaim(job[o].items, supports, contradicts)
          /\ sealed' = sealed \cup {[case |-> job[o].case, cutoff |-> job[o].cutoff, at |-> now, cites |-> supports]}
    /\ Proceed(o, "campaign_predict")
    /\ UNCHANGED <<bulletins, accounts, predictions, ledger>>

\* The claim cites what was never given, is contradicted or unsupported, or comes too early.
SealRefused(o) == At(o, "campaign_ground") /\ Finish(o) /\ UNCHANGED campaignVars

\* ProspectiveCommitment: the window of the outcome opens at once or a tick later.
Predict(o) ==
    /\ At(o, "campaign_predict")
    /\ \E s \in {x \in sealed : x.case = job[o].case}, start \in {now, now + 1} \cap Time :
          predictions' = predictions \cup
              {[case |-> s.case, cutoff |-> s.cutoff, at |-> now, start |-> start, cites |-> s.cites]}
    /\ Finish(o)
    /\ UNCHANGED <<bulletins, accounts, sealed, ledger>>

EntriesOf(case) == {i \in DOMAIN ledger : ledger[i].case = case}

\* append: the last entry of the commitment, if there is one.
Previous(case) == {ledger[i] : i \in {j \in EntriesOf(case) : \A k \in EntriesOf(case) : k <= j}}

Follows == [sealed |-> {"awaiting"}, awaiting |-> {"matured", "unusable"},
            matured |-> {"evaluated", "unusable"}, evaluated |-> {}, unusable |-> {}]

\* append, at a time that the caller states; an entry matures when the window of its
\* prediction opens.
AppendEntry ==
    /\ Len(ledger) < MaxEntries /\ BetweenCases
    /\ \E p \in predictions, state \in LedgerState, at \in 0..now :
          /\ IF Previous(p.case) = {} THEN state = "sealed"
             ELSE \A e \in Previous(p.case) : state \in Follows[e.state] /\ e.at <= at
          /\ state \in {"matured", "evaluated"} => p.start <= at
          /\ ledger' = Append(ledger, [case |-> p.case, state |-> state, at |-> at, maturity |-> p.start])
    /\ UNCHANGED <<bulletins, accounts, sealed, predictions>>

CampaignNext(o) ==
    \/ BeginCase(o) \/ AnswerLost(o) \/ AnswerRefused(o) \/ AnswerUseless(o) \/ AnswerParsed(o)
    \/ Seal(o) \/ SealRefused(o) \/ Predict(o)

CampaignTypeOK ==
    /\ bulletins \in Seq(Bulletin) /\ Len(bulletins) <= MaxBulletins
    /\ accounts \subseteq Account
    /\ sealed \subseteq Sealed
    /\ predictions \subseteq Prediction
    /\ ledger \in Seq(Entry) /\ Len(ledger) <= MaxEntries

\* threat-model.md and results/prospective-campaign-v033.md: however answers are lost,
\* cases interleave and entries are appended, every prediction rests on undisputed
\* evidence of before its cutoff and on one answer that was accounted as usable; and what
\* became of it was recorded step by step, each step at most once, in time order, its
\* outcome not before its window opened (seal_commitment, CommitmentLedger.append).
CampaignIsProspective ==
    /\ \A p \in predictions :
          /\ p.cites # {} /\ \A b \in p.cites : bulletins[b].at <= p.cutoff
          /\ p.cutoff <= p.at /\ p.at <= p.start
          /\ \E a \in accounts : a.case = p.case /\ a.status = "pass"
          /\ \A a, b \in accounts : a.case = b.case => a = b
    /\ \A i \in DOMAIN ledger : \E p \in predictions :
          LET e == ledger[i]
              before == {ledger[k] : k \in {j \in EntriesOf(e.case) : j < i}}
              passed == {b.state : b \in before}
          IN  /\ p.case = e.case
              /\ e.state \notin passed /\ \A b \in before : b.at <= e.at
              /\ e.state = "sealed" <=> before = {}
              /\ e.state \in {"matured", "evaluated"} => p.start <= e.at
              /\ e.state = "evaluated" => passed = {"sealed", "awaiting", "matured"}
              /\ passed \cap {"evaluated", "unusable"} = {}

=============================================================================
