---------------------------- MODULE EvidenceDesk ----------------------------
(***************************************************************************)
(* The components that collect and relate evidence.  They share the        *)
(* database and the command line, and no table: a behaviour is one of the  *)
(* part it begins with, under the bounds of that part.                     *)
(***************************************************************************)
EXTENDS TelegramConnector, EvidenceArchive, NewsLab, KnowledgeGraph,
        EvidenceFusion, GeopoliticalLab, SocialLab, GovernmentLab

CONSTANTS
    Parts,          \* the parts to explore
    ClockOf,        \* how far the clock of a part runs
    CommandsOf      \* how many commands are started in a part

ASSUME DeskAssumption ==
    \A p \in Parts : ClockOf[p] \in Nat /\ CommandsOf[p] \in 0..MaxCommands

VARIABLE part

\* The tables of the parts that collect, and of those that interpret.
collectedVars == <<telegramVars, archiveVars, newsVars, graphVars>>
interpretedVars == <<fusionVars, geopoliticalVars, socialVars, governmentVars>>
vars == <<part, sessionVars, collectedVars, interpretedVars>>

Init ==
    /\ part \in Parts
    /\ SessionsInit(MaxCommands - CommandsOf[part])
    /\ TelegramInit /\ ArchiveInit /\ NewsInit /\ GraphInit
    /\ FusionInit /\ GeopoliticalInit /\ SocialInit /\ GovernmentInit

Telegram ==
    /\ part = "telegram"
    /\ (\E o \in Operators : TelegramNext(o)) \/ ChannelPosts \/ ChannelChanges
    /\ UNCHANGED <<archiveVars, newsVars, graphVars>>

Collects(o) ==
    \/ /\ part = "archive" /\ ArchiveNext(o)
       /\ UNCHANGED <<telegramVars, newsVars, graphVars>>
    \/ /\ part = "news" /\ NewsNext(o)
       /\ UNCHANGED <<telegramVars, archiveVars, graphVars>>
    \/ /\ part = "knowledge" /\ GraphNext(o)
       /\ UNCHANGED <<telegramVars, archiveVars, newsVars>>

Interprets(o) ==
    \/ /\ part = "fusion" /\ FusionNext(o)
       /\ UNCHANGED <<geopoliticalVars, socialVars, governmentVars>>
    \/ /\ part = "geopolitical" /\ GeopoliticalNext(o)
       /\ UNCHANGED <<fusionVars, socialVars, governmentVars>>
    \/ /\ part = "social" /\ SocialNext(o)
       /\ UNCHANGED <<fusionVars, geopoliticalVars, governmentVars>>
    \/ /\ part = "government" /\ GovernmentNext(o)
       /\ UNCHANGED <<fusionVars, geopoliticalVars, socialVars>>

\* Evidence that the two laboratories cite goes on arriving.
Arrival ==
    \/ /\ part = "geopolitical" /\ ReportArrives
       /\ UNCHANGED <<sessionVars, fusionVars, socialVars, governmentVars>>
    \/ /\ part = "government" /\ NoticeArrives
       /\ UNCHANGED <<sessionVars, fusionVars, geopoliticalVars, socialVars>>

Outside ==
    /\ \/ \E o \in Operators : Dies(o)
       \/ now < ClockOf[part] /\ Tick
    /\ UNCHANGED <<collectedVars, interpretedVars>>

Next ==
    /\ \/ (Telegram \/ \E o \in Operators : Collects(o)) /\ UNCHANGED interpretedVars
       \/ (Arrival \/ \E o \in Operators : Interprets(o)) /\ UNCHANGED collectedVars
       \/ Outside
    /\ UNCHANGED part

Spec == Init /\ [][Next]_vars

\* The tables of every part hold rows of their types.
TypeOK ==
    /\ TelegramTypeOK /\ ArchiveTypeOK /\ NewsTypeOK /\ GraphTypeOK
    /\ FusionTypeOK /\ GeopoliticalTypeOK /\ SocialTypeOK /\ GovernmentTypeOK

=============================================================================
