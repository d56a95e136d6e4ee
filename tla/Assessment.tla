----------------------------- MODULE Assessment -----------------------------
(***************************************************************************)
(* What the processor makes of an event (cmd/arbiter/main.go): filter,     *)
(* matchers, score and SSVC tree, alert, routing and export, from what it  *)
(* finds when it takes the event: the event as MISP has it, the catalog    *)
(* of the KEV matcher and the inventory. Editors, the KEV feed,            *)
(* administrators and restarts change these at any time between two polls. *)
(* Pipeline has the polls, the channel and the store.                      *)
(***************************************************************************)
EXTENDS Scoring, TechStack

CONSTANTS MaxTags, MaxAttributes,   \* bounds: the event stops growing
          AttributeChoice,          \* the attributes that editors add
          ExportFloor               \* CROWDSTRIKE_SEVERITY

ASSUME AssessmentAssumption == /\ AttributeChoice \subseteq Attribute /\ None \notin AttributeChoice
                               /\ \A rows \in Inventory : rows \subseteq AppRow
                               /\ MaxTags \in Nat /\ MaxAttributes \in Nat /\ MaxEdits \in Nat

VARIABLES event,     \* at the MISP server
          catalog    \* CVE numbers in the KEV matcher

assessmentVars == <<event, catalog, orgCtx, table, edits>>

AssessmentTypeOK == /\ StackTypeOK
                    /\ catalog \subseteq Cve
                    /\ event \in [tags : Seq(Tag), attributes : Seq(AttributeChoice),
                                  actors : BOOLEAN, named : SUBSET App, recent : BOOLEAN]
                    /\ Len(event.tags) <= MaxTags /\ Len(event.attributes) <= MaxAttributes

AssessmentInit == /\ StackInit
                  /\ catalog = {}
                  /\ \E names \in SUBSET App :
                       event = [tags |-> <<>>, attributes |-> <<>>, actors |-> FALSE,
                                named |-> names, recent |-> TRUE]

-----------------------------------------------------------------------------
(* The processor *)

Ranks == [critical |-> 4, high |-> 3, medium |-> 2, low |-> 1]

\* Route, with the rules main falls back to: the first rule for the severity, if its list
\* of confidences is empty or holds the alert's. TRUE: a channel is asked to send it.
Route(severity, confidence) == \/ severity \in {"critical", "high"}
                                    /\ confidence \in {"HIGH", "MEDIUM", "LOW"}
                               \/ severity = "medium"

\* Faulty variant: an indicator's own marking stands for the event's.
MarkingOwn(ev, ioc) == IF ioc.tlp # None THEN <<ioc.tlp>> ELSE ev.tags

\* The markings of an indicator come before those of its event.
Marking(ev, ioc) == IF ioc.tlp = None THEN ev.tags ELSE <<ioc.tlp>> \o ev.tags

\* blockedTLP: the first marking whose level is known decides, at the default threshold.
Blocked(tags) == LET tlp == FirstOf(tags, {t \in DOMAIN Tlp : Tlp[t] > 0}) IN
                 tlp # None /\ Tlp[tlp] > 2

\* The indicators that CrowdstrikeNotifier.Notify takes on.
Exported(ev, severity) ==
    {ioc \in IocsOf(ev) : Ranks[severity] >= Ranks[ExportFloor] /\ ~Blocked(Marking(ev, ioc))}

\* The processor's loop, for the event as it is now.
Found  == Matches(event, orgCtx, catalog)
Raised == Allow(event) /\ Found # {}

\* Score, SSVCTree and NewAlert.
Score    == RiskScore(event, Hit(orgCtx, Found), Found)
Action   == SsvcAction(event, Hit(orgCtx, Found), Found)
Routed   == Raised /\ Route(Severity(Score), ConfidenceLabel(Confidence(event)))
Leaving  == IF Raised THEN Exported(event, Severity(Score)) ELSE {}

-----------------------------------------------------------------------------
(* What changes between two assessments *)

\* An edit at the MISP server renews the time stamp.
EditEvent(ev) == /\ event' = [ev EXCEPT !.recent = TRUE]
                 /\ UNCHANGED <<catalog, stackVars>>

AddTag(t) == /\ Len(event.tags) < MaxTags /\ ~HasTag(event, t)
             /\ EditEvent([event EXCEPT !.tags = Append(@, t)])

AddAttribute(a) == /\ Len(event.attributes) < MaxAttributes
                   /\ EditEvent([event EXCEPT !.attributes = Append(@, a)])

AddActors == ~event.actors /\ EditEvent([event EXCEPT !.actors = TRUE])

\* Seven days pass.
Age == /\ event.recent
       /\ event' = [event EXCEPT !.recent = FALSE]
       /\ UNCHANGED <<catalog, stackVars>>

\* OnCatalog: the KEV poller replaces the catalog.
ReplaceCatalog(cves) == catalog' = cves /\ UNCHANGED <<event, stackVars>>

\* The catalog is empty until the feed answers.
Restart(file) == /\ ReadInventory(file)
                 /\ catalog' = {}
                 /\ UNCHANGED event

Administer == /\ \/ \E rows \in Inventory : Upload(rows)
                 \/ \E row \in UNION Inventory : AddRow(row) \/ UpdateRows(row)
                 \/ \E name \in App : DeleteRows(name)
              /\ UNCHANGED <<event, catalog>>

AssessmentNext == \/ \E t \in Tag : AddTag(t)
                  \/ \E a \in AttributeChoice : AddAttribute(a)
                  \/ AddActors \/ Age
                  \/ \E cves \in SUBSET Cve : ReplaceCatalog(cves)
                  \/ \E file \in Inventory : Restart(file)
                  \/ Administer

AssessmentSpec == AssessmentInit /\ [][AssessmentNext]_assessmentVars

-----------------------------------------------------------------------------
(* What an assessment promises *)

\* The new facts are the old ones and worse ones: no attribute with a lower score is the
\* last, no CVE is on the warning list, no marking is added.
MoreEvidence ==
    /\ ElementsOf(event.tags) \subseteq ElementsOf(event'.tags)
    /\ ElementsOf(event'.tags) \cap DOMAIN Tlp \subseteq ElementsOf(event.tags)
    /\ CvesOf(event) \subseteq CvesOf(event') /\ CvesOf(event') \cap WarnedCve = {}
    /\ CvssOf(event) <= CvssOf(event')
    /\ event.actors => event'.actors
    /\ event.recent => event'.recent
    /\ catalog \subseteq catalog'
    /\ \A a \in orgCtx : \E b \in orgCtx' :
         /\ a.name = b.name
         /\ CriticalityPoints({a}) <= CriticalityPoints({b})
         /\ a.sensitive => b.sensitive
         /\ a.internet => b.internet

\* No evidence against the organisation lowers an alert: neither its score nor the action
\* the tree asks for, and it is not taken back.
EvidenceNeverLowers ==
    [][MoreEvidence /\ Raised => /\ Raised'
                                /\ Score <= Score'
                                /\ Action <= Action']_<<event, catalog, orgCtx>>

\* The two judgements agree where it matters: what the tree says must be acted on is never
\* scored so low that no rule routes it.
ActIsRouted == Raised /\ Actions[Action] = "Act" => Routed

\* A match is suppressed only if both versions could be read and are different releases,
\* or the same release is written with fewer numbers or with a "v".
SuppressionIsSound ==
    \A app \in orgCtx : LET cpe == Affected(event, app) IN
        CveMatch(event, app, cpe) = "version_not_affected" =>
            /\ cpe.version.parts # <<>> /\ app.version.parts # <<>>
            /\ SameRelease(cpe.version, app.version) =>
                 \/ Len(cpe.version.parts) # Len(app.version.parts)
                 \/ cpe.version.v # app.version.v

\* "Default: allow green/clear only; block amber/red" (crowdstrike.go), whose old name for
\* clear is white. That amber+strict is amber too, the gate does not know.
Public     == {"tlp:green", "tlp:clear", "tlp:white"}
Restricted == {"tlp:red", "TLP:RED", "tlp:amber", "TLP:AMBER"}

\* No indicator of an event that MISP marks red leaves, whatever else is marked, and none
\* with a restricted marking of its own. One of a restricted event leaves only if it or
\* the event is marked public as well.
RestrictedStaysHome ==
    \A ioc \in Leaving : LET marks == ElementsOf(event.tags) IN
        /\ "tlp:red" \notin marks
        /\ ioc.tlp \notin Restricted
        /\ marks \cap Restricted # {} => (marks \cup {ioc.tlp}) \cap Public # {}

\* "Suppression reasons: App removed from tech stack; Version not affected": an alert has
\* a match that neither holds for.
AlertHasReason ==
    Raised => \E m \in Found :
        /\ m.label # "version_not_affected"
        /\ m.app = None \/ \E row \in table : row.name = m.app
=============================================================================
