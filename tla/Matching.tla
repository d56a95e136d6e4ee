------------------------------ MODULE Matching ------------------------------
(***************************************************************************)
(* Events, the event filter and the matchers (internal/source/misp.go,     *)
(* internal/filter, internal/match). An event is kept as MISP lists it,    *)
(* and the fields the normaliser derives from it are operators.            *)
(*                                                                         *)
(* Vendor and product names are compared by aliases and substrings; the    *)
(* constant Alike is the result. TagEvent is left out: it adds tags that   *)
(* no matcher, score or channel looks for.                                 *)
(***************************************************************************)
EXTENDS Versions, FiniteSets

CONSTANTS Cve, WarnedCve,   \* CVE numbers, and those on the warning list
          Product, App,     \* names in CPEs, names in the tech stack
          Alike,            \* the pairs of them that match
          None,             \* no CVE, product or application
          Tag,              \* tags of events and of attributes
          Sectoral,         \* those that name the organisation's sector
          Phishing,         \* those about phishing or credentials
          Matchers          \* those that the configuration enables

\* Tags with a marking, and the level the export gate reads in them; 0: it knows none.
Upper == {"TLP:RED", "TLP:AMBER"}
Tlp == [t \in Upper \cup {"tlp:red", "tlp:amber", "tlp:amber+strict", "tlp:green", "tlp:white",
                          "tlp:clear"} |->
          CASE t \in {"tlp:red", "TLP:RED"} -> 4 [] t \in {"tlp:amber", "TLP:AMBER"} -> 3
            [] t = "tlp:green" -> 2 [] t \in {"tlp:white", "tlp:clear"} -> 1 [] OTHER -> 0]

ASSUME MatchingAssumption ==
    /\ WarnedCve \subseteq Cve /\ Alike \subseteq Product \X App
    /\ None \notin Cve \cup Product \cup App \cup Tag \cup DOMAIN Tlp
    /\ Sectoral \subseteq Tag /\ Phishing \subseteq Tag
    /\ Matchers \subseteq {"CVEMatcher", "SectorMatcher", "KEVMatcher"}

\* One attribute: a CVE, a CPE or an indicator, with its marking and its score in tenths.
\* cvss is None where it carries no score.
Attribute == [cve : Cve \cup {None}, cvss : (0..100) \cup {None}, product : Product \cup {None},
              version : VersionString, ioc : BOOLEAN, tlp : (DOMAIN Tlp) \cup {None}]

\* named: the applications whose vendor or product the title contains. recent: published
\* within seven days.
Event == [tags : Seq(Tag), attributes : Seq(Attribute), actors : BOOLEAN,
          named : SUBSET App, recent : BOOLEAN]

\* A row of the tech stack.
AppRow == [name : App, version : VersionString, criticality : {"critical", "high", "medium"},
           sensitive : BOOLEAN, internet : BOOLEAN]

-----------------------------------------------------------------------------
(* NormalizeMISPEvent *)

ElementsOf(s) == {s[i] : i \in DOMAIN s}

CvesOf(event) == {a.cve : a \in ElementsOf(event.attributes)} \ {None}

\* The last attribute with a score decides, with 0 like with any other.
CvssOf(event) ==
    LET scored == {i \in DOMAIN event.attributes : event.attributes[i].cvss # None} IN
    IF scored = {} THEN 0
    ELSE event.attributes[CHOOSE i \in scored : \A j \in scored : j <= i].cvss

IocsOf(event) == {a \in ElementsOf(event.attributes) : a.ioc}

\* The first tag in S, or none.
FirstOf(tags, S) ==
    LET marked == {i \in DOMAIN tags : tags[i] \in S} IN
    IF marked = {} THEN None ELSE tags[CHOOSE i \in marked : \A j \in marked : i <= j]

\* mapTLPToConfidence of extractTLP, which looks for lower case.
SourceConfidence(event) ==
    LET tlp == FirstOf(event.tags, DOMAIN Tlp \ Upper) IN
    CASE tlp = "tlp:red" -> "high" [] tlp = "tlp:white" -> "low" [] OTHER -> "medium"

-----------------------------------------------------------------------------
(* Allow, and the matchers *)

\* Noticelists are never loaded.
Allow(event) == /\ CvesOf(event) \cap WarnedCve = {}
                /\ "tlp:red" \notin ElementsOf(event.tags)

\* matchViaAffectedProducts: the first CPE that names the application decides.
Affected(event, app) ==
    LET alike == {i \in DOMAIN event.attributes :
                    <<event.attributes[i].product, app.name>> \in Alike} IN
    IF alike = {} THEN None
    ELSE event.attributes[CHOOSE i \in alike : \A j \in alike : i <= j]

\* cveMatchesApp, of an application and the CPE that names it. A CPE names one version,
\* which is both ends of the range.
CveMatch(event, app, cpe) ==
    CASE cpe # None /\ app.version # NoVersion ->
           InRange(app.version, cpe.version, cpe.version)
      [] cpe # None /\ app.version = NoVersion -> "product_only_match"
      [] cpe = None /\ app.name \in event.named -> "weak_title_match"
      [] OTHER -> "no_match"

\* CVEMatcher.Match. A suppressed match is a match.
CveMatches(event, apps) ==
    IF CvesOf(event) = {} THEN {}
    ELSE {m \in {[by |-> "CVEMatcher", app |-> p.app.name, label |-> CveMatch(event, p.app, p.cpe)] :
                   p \in {[app |-> a, cpe |-> Affected(event, a)] : a \in apps}} :
            m.label # "no_match"}

SectorMatches(event) ==
    {[by |-> "SectorMatcher", app |-> None, label |-> "sector"] :
       t \in ElementsOf(event.tags) \cap Sectoral}

KevMatches(event, catalog) ==
    {[by |-> "KEVMatcher", app |-> None, label |-> "kev"] : c \in CvesOf(event) \cap catalog}

\* Engine.Run.
Matches(event, apps, catalog) ==
    {m \in CveMatches(event, apps) \cup SectorMatches(event) \cup KevMatches(event, catalog) :
       m.by \in Matchers}
=============================================================================
