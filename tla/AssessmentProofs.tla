-------------------------- MODULE AssessmentProofs ---------------------------
(***************************************************************************)
(* Proofs about the judgement of an event. Only the types need an          *)
(* induction; the promises about one assessment hold for each event,       *)
(* catalog and inventory of the right type, and follow from the            *)
(* definitions of matchers, score, tree and export.                        *)
(***************************************************************************)
EXTENDS Assessment, TLAPS, SequenceTheorems, WellFoundedInduction

\* The constants' part of an event's type.
EventT == [tags : Seq(Tag), attributes : Seq(AttributeChoice), actors : BOOLEAN,
           named : SUBSET App, recent : BOOLEAN]

\* A list of numbers' positions has a first one.
LEMMA HasFirst ==
  ASSUME NEW T \in SUBSET Nat, T # {}
  PROVE  \E i \in T : \A j \in T : i <= j
  <1> DEFINE R == {ss \in Nat \X Nat : ss[1] < ss[2]}
  <1>1. IsWellFoundedOn(R, Nat)
    BY NatLessThanWellFounded DEF OpToRel
  <1>2. PICK i \in T : \A j \in T : ~(<<j, i>> \in R)
    BY <1>1, WFMin
  <1>3. \A j \in T : ~(j < i)
    BY <1>2
  <1> QED
    BY <1>3

LEMMA HasLast ==
  ASSUME NEW n \in Nat, NEW T \in SUBSET (1..n), T # {}
  PROVE  \E i \in T : \A j \in T : j <= i
  <1> DEFINE D == {n - i : i \in T}
  <1>1. D \in SUBSET Nat /\ D # {}
    <2>1. \A i \in T : i \in 1..n
      OBVIOUS
    <2>2. \A i \in 1..n : n - i \in Nat
      OBVIOUS
    <2>3. \A d \in D : d \in Nat
      BY <2>1, <2>2
    <2>4. PICK i \in T : TRUE
      OBVIOUS
    <2>5. n - i \in D
      OBVIOUS
    <2> QED
      BY <2>3, <2>5
  <1>2. PICK m \in D : \A d \in D : m <= d
    <2> HIDE DEF D
    <2> QED
      BY <1>1, HasFirst
  <1>3. PICK i \in T : m = n - i
    OBVIOUS
  <1>4. ASSUME NEW j \in T PROVE j <= i
    <2>1. n - i <= n - j
      BY <1>2, <1>3
    <2>2. i \in Nat /\ j \in Nat
      OBVIOUS
    <2> QED
      BY <2>1, <2>2
  <1> QED
    BY <1>4

-----------------------------------------------------------------------------
(* Types *)

LEMMA StackStep ==
  ASSUME AssessmentTypeOK, Administer
  PROVE  StackTypeOK'
  <1> USE DEF AssessmentTypeOK, StackTypeOK
  <1>1. ASSUME NEW rows \in Inventory, Import(rows), orgCtx' \in Inventory PROVE StackTypeOK'
    BY <1>1, AssessmentAssumption DEF Import
  <1>2. ASSUME NEW rows \in SUBSET AppRow, Edit(rows) PROVE StackTypeOK'
    BY <1>2, AssessmentAssumption DEF Edit
  <1>3. ASSUME NEW rows \in Inventory, Upload(rows) PROVE StackTypeOK'
    BY <1>1, <1>3 DEF Upload
  <1>4. ASSUME NEW row \in UNION Inventory, AddRow(row) \/ UpdateRows(row) PROVE StackTypeOK'
    <2>1. row \in AppRow
      BY AssessmentAssumption
    <2>2. table \cup {row} \in SUBSET AppRow
          /\ (table \ Named(row.name)) \cup {row} \in SUBSET AppRow
      BY <2>1
    <2> QED
      BY <1>2, <1>4, <2>2 DEF AddRow, UpdateRows
  <1>5. ASSUME NEW name \in App, DeleteRows(name) PROVE StackTypeOK'
    <2>1. table \ Named(name) \in SUBSET AppRow
      OBVIOUS
    <2> QED
      BY <1>2, <1>5, <2>1 DEF DeleteRows
  <1> QED
    BY <1>3, <1>4, <1>5 DEF Administer

LEMMA EventStep ==
  ASSUME AssessmentTypeOK, NEW ev \in EventT, EditEvent(ev),
         Len(ev.tags) <= MaxTags, Len(ev.attributes) <= MaxAttributes
  PROVE  AssessmentTypeOK'
  <1>1. /\ event' \in EventT /\ event'.tags = ev.tags /\ event'.attributes = ev.attributes
        /\ UNCHANGED <<catalog, stackVars>>
    BY DEF EditEvent, EventT
  <1> QED
    BY <1>1 DEF AssessmentTypeOK, StackTypeOK, stackVars, EventT

LEMMA TypeStep ==
  ASSUME AssessmentTypeOK, [AssessmentNext]_assessmentVars
  PROVE  AssessmentTypeOK'
  <1>0. event \in EventT
    BY DEF AssessmentTypeOK, EventT
  <1>1. ASSUME NEW t \in Tag, AddTag(t) PROVE AssessmentTypeOK'
    <2> DEFINE ev == [event EXCEPT !.tags = Append(@, t)]
    <2>1. Append(event.tags, t) \in Seq(Tag) /\ Len(Append(event.tags, t)) = Len(event.tags) + 1
      BY <1>0 DEF EventT
    <2>2. /\ ev \in EventT /\ ev.tags = Append(event.tags, t)
          /\ ev.attributes = event.attributes
      BY <1>0, <2>1 DEF EventT
    <2>3. Len(event.tags) \in Nat
      BY <1>0, LenProperties DEF EventT
    <2>4. Len(ev.tags) <= MaxTags /\ Len(ev.attributes) <= MaxAttributes
      BY <1>1, <2>1, <2>2, <2>3, AssessmentAssumption DEF AddTag, AssessmentTypeOK
    <2>5. EditEvent(ev)
      BY <1>1 DEF AddTag
    <2> HIDE DEF ev
    <2> QED
      BY <2>2, <2>4, <2>5, EventStep
  <1>2. ASSUME NEW a \in AttributeChoice, AddAttribute(a) PROVE AssessmentTypeOK'
    <2> DEFINE ev == [event EXCEPT !.attributes = Append(@, a)]
    <2>1. /\ Append(event.attributes, a) \in Seq(AttributeChoice)
          /\ Len(Append(event.attributes, a)) = Len(event.attributes) + 1
      BY <1>0 DEF EventT
    <2>2. /\ ev \in EventT /\ ev.tags = event.tags
          /\ ev.attributes = Append(event.attributes, a)
      BY <1>0, <2>1 DEF EventT
    <2>3. Len(event.attributes) \in Nat
      BY <1>0, LenProperties DEF EventT
    <2>4. Len(ev.tags) <= MaxTags /\ Len(ev.attributes) <= MaxAttributes
      BY <1>2, <2>1, <2>2, <2>3, AssessmentAssumption DEF AddAttribute, AssessmentTypeOK
    <2>5. EditEvent(ev)
      BY <1>2 DEF AddAttribute
    <2> HIDE DEF ev
    <2> QED
      BY <2>2, <2>4, <2>5, EventStep
  <1>3. CASE AddActors
    <2> DEFINE ev == [event EXCEPT !.actors = TRUE]
    <2>1. ev \in EventT /\ ev.tags = event.tags /\ ev.attributes = event.attributes
      BY <1>0 DEF EventT
    <2>2. EditEvent(ev)
      BY <1>3 DEF AddActors
    <2> HIDE DEF ev
    <2> QED
      BY <2>1, <2>2, EventStep DEF AssessmentTypeOK
  <1>4. CASE Age
    <2>1. event' \in EventT /\ event'.tags = event.tags /\ event'.attributes = event.attributes
      BY <1>0, <1>4 DEF Age, EventT
    <2> QED
      BY <1>4, <2>1 DEF Age, AssessmentTypeOK, StackTypeOK, stackVars, EventT
  <1>5. ASSUME NEW cves \in SUBSET Cve, ReplaceCatalog(cves) PROVE AssessmentTypeOK'
    BY <1>5 DEF ReplaceCatalog, AssessmentTypeOK, StackTypeOK, stackVars
  <1>6. ASSUME NEW file \in Inventory, Restart(file) PROVE AssessmentTypeOK'
    BY <1>6, AssessmentAssumption
    DEF Restart, ReadInventory, Import, AssessmentTypeOK, StackTypeOK
  <1>7. CASE Administer
    BY <1>7, StackStep DEF Administer, AssessmentTypeOK
  <1>8. CASE UNCHANGED assessmentVars
    BY <1>8 DEF assessmentVars, AssessmentTypeOK, StackTypeOK
  <1> QED
    BY <1>1, <1>2, <1>3, <1>4, <1>5, <1>6, <1>7, <1>8 DEF AssessmentNext

\* The event, the catalog and both copies of the inventory keep their types, and a table
\* that nobody has edited holds a whole inventory.
THEOREM AssessmentTypeCorrect == AssessmentSpec => []AssessmentTypeOK
  <1>1. AssessmentInit => AssessmentTypeOK
    <2> SUFFICES ASSUME AssessmentInit PROVE AssessmentTypeOK
      OBVIOUS
    <2>1. StackTypeOK
      BY AssessmentAssumption DEF AssessmentInit, StackInit, StackTypeOK
    <2>2. <<>> \in Seq(Tag) /\ <<>> \in Seq(AttributeChoice) /\ Len(<<>>) = 0
      BY EmptySeq
    <2> QED
      BY <2>1, <2>2, AssessmentAssumption DEF AssessmentInit, AssessmentTypeOK
  <1>2. AssessmentTypeOK /\ [AssessmentNext]_assessmentVars => AssessmentTypeOK'
    BY TypeStep
  <1> QED
    BY <1>1, <1>2, PTL DEF AssessmentSpec

-----------------------------------------------------------------------------
(* The score and the tree *)

LEMMA PointsRange ==
  ASSUME NEW n \in Nat, NEW condition \in BOOLEAN
  PROVE  Points(n, condition) \in Nat /\ Points(n, condition) <= n
  BY DEF Points

\* The score of an event is 0 or that of one of its attributes.
LEMMA CvssType ==
  ASSUME NEW ev, ev.attributes \in Seq(AttributeChoice)
  PROVE  CvssOf(ev) \in 0..100
  <1> DEFINE scored == {i \in DOMAIN ev.attributes : ev.attributes[i].cvss # None}
  <1>1. /\ DOMAIN ev.attributes \subseteq Nat
        /\ \A i \in DOMAIN ev.attributes : ev.attributes[i] \in Attribute
    BY LenProperties, ElementOfSeq, AssessmentAssumption
  <1>2. CASE scored = {}
    BY <1>2 DEF CvssOf
  <1>3. CASE scored # {}
    <2>1. PICK n \in Nat : DOMAIN ev.attributes = 1..n
      BY <1>1, LenProperties
    <2>2. scored \in SUBSET (1..n)
      BY <2>1
    <2>3. \E i \in scored : \A j \in scored : j <= i
      <3> HIDE DEF scored
      <3> QED
        BY <1>3, <2>2, HasLast
    <2>4. (CHOOSE k \in scored : \A j \in scored : j <= k) \in scored
      BY <2>3
    <2> QED
      BY <1>1, <1>3, <2>4 DEF CvssOf, Attribute
  <1> QED
    BY <1>2, <1>3

\* Where the tree says "Act", there is an exploit, and of the applications that are hit
\* one is exposed, one critical and one sensitive.
LEMMA WhenToAct ==
  ASSUME NEW hit, NEW matches, Actions[SsvcAction(event, hit, matches)] = "Act"
  PROVE  /\ InKev(matches) \/ HasTag(event, "exploit:in-the-wild")
         /\ \E a \in hit : a.internet
         /\ \E a \in hit : a.criticality = "critical"
         /\ \E a \in hit : a.sensitive
  <1> DEFINE exploitation == Exploitation(event, matches)
             exposure == SsvcExposure(hit, matches)
             automatable == Automatable(event)
             impact == MissionImpact(hit)
  <1>1. exploitation \in {"none", "active"} /\ exposure \in {"small", "controlled", "open"}
        /\ automatable \in 1..2 /\ impact \in 1..4
    <2>1. exposure \in {"small", "controlled", "open"}
      BY DEF SsvcExposure
    <2>2. impact \in 1..4
      BY DEF MissionImpact
    <2> QED
      BY <2>1, <2>2 DEF Exploitation, Automatable
  <1>2. Actions[Deployer[exploitation][exposure][automatable][impact]] = "Act"
    BY DEF SsvcAction
  <1> HIDE DEF exploitation, exposure, automatable, impact
  <1>3. exploitation = "active" /\ exposure = "open" /\ impact >= 3
    BY <1>1, <1>2 DEF Actions, Deployer
  <1>4. InKev(matches) \/ HasTag(event, "exploit:in-the-wild")
    BY <1>3 DEF exploitation, Exploitation
  <1>5. \E a \in hit : a.internet
    BY <1>3 DEF exposure, SsvcExposure
  <1>6. (\E a \in hit : a.criticality = "critical") /\ (\E a \in hit : a.sensitive)
    BY <1>3 DEF impact, MissionImpact
  <1> QED
    BY <1>4, <1>5, <1>6

\* Every confidence has a label that the rules list.
LEMMA RoutedFromMedium ==
  ASSUME NEW n \in Nat, NEW score \in Nat, 2 * score >= 15
  PROVE  Route(Severity(score), ConfidenceLabel(n))
  <1>1. ConfidenceLabel(n) \in {"HIGH", "MEDIUM", "LOW"}
    BY DEF ConfidenceLabel
  <1>2. Steps = 75
    BY DEF Steps, MaxOf
  <1>3. Severity(score) \in {"critical", "high", "medium"}
    BY <1>2 DEF Severity
  <1> QED
    BY <1>1, <1>3 DEF Route

LEMMA ConfidenceType == Confidence(event) \in Nat
  <1>1. SourceConfidence(event) \in {"high", "low", "medium"}
    BY DEF SourceConfidence
  <1> QED
    BY <1>1 DEF Confidence, Capped, Points, MaxOf

\* The three factors, within their limits.
LEMMA FactorTypes ==
  ASSUME NEW ev, NEW hit, NEW matches
  PROVE  /\ Likelihood(ev, matches) \in 0..5
         /\ Impact(ev, hit, matches) \in 0..5
         /\ Exposure(ev, hit, matches) \in 0..3
  <1>1. Likelihood(ev, matches) \in 0..5
    BY DEF Likelihood, Capped, Points, MaxOf
  <1>2. CvssPoints(CvssOf(ev)) \in 0..3
    BY DEF CvssPoints, Points
  <1>3. CriticalityPoints(hit) \in 0..2
    BY DEF CriticalityPoints, Points
  <1>4. Impact(ev, hit, matches) \in 0..5
    BY <1>2, <1>3 DEF Impact, Capped, Points, MaxOf
  <1>5. Exposure(ev, hit, matches) \in 0..3
    BY DEF Exposure, Capped, Points, MaxOf
  <1> QED
    BY <1>1, <1>4, <1>5

LEMMA ActScores ==
  ASSUME AssessmentTypeOK, NEW hit, NEW matches,
         Actions[SsvcAction(event, hit, matches)] = "Act"
  PROVE  RiskScore(event, hit, matches) \in Nat /\ RiskScore(event, hit, matches) >= 18
  <1>1. /\ InKev(matches) \/ HasTag(event, "exploit:in-the-wild")
        /\ \E a \in hit : a.internet
        /\ \E a \in hit : a.criticality = "critical"
        /\ \E a \in hit : a.sensitive
    BY WhenToAct
  <1>2. Likelihood(event, matches) \in 3..5
    BY <1>1 DEF Likelihood, Capped, Points, MaxOf
  <1>3. Impact(event, hit, matches) \in 3..5
    <2>1. CvssPoints(CvssOf(event)) \in 0..3
      BY DEF CvssPoints, Points
    <2>2. CriticalityPoints(hit) = 2
      BY <1>1 DEF CriticalityPoints
    <2> QED
      BY <1>1, <2>1, <2>2 DEF Impact, Capped, Points, MaxOf
  <1>4. Exposure(event, hit, matches) \in 2..3
    BY <1>1 DEF Exposure, Capped, Points, MaxOf
  <1>5. \A l \in 3..5, i \in 3..5, e \in 2..3 : l * i * e \in Nat /\ l * i * e >= 18
    <2>1. \A i \in 3..5, e \in 2..3 : /\ 3 * i * e >= 18 /\ 4 * i * e >= 18 /\ 5 * i * e >= 18
                                      /\ 3 * i * e \in Nat /\ 4 * i * e \in Nat
                                      /\ 5 * i * e \in Nat
      <3>1. \A e \in 2..3 : /\ 3 * 3 * e >= 18 /\ 3 * 4 * e >= 18 /\ 3 * 5 * e >= 18
                            /\ 4 * 3 * e >= 18 /\ 4 * 4 * e >= 18 /\ 4 * 5 * e >= 18
                            /\ 5 * 3 * e >= 18 /\ 5 * 4 * e >= 18 /\ 5 * 5 * e >= 18
                            /\ 3 * 3 * e \in Nat /\ 3 * 4 * e \in Nat /\ 3 * 5 * e \in Nat
                            /\ 4 * 3 * e \in Nat /\ 4 * 4 * e \in Nat /\ 4 * 5 * e \in Nat
                            /\ 5 * 3 * e \in Nat /\ 5 * 4 * e \in Nat /\ 5 * 5 * e \in Nat
        OBVIOUS
      <3>2. \A i \in 3..5 : i = 3 \/ i = 4 \/ i = 5
        OBVIOUS
      <3> QED
        BY <3>1, <3>2
    <2>2. \A l \in 3..5 : l = 3 \/ l = 4 \/ l = 5
      OBVIOUS
    <2> QED
      BY <2>1, <2>2
  <1> QED
    BY <1>2, <1>3, <1>4, <1>5 DEF RiskScore

\* What the tree says must be acted on is scored high enough for a rule to route it: for
\* any event, inventory, catalog, matchers and confidence.
THEOREM ActsAreRouted == AssessmentSpec => []ActIsRouted
  <1>1. AssessmentTypeOK => ActIsRouted
    BY ActScores, RoutedFromMedium, ConfidenceType DEF ActIsRouted, Routed, Score, Action
  <1> QED
    BY <1>1, AssessmentTypeCorrect, PTL

-----------------------------------------------------------------------------
(* The versions *)

LEMMA NotBeforeItself ==
  ASSUME NEW n \in Nat, NEW a \in [1..n -> Nat]
  PROVE  ~Before(a, a)
  BY DEF Before

\* The same release in the same writing is never out of the range it spans.
LEMMA SameWritingInRange ==
  ASSUME NEW s \in VersionString, NEW t \in VersionString,
         InRange(s, t, t) = "version_not_affected"
  PROVE  /\ t.parts # <<>> /\ s.parts # <<>>
         /\ SameRelease(t, s) => Len(t.parts) # Len(s.parts) \/ t.v # s.v
  <1>1. Readable(s) /\ Readable(t) /\ (Before(Parse(s), Parse(t)) \/ Before(Parse(t), Parse(s)))
    BY DEF InRange
  <1>2. s.parts \in Seq(Nat) /\ t.parts \in Seq(Nat)
    BY DEF VersionString
  <1>3. ASSUME NEW x \in VersionString, x.parts = <<>> PROVE Parse(x) = <<>>
    <2>1. [x.parts EXCEPT ![1] = 0] = <<>>
      BY <1>3
    <2> QED
      BY <1>3, <2>1 DEF Parse
  <1>4. t.parts # <<>> /\ s.parts # <<>>
    BY <1>1, <1>3 DEF Readable
  <1>5. ASSUME SameRelease(t, s), Len(t.parts) = Len(s.parts), t.v = s.v PROVE FALSE
    <2>1. DOMAIN s.parts = 1..Len(s.parts) /\ DOMAIN t.parts = 1..Len(s.parts)
          /\ Len(s.parts) \in Nat
      BY <1>2, <1>5, LenProperties
    <2>2. \A i \in 1..Len(s.parts) : t.parts[i] = s.parts[i]
      BY <1>5, <2>1 DEF SameRelease, PartOf
    <2>3. t.parts = s.parts
      BY <1>2, <1>5, <2>2, SeqEqual
    <2>4. Parse(t) = Parse(s)
      BY <1>5, <2>3 DEF SameRelease, Parse
    <2>5. Parse(s) \in [1..Len(s.parts) -> Nat]
      <3>1. s.parts \in [1..Len(s.parts) -> Nat]
        BY <1>2, LenProperties
      <3>2. [s.parts EXCEPT ![1] = 0] \in [1..Len(s.parts) -> Nat]
        BY <3>1
      <3>3. Parse(s) # <<>>
        BY <1>1 DEF Readable
      <3> QED
        BY <3>1, <3>2, <3>3 DEF Parse
    <2> QED
      BY <1>1, <2>1, <2>4, <2>5, NotBeforeItself
  <1> QED
    BY <1>4, <1>5

\* The CPE that decides about an application is an attribute of the event.
LEMMA AffectedType ==
  ASSUME AssessmentTypeOK, NEW app, Affected(event, app) # None
  PROVE  Affected(event, app) \in Attribute
  <1> DEFINE alike == {i \in DOMAIN event.attributes :
                         <<event.attributes[i].product, app.name>> \in Alike}
  <1>1. /\ DOMAIN event.attributes \subseteq Nat
        /\ \A i \in DOMAIN event.attributes : event.attributes[i] \in Attribute
    BY LenProperties, ElementOfSeq, AssessmentAssumption DEF AssessmentTypeOK
  <1>2. alike # {}
    BY DEF Affected
  <1>3. \E i \in alike : \A j \in alike : i <= j
    <2>1. alike \in SUBSET Nat
      BY <1>1
    <2> HIDE DEF alike
    <2> QED
      BY <1>2, <2>1, HasFirst
  <1>4. (CHOOSE i \in alike : \A j \in alike : i <= j) \in alike
    BY <1>3
  <1> QED
    BY <1>1, <1>2, <1>4 DEF Affected

\* A suppression of a match rests on two versions that could be read and differ, or on
\* one release in two writings: for any application, event and version scheme.
THEOREM SuppressionsAreSound == AssessmentSpec => []SuppressionIsSound
  <1>1. AssessmentTypeOK => SuppressionIsSound
    <2> SUFFICES ASSUME AssessmentTypeOK, NEW app \in orgCtx,
                        CveMatch(event, app, Affected(event, app)) = "version_not_affected"
                 PROVE  LET cpe == Affected(event, app) IN
                        /\ cpe.version.parts # <<>> /\ app.version.parts # <<>>
                        /\ SameRelease(cpe.version, app.version) =>
                             \/ Len(cpe.version.parts) # Len(app.version.parts)
                             \/ cpe.version.v # app.version.v
      BY DEF SuppressionIsSound
    <2> DEFINE cpe == Affected(event, app)
    <2>1. cpe # None /\ InRange(app.version, cpe.version, cpe.version) = "version_not_affected"
      BY DEF CveMatch
    <2>2. app.version \in VersionString
      BY AssessmentAssumption DEF AssessmentTypeOK, StackTypeOK, AppRow
    <2>3. cpe.version \in VersionString
      BY <2>1, AffectedType DEF Attribute
    <2> HIDE DEF cpe
    <2>4. /\ cpe.version.parts # <<>> /\ app.version.parts # <<>>
          /\ SameRelease(cpe.version, app.version) =>
               \/ Len(cpe.version.parts) # Len(app.version.parts)
               \/ cpe.version.v # app.version.v
      BY <2>1, <2>2, <2>3, SameWritingInRange
    <2> QED
      BY <2>4 DEF cpe
  <1> QED
    BY <1>1, AssessmentTypeCorrect, PTL

-----------------------------------------------------------------------------
(* The export gate *)

\* The first tag of a set, if there is one.
LEMMA FirstOfProperties ==
  ASSUME NEW T, NEW tags \in Seq(T), NEW S, None \notin S
  PROVE  /\ FirstOf(tags, S) # None => FirstOf(tags, S) \in S \cap ElementsOf(tags)
         /\ FirstOf(tags, S) = None => ElementsOf(tags) \cap S = {}
  <1> DEFINE marked == {i \in DOMAIN tags : tags[i] \in S}
  <1>1. CASE marked = {}
    BY <1>1 DEF FirstOf, ElementsOf
  <1>2. CASE marked # {}
    <2>1. marked \in SUBSET Nat
      BY LenProperties
    <2>2. \E i \in marked : \A j \in marked : i <= j
      <3> HIDE DEF marked
      <3> QED
        BY <1>2, <2>1, HasFirst
    <2>3. (CHOOSE i \in marked : \A j \in marked : i <= j) \in marked
      BY <2>2
    <2>4. FirstOf(tags, S) = tags[CHOOSE i \in marked : \A j \in marked : i <= j]
      BY <1>2 DEF FirstOf
    <2> QED
      BY <2>3, <2>4 DEF ElementsOf
  <1> QED
    BY <1>1, <1>2

\* A tag of the set at the head is the first one.
LEMMA HeadIsFirst ==
  ASSUME NEW T, NEW tags \in Seq(T), NEW S, 1 \in DOMAIN tags, tags[1] \in S
  PROVE  FirstOf(tags, S) = tags[1]
  <1> DEFINE marked == {i \in DOMAIN tags : tags[i] \in S}
  <1>1. 1 \in marked /\ \A i \in marked : i \in Nat /\ 1 <= i
    BY LenProperties
  <1>2. (CHOOSE i \in marked : \A j \in marked : i <= j) = 1
    BY <1>1
  <1>3. FirstOf(tags, S) = tags[CHOOSE i \in marked : \A j \in marked : i <= j]
    BY <1>1 DEF FirstOf
  <1> QED
    BY <1>2, <1>3

\* The markings of an indicator are its own, at the head, and those of its event.
LEMMA MarkingProperties ==
  ASSUME AssessmentTypeOK, NEW ioc \in IocsOf(event)
  PROVE  /\ Marking(event, ioc) \in Seq(Tag \cup DOMAIN Tlp)
         /\ ElementsOf(Marking(event, ioc)) \subseteq ElementsOf(event.tags) \cup {ioc.tlp}
         /\ (ElementsOf(event.tags) \cup {ioc.tlp}) \cap DOMAIN Tlp
              \subseteq ElementsOf(Marking(event, ioc))
         /\ ioc.tlp # None => /\ 1 \in DOMAIN Marking(event, ioc)
                              /\ Marking(event, ioc)[1] = ioc.tlp
  <1> DEFINE T == Tag \cup DOMAIN Tlp
             tags == event.tags
  <1>1. tags \in Seq(T)
    BY SeqMonotonic DEF AssessmentTypeOK
  <1>2. ioc.tlp \in DOMAIN Tlp \cup {None}
    BY ElementOfSeq, LenProperties, AssessmentAssumption
    DEF IocsOf, ElementsOf, AssessmentTypeOK, Attribute
  <1> HIDE DEF T, tags
  <1>3. CASE ioc.tlp = None
    BY <1>1, <1>3, MatchingAssumption DEF Marking, T, tags
  <1>4. CASE ioc.tlp # None
    <2>1. ioc.tlp \in T
      BY <1>2, <1>4 DEF T
    <2>2. <<ioc.tlp>> \in Seq(T) /\ Len(<<ioc.tlp>>) = 1 /\ <<ioc.tlp>>[1] = ioc.tlp
      BY <2>1
    <2>3. Marking(event, ioc) = <<ioc.tlp>> \o tags
      BY <1>4 DEF Marking, tags
    <2> DEFINE own == <<ioc.tlp>>
    <2> HIDE DEF own
    <2>4. own \in Seq(T) /\ Len(own) = 1 /\ own[1] = ioc.tlp /\ Marking(event, ioc) = own \o tags
      BY <2>2, <2>3 DEF own
    <2>5. /\ own \o tags \in Seq(T)
          /\ Len(own \o tags) = 1 + Len(tags)
          /\ \A i \in 1..(1 + Len(tags)) :
               (own \o tags)[i] = IF i <= 1 THEN own[i] ELSE tags[i - 1]
      <3>1. /\ own \o tags \in Seq(T)
            /\ Len(own \o tags) = Len(own) + Len(tags)
            /\ \A i \in 1..(Len(own) + Len(tags)) :
                 (own \o tags)[i] = IF i <= Len(own) THEN own[i] ELSE tags[i - Len(own)]
        BY <1>1, <2>4, ConcatProperties, Zenon
      <3> QED
        BY <2>4, <3>1, Zenon
    <2>6. /\ Len(tags) \in Nat /\ DOMAIN tags = 1..Len(tags)
          /\ DOMAIN (own \o tags) = 1..(1 + Len(tags))
      BY <1>1, <2>5, LenProperties
    <2>7. ElementsOf(own \o tags) \subseteq ElementsOf(tags) \cup {ioc.tlp}
      BY <2>4, <2>5, <2>6 DEF ElementsOf
    <2>8. ioc.tlp \in ElementsOf(own \o tags)
      BY <2>4, <2>5, <2>6 DEF ElementsOf
    <2>9. ASSUME NEW i \in DOMAIN tags PROVE tags[i] \in ElementsOf(own \o tags)
      <3>1. i + 1 \in 1..(1 + Len(tags)) /\ (own \o tags)[i + 1] = tags[i]
        BY <2>5, <2>6
      <3> QED
        BY <2>6, <3>1 DEF ElementsOf
    <2>10. ElementsOf(tags) \subseteq ElementsOf(own \o tags)
      BY <2>9 DEF ElementsOf
    <2>11. 1 \in DOMAIN (own \o tags) /\ (own \o tags)[1] = ioc.tlp
      BY <2>4, <2>5, <2>6
    <2> QED
      BY <2>4, <2>5, <2>7, <2>8, <2>10, <2>11 DEF T, tags
  <1> QED
    BY <1>3, <1>4

\* No indicator of an event marked red leaves, none whose own marking is red or amber, in
\* either case, and one of a red or amber event only where it or the event is marked
\* public as well: for any tags in any order. Amber+strict, which the gate does not know,
\* is not among the markings it is proved for.
THEOREM RestrictedStays == AssessmentSpec => []RestrictedStaysHome
  <1>1. AssessmentTypeOK => RestrictedStaysHome
    <2> DEFINE marks == ElementsOf(event.tags)
    <2> SUFFICES ASSUME AssessmentTypeOK, NEW ioc \in Leaving
                 PROVE  /\ "tlp:red" \notin marks
                        /\ ioc.tlp \notin Restricted
                        /\ marks \cap Restricted # {} => (marks \cup {ioc.tlp}) \cap Public # {}
      BY DEF RestrictedStaysHome
    <2> DEFINE S == {t \in DOMAIN Tlp : Tlp[t] > 0}
               tags == Marking(event, ioc)
               first == FirstOf(tags, S)
    <2>1. Raised /\ ioc \in Exported(event, Severity(Score))
      BY DEF Leaving
    <2>2. "tlp:red" \notin marks
      BY <2>1 DEF Raised, Allow
    <2>3. ioc \in IocsOf(event) /\ ~Blocked(tags)
      BY <2>1 DEF Exported
    <2>4. /\ tags \in Seq(Tag \cup DOMAIN Tlp)
          /\ ElementsOf(tags) \subseteq marks \cup {ioc.tlp}
          /\ (marks \cup {ioc.tlp}) \cap DOMAIN Tlp \subseteq ElementsOf(tags)
          /\ ioc.tlp # None => 1 \in DOMAIN tags /\ tags[1] = ioc.tlp
      BY <2>3, MarkingProperties
    <2>5. None \notin S
      BY MatchingAssumption
    <2>6. first = None \/ ~(Tlp[first] > 2)
      BY <2>3 DEF Blocked
    <2>7. /\ \A t \in Restricted : t \in S /\ t \in DOMAIN Tlp /\ Tlp[t] > 2
          /\ \A t \in S : ~(Tlp[t] > 2) => t \in Public
      BY DEF Tlp, Restricted, Public, Upper
    <2> HIDE DEF tags, S, marks
    <2>8. ASSUME ioc.tlp \in Restricted PROVE FALSE
      <3>1. ioc.tlp \in S /\ ioc.tlp # None
        BY <2>5, <2>7, <2>8
      <3>2. first = ioc.tlp
        BY <2>4, <3>1, HeadIsFirst
      <3> QED
        BY <2>6, <2>7, <2>8, <3>1, <3>2
    <2>9. ASSUME NEW t \in marks, t \in Restricted
          PROVE  (marks \cup {ioc.tlp}) \cap Public # {}
      <3>1. t \in ElementsOf(tags) /\ t \in S
        BY <2>4, <2>7, <2>9
      <3>2. first \in S \cap ElementsOf(tags) /\ first # None
        BY <2>4, <2>5, <3>1, FirstOfProperties
      <3>3. first \in Public /\ first \in marks \cup {ioc.tlp}
        BY <2>4, <2>6, <2>7, <3>2
      <3> QED
        BY <3>3
    <2> QED
      BY <2>2, <2>8, <2>9
  <1> QED
    BY <1>1, AssessmentTypeCorrect, PTL

-----------------------------------------------------------------------------
(* Evidence never lowers an alert *)

\* An application that weighs at least as much, and an inventory of such.
AtLeast(a, b) == /\ a.name = b.name
                 /\ CriticalityPoints({a}) <= CriticalityPoints({b})
                 /\ a.sensitive => b.sensitive
                 /\ a.internet => b.internet
Stronger(apps, others) == \A a \in apps : \E b \in others : AtLeast(a, b)

\* What an edit of an event leaves alone.
Extends(ev, later) ==
    /\ later.named = ev.named
    /\ \A i \in DOMAIN ev.attributes : /\ i \in DOMAIN later.attributes
                                       /\ later.attributes[i] = ev.attributes[i]

\* The CVE matcher finds an application by a CPE or by the title, whatever the versions.
LEMMA FoundBy ==
  ASSUME NEW ev, ev.attributes \in Seq(AttributeChoice), NEW app
  PROVE  CveMatch(ev, app, Affected(ev, app)) # "no_match" <=>
           \/ \E i \in DOMAIN ev.attributes : <<ev.attributes[i].product, app.name>> \in Alike
           \/ app.name \in ev.named
  <1> DEFINE alike == {i \in DOMAIN ev.attributes :
                         <<ev.attributes[i].product, app.name>> \in Alike}
             cpe == Affected(ev, app)
  <1>1. cpe # None <=> alike # {}
    <2>1. CASE alike = {}
      BY <2>1 DEF Affected
    <2>2. CASE alike # {}
      <3>1. alike \in SUBSET Nat
        BY LenProperties
      <3>2. \E i \in alike : \A j \in alike : i <= j
        <4> HIDE DEF alike
        <4> QED
          BY <2>2, <3>1, HasFirst
      <3>3. (CHOOSE i \in alike : \A j \in alike : i <= j) \in alike
        BY <3>2
      <3>4. \A i \in alike : ev.attributes[i] \in AttributeChoice
        BY ElementOfSeq, LenProperties
      <3>5. cpe \in AttributeChoice
        BY <2>2, <3>3, <3>4 DEF Affected
      <3> QED
        BY <2>2, <3>5, AssessmentAssumption
    <2> QED
      BY <2>1, <2>2
  <1> HIDE DEF cpe
  <1>2. CASE cpe # None
    <2>1. InRange(app.version, cpe.version, cpe.version) # "no_match"
      BY DEF InRange
    <2>2. CveMatch(ev, app, cpe) \in {InRange(app.version, cpe.version, cpe.version),
                                      "product_only_match"}
      BY <1>2 DEF CveMatch
    <2>3. CveMatch(ev, app, cpe) # "no_match"
      BY <2>1, <2>2
    <2> QED
      BY <1>1, <1>2, <2>3 DEF cpe
  <1>3. CASE cpe = None
    <2>1. CveMatch(ev, app, cpe) # "no_match" <=> app.name \in ev.named
      BY <1>3 DEF CveMatch
    <2> QED
      BY <1>1, <1>3, <2>1 DEF cpe
  <1> QED
    BY <1>2, <1>3

\* A match of the CVE matcher names an application that it found.
LEMMA CveMatchesAre ==
  ASSUME NEW ev, NEW apps, NEW m
  PROVE  m \in CveMatches(ev, apps) <=>
           /\ CvesOf(ev) # {}
           /\ \E a \in apps : /\ CveMatch(ev, a, Affected(ev, a)) # "no_match"
                              /\ m = [by |-> "CVEMatcher", app |-> a.name,
                                      label |-> CveMatch(ev, a, Affected(ev, a))]
  <1> DEFINE pairs == {[app |-> a, cpe |-> Affected(ev, a)] : a \in apps}
             match(p) == [by |-> "CVEMatcher", app |-> p.app.name,
                          label |-> CveMatch(ev, p.app, p.cpe)]
             found(a) == [by |-> "CVEMatcher", app |-> a.name,
                          label |-> CveMatch(ev, a, Affected(ev, a))]
  <1>1. {match(p) : p \in pairs} = {found(a) : a \in apps}
    <2>1. \A a \in apps : match([app |-> a, cpe |-> Affected(ev, a)]) = found(a)
      OBVIOUS
    <2> HIDE DEF match, found
    <2> QED
      BY <2>1
  <1>2. CveMatches(ev, apps) = IF CvesOf(ev) = {} THEN {}
                               ELSE {x \in {match(p) : p \in pairs} : x.label # "no_match"}
    BY DEF CveMatches
  <1>3. \A a \in apps : found(a).label = CveMatch(ev, a, Affected(ev, a))
    OBVIOUS
  <1> HIDE DEF pairs, match
  <1> QED
    BY <1>1, <1>2, <1>3

\* Every match is found again, of the same matcher and the same application.
LEMMA MatchesGrow ==
  ASSUME NEW ev, NEW later, NEW apps, NEW others, NEW kev, NEW cves,
         ev.attributes \in Seq(AttributeChoice), later.attributes \in Seq(AttributeChoice),
         Extends(ev, later), Stronger(apps, others), kev \subseteq cves,
         CvesOf(ev) \subseteq CvesOf(later),
         ElementsOf(ev.tags) \subseteq ElementsOf(later.tags)
  PROVE  \A m \in Matches(ev, apps, kev) : \E n \in Matches(later, others, cves) :
            n.by = m.by /\ n.app = m.app
  <1> TAKE m \in Matches(ev, apps, kev)
  <1>1. m.by \in Matchers
    BY DEF Matches
  <1>2. CASE m \in CveMatches(ev, apps)
    <2>1. PICK a \in apps : /\ CveMatch(ev, a, Affected(ev, a)) # "no_match"
                            /\ m = [by |-> "CVEMatcher", app |-> a.name,
                                    label |-> CveMatch(ev, a, Affected(ev, a))]
      BY <1>2, CveMatchesAre
    <2>2. PICK b \in others : AtLeast(a, b)
      BY DEF Stronger
    <2>3. b.name = a.name
      BY <2>2 DEF AtLeast
    <2>4. \/ \E i \in DOMAIN ev.attributes : <<ev.attributes[i].product, a.name>> \in Alike
          \/ a.name \in ev.named
      BY <2>1, FoundBy
    <2>5. CveMatch(later, b, Affected(later, b)) # "no_match"
      <3>1. \/ \E i \in DOMAIN later.attributes :
                 <<later.attributes[i].product, b.name>> \in Alike
            \/ b.name \in later.named
        BY <2>3, <2>4 DEF Extends
      <3> QED
        BY <3>1, FoundBy
    <2> DEFINE n == [by |-> "CVEMatcher", app |-> b.name,
                     label |-> CveMatch(later, b, Affected(later, b))]
    <2>6. CvesOf(later) # {}
      <3>1. CvesOf(ev) # {}
        BY <1>2, CveMatchesAre
      <3> QED
        BY <3>1
    <2>7. n \in CveMatches(later, others)
      BY <2>5, <2>6, CveMatchesAre
    <2>8. n.by = m.by /\ n.app = m.app
      BY <2>1, <2>3
    <2>9. n \in Matches(later, others, cves)
      BY <1>1, <2>7, <2>8 DEF Matches
    <2> QED
      BY <2>8, <2>9
  <1>3. CASE m \in SectorMatches(ev)
    <2>1. m \in SectorMatches(later)
      BY <1>3 DEF SectorMatches
    <2> QED
      BY <1>1, <2>1 DEF Matches
  <1>4. CASE m \in KevMatches(ev, kev)
    <2>1. m \in KevMatches(later, cves)
      BY <1>4 DEF KevMatches
    <2> QED
      BY <1>1, <2>1 DEF Matches
  <1> QED
    BY <1>2, <1>3, <1>4 DEF Matches

\* The applications that are hit weigh at least as much.
LEMMA HitGrows ==
  ASSUME NEW apps, NEW others, NEW found, NEW more, Stronger(apps, others),
         \A m \in found : \E n \in more : n.by = m.by /\ n.app = m.app
  PROVE  Stronger(Hit(apps, found), Hit(others, more))
  <1> SUFFICES ASSUME NEW a \in Hit(apps, found)
               PROVE  \E b \in Hit(others, more) : AtLeast(a, b)
    BY DEF Stronger
  <1>1. PICK m \in found : a \in apps /\ m.app = a.name
    BY DEF Hit
  <1>2. PICK b \in others : AtLeast(a, b)
    BY <1>1 DEF Stronger
  <1>3. PICK n \in more : n.app = m.app
    OBVIOUS
  <1>4. b \in Hit(others, more)
    BY <1>1, <1>2, <1>3 DEF Hit, AtLeast
  <1> QED
    BY <1>2, <1>4

LEMMA CriticalityOfOne ==
  ASSUME NEW a
  PROVE  CriticalityPoints({a}) = IF a.criticality = "critical" THEN 2
                                  ELSE IF a.criticality = "high" THEN 1 ELSE 0
  BY DEF CriticalityPoints, Points

\* What is true of one of the applications is true of one of the others.
LEMMA StrongerFacts ==
  ASSUME NEW hit, NEW other, Stronger(hit, other)
  PROVE  /\ (\E a \in hit : a.criticality = "critical")
              => \E b \in other : b.criticality = "critical"
         /\ (\E a \in hit : a.criticality = "high")
              => \E b \in other : b.criticality \in {"critical", "high"}
         /\ (\E a \in hit : a.sensitive) => \E b \in other : b.sensitive
         /\ (\E a \in hit : a.internet) => \E b \in other : b.internet
         /\ (\E a \in hit : a.criticality = "critical" /\ a.internet)
              => \E b \in other : b.criticality = "critical" /\ b.internet
  <1>1. ASSUME NEW a \in hit
        PROVE  \E b \in other : /\ a.criticality = "critical" => b.criticality = "critical"
                                /\ a.criticality = "high" => b.criticality \in {"critical", "high"}
                                /\ a.sensitive => b.sensitive
                                /\ a.internet => b.internet
    <2>1. PICK b \in other : AtLeast(a, b)
      BY DEF Stronger
    <2>2. /\ a.criticality = "critical" => b.criticality = "critical"
          /\ a.criticality = "high" => b.criticality \in {"critical", "high"}
      BY <2>1, CriticalityOfOne DEF AtLeast
    <2> QED
      BY <2>1, <2>2 DEF AtLeast
  <1> QED
    BY <1>1

\* What is worse about the event and its matches.
Worse(ev, later, found, more) ==
    /\ ElementsOf(ev.tags) \subseteq ElementsOf(later.tags)
    /\ CvssOf(ev) \in 0..100 /\ CvssOf(later) \in 0..100 /\ CvssOf(ev) <= CvssOf(later)
    /\ ev.actors => later.actors
    /\ ev.recent => later.recent
    /\ \A m \in found : \E n \in more : n.by = m.by /\ n.app = m.app

LEMMA LikelihoodGrows ==
  ASSUME NEW ev, NEW later, NEW found, NEW more, Worse(ev, later, found, more)
  PROVE  Likelihood(ev, found) <= Likelihood(later, more)
  <1>1. /\ InKev(found) \/ HasTag(ev, "exploit:in-the-wild")
             => InKev(more) \/ HasTag(later, "exploit:in-the-wild")
        /\ HasTag(ev, "exploit:weaponized") => HasTag(later, "exploit:weaponized")
        /\ ev.actors => later.actors
        /\ ev.recent => later.recent
    BY DEF Worse, InKev, HasTag
  <1>2. ASSUME NEW n \in Nat, NEW p, NEW q, p => q
        PROVE  Points(n, p) <= Points(n, q) /\ Points(n, p) \in 0..n /\ Points(n, q) \in 0..n
    BY <1>2 DEF Points
  <1>3. \A x \in Nat, y \in Nat : x <= y => Capped(x, MaxOf.likelihood) <= Capped(y, MaxOf.likelihood)
    BY DEF Capped, MaxOf
  <1> DEFINE x == Points(3, InKev(found) \/ HasTag(ev, "exploit:in-the-wild"))
                    + Points(2, HasTag(ev, "exploit:weaponized"))
                    + Points(1, ev.actors) + Points(1, ev.recent)
             y == Points(3, InKev(more) \/ HasTag(later, "exploit:in-the-wild"))
                    + Points(2, HasTag(later, "exploit:weaponized"))
                    + Points(1, later.actors) + Points(1, later.recent)
  <1>4. x \in Nat /\ y \in Nat /\ x <= y
    BY <1>1 DEF Points
  <1>5. Likelihood(ev, found) = Capped(x, MaxOf.likelihood)
        /\ Likelihood(later, more) = Capped(y, MaxOf.likelihood)
    BY DEF Likelihood
  <1> HIDE DEF x, y
  <1> QED
    BY <1>3, <1>4, <1>5

\* A worse score or a more critical application makes up for the point that a match is
\* worth without them.
LEMMA ImpactGrows ==
  ASSUME NEW ev, NEW later, NEW found, NEW more, Worse(ev, later, found, more),
         NEW hit, NEW other, Stronger(hit, other)
  PROVE  Impact(ev, hit, found) <= Impact(later, other, more)
  <1> DEFINE x == CvssPoints(CvssOf(ev))
             y == CvssPoints(CvssOf(later))
             c == CriticalityPoints(hit)
             d == CriticalityPoints(other)
             s == Points(1, \E a \in hit : a.sensitive)
             t == Points(1, \E a \in other : a.sensitive)
             m == Points(1, x + c = 0 /\ found # {})
             n == Points(1, y + d = 0 /\ more # {})
  <1>1. x \in 0..3 /\ y \in 0..3 /\ x <= y
    BY DEF Worse, CvssPoints, Points
  <1>2. c \in 0..2 /\ d \in 0..2 /\ c <= d
    BY StrongerFacts DEF CriticalityPoints, Points
  <1>3. s \in 0..1 /\ t \in 0..1 /\ s <= t
    BY StrongerFacts DEF Points
  <1>4. m \in 0..1 /\ n \in 0..1 /\ (m = 1 => x + c = 0 /\ (n = 1 \/ y + d # 0))
    BY DEF Points, Worse
  <1>5. Impact(ev, hit, found) = Capped(m + (x + c) + s, 5)
        /\ Impact(later, other, more) = Capped(n + (y + d) + t, 5)
    BY DEF Impact, MaxOf
  <1> HIDE DEF x, y, c, d, s, t, m, n
  <1>6. m + (x + c) + s <= n + (y + d) + t
    BY <1>1, <1>2, <1>3, <1>4
  <1> QED
    BY <1>1, <1>2, <1>3, <1>4, <1>5, <1>6 DEF Capped

LEMMA ExposureGrows ==
  ASSUME NEW ev, NEW later, NEW found, NEW more, Worse(ev, later, found, more),
         NEW hit, NEW other, Stronger(hit, other)
  PROVE  Exposure(ev, hit, found) <= Exposure(later, other, more)
  <1>1. /\ (\E a \in hit : a.internet) => \E b \in other : b.internet
        /\ found # {} => more # {}
        /\ ElementsOf(ev.tags) \cap Phishing # {} => ElementsOf(later.tags) \cap Phishing # {}
    BY StrongerFacts DEF Worse
  <1> QED
    BY <1>1 DEF Exposure, Capped, Points, MaxOf

\* A product grows with its factors.
LEMMA ProductGrows ==
  ASSUME NEW l \in Nat, NEW i \in Nat, NEW e \in Nat, NEW k \in Nat, NEW j \in Nat, NEW f \in Nat,
         l <= k, i <= j, e <= f
  PROVE  l * i * e <= k * j * f
  <1>1. \A a \in Nat, b \in Nat, c \in Nat : a <= b => a * c <= b * c /\ c * a <= c * b
    OBVIOUS
  <1>2. l * i <= k * i /\ k * i <= k * j /\ l * i \in Nat /\ k * i \in Nat /\ k * j \in Nat
    BY <1>1
  <1> DEFINE x == l * i
             y == k * j
  <1>3. x <= y /\ x \in Nat /\ y \in Nat
    BY <1>2
  <1> HIDE DEF x, y
  <1>4. x * e <= y * e /\ y * e <= y * f /\ x * e \in Nat /\ y * e \in Nat /\ y * f \in Nat
    BY <1>1, <1>3
  <1>5. x * e <= y * f
    BY <1>4
  <1> QED
    BY <1>5 DEF x, y

LEMMA ScoreGrows ==
  ASSUME NEW ev, NEW later, NEW found, NEW more, Worse(ev, later, found, more),
         NEW hit, NEW other, Stronger(hit, other)
  PROVE  RiskScore(ev, hit, found) <= RiskScore(later, other, more)
  <1>1. /\ Likelihood(ev, found) \in Nat /\ Likelihood(later, more) \in Nat
        /\ Impact(ev, hit, found) \in Nat /\ Impact(later, other, more) \in Nat
        /\ Exposure(ev, hit, found) \in Nat /\ Exposure(later, other, more) \in Nat
    BY FactorTypes
  <1> QED
    BY <1>1, LikelihoodGrows, ImpactGrows, ExposureGrows, ProductGrows DEF RiskScore

-----------------------------------------------------------------------------
(* The tree *)

\* The order of the exposures in the table.
ExposureRank == [small |-> 1, controlled |-> 2, open |-> 3]

\* No decision point that gets worse asks for less.
LEMMA ActionGrows ==
  ASSUME NEW ev, NEW later, NEW found, NEW more, Worse(ev, later, found, more),
         NEW hit, NEW other, Stronger(hit, other)
  PROVE  SsvcAction(ev, hit, found) <= SsvcAction(later, other, more)
  <1>1. /\ Exploitation(ev, found) \in {"none", "active"}
        /\ Exploitation(later, more) \in {"none", "active"}
        /\ Exploitation(ev, found) = "active" => Exploitation(later, more) = "active"
    BY DEF Worse, InKev, HasTag, Exploitation
  <1>2. /\ SsvcExposure(hit, found) \in {"small", "controlled", "open"}
        /\ SsvcExposure(other, more) \in {"small", "controlled", "open"}
        /\ ExposureRank[SsvcExposure(hit, found)] <= ExposureRank[SsvcExposure(other, more)]
    <2>1. /\ (\E a \in hit : a.internet) => \E b \in other : b.internet
          /\ found # {} => more # {}
      BY StrongerFacts DEF Worse
    <2>2. SsvcExposure(hit, found) = IF \E a \in hit : a.internet THEN "open"
                                     ELSE IF found # {} THEN "controlled" ELSE "small"
      BY DEF SsvcExposure
    <2>3. SsvcExposure(other, more) = IF \E a \in other : a.internet THEN "open"
                                      ELSE IF more # {} THEN "controlled" ELSE "small"
      BY DEF SsvcExposure
    <2> QED
      BY <2>1, <2>2, <2>3 DEF ExposureRank
  <1>3. Automatable(ev) \in 1..2 /\ Automatable(later) \in 1..2
        /\ Automatable(ev) <= Automatable(later)
    BY DEF Worse, Automatable
  <1>4. MissionImpact(hit) \in 1..4 /\ MissionImpact(other) \in 1..4
        /\ MissionImpact(hit) <= MissionImpact(other)
    <2> DEFINE critical(h)  == \E a \in h : a.criticality = "critical"
               exposed(h)   == \E a \in h : a.criticality = "critical" /\ a.internet
               sensitive(h) == \E a \in h : a.sensitive
               high(h)      == \E a \in h : a.criticality = "high"
    <2>1. ASSUME NEW h
          PROVE  MissionImpact(h) = IF critical(h)
                                      THEN IF sensitive(h) THEN IF exposed(h) THEN 4 ELSE 3 ELSE 2
                                      ELSE IF high(h) THEN 2 ELSE 1
      BY DEF MissionImpact
    <2>2. /\ critical(hit) => critical(other)
          /\ high(hit) => critical(other) \/ high(other)
          /\ sensitive(hit) => sensitive(other)
          /\ exposed(hit) => exposed(other)
      BY StrongerFacts
    <2> HIDE DEF critical, exposed, sensitive, high
    <2> QED
      BY <2>1, <2>2
  <1> DEFINE x == Exploitation(ev, found)
             y == Exploitation(later, more)
             e == SsvcExposure(hit, found)
             f == SsvcExposure(other, more)
             a == Automatable(ev)
             b == Automatable(later)
             i == MissionImpact(hit)
             j == MissionImpact(other)
  <1>5. SsvcAction(ev, hit, found) = Deployer[x][e][a][i]
        /\ SsvcAction(later, other, more) = Deployer[y][f][b][j]
    BY DEF SsvcAction
  <1>6. /\ x \in {"none", "active"} /\ y \in {"none", "active"} /\ (x = "active" => y = "active")
        /\ e \in {"small", "controlled", "open"} /\ f \in {"small", "controlled", "open"}
        /\ ExposureRank[e] <= ExposureRank[f]
        /\ a \in 1..2 /\ b \in 1..2 /\ a <= b
        /\ i \in 1..4 /\ j \in 1..4 /\ i <= j
    BY <1>1, <1>2, <1>3, <1>4
  <1> HIDE DEF x, y, e, f, a, b, i, j
  <1>7. Deployer[x][e][a][i] <= Deployer[y][f][b][j]
    <2>1. (a = 1 \/ a = 2) /\ (b = 1 \/ b = 2)
      BY <1>6
    <2>2. (i = 1 \/ i = 2 \/ i = 3 \/ i = 4) /\ (j = 1 \/ j = 2 \/ j = 3 \/ j = 4)
      BY <1>6
    <2>3. CASE x = "none" /\ y = "none"
      BY <1>6, <2>1, <2>2, <2>3 DEF Deployer, ExposureRank
    <2>4. CASE x = "none" /\ y = "active"
      BY <1>6, <2>1, <2>2, <2>4 DEF Deployer, ExposureRank
    <2>5. CASE x = "active" /\ y = "active"
      BY <1>6, <2>1, <2>2, <2>5 DEF Deployer, ExposureRank
    <2> QED
      BY <1>6, <2>3, <2>4, <2>5
  <1> QED
    BY <1>5, <1>7

-----------------------------------------------------------------------------
(* Two assessments *)

\* No step takes an attribute from the event, or changes its title.
LEMMA StepExtends ==
  ASSUME AssessmentTypeOK, [AssessmentNext]_assessmentVars
  PROVE  Extends(event, event')
  <1>1. event \in EventT
    BY DEF AssessmentTypeOK, EventT
  <1>2. CASE event'.named = event.named /\ event'.attributes = event.attributes
    BY <1>2 DEF Extends
  <1>3. ASSUME NEW a \in AttributeChoice, AddAttribute(a) PROVE Extends(event, event')
    <2>1. /\ event'.named = event.named
          /\ event'.attributes = Append(event.attributes, a)
      BY <1>1, <1>3 DEF AddAttribute, EditEvent, EventT
    <2>2. event.attributes \in Seq(AttributeChoice) /\ Len(event.attributes) \in Nat
      BY <1>1 DEF EventT
    <2>3. \A i \in DOMAIN event.attributes : /\ i \in DOMAIN event'.attributes
                                             /\ event'.attributes[i] = event.attributes[i]
      BY <2>1, <2>2, AppendProperties
    <2> QED
      BY <2>1, <2>3 DEF Extends
  <1>4. ASSUME NEW t \in Tag, AddTag(t) PROVE Extends(event, event')
    BY <1>1, <1>2, <1>4 DEF AddTag, EditEvent, EventT
  <1>5. CASE AddActors \/ Age
    BY <1>1, <1>2, <1>5 DEF AddActors, Age, EditEvent, EventT
  <1>6. CASE UNCHANGED event
    BY <1>2, <1>6
  <1> QED
    BY <1>3, <1>4, <1>5, <1>6
    DEF AssessmentNext, ReplaceCatalog, Restart, Administer, assessmentVars

\* More evidence of whatever kind: the score and the action stay or rise.
LEMMA EvidenceCounts ==
  ASSUME AssessmentTypeOK, AssessmentTypeOK', Extends(event, event'), MoreEvidence, Raised
  PROVE  Raised' /\ Score <= Score' /\ Action <= Action'
  <1> DEFINE later  == event'
             others == orgCtx'
             cves   == catalog'
             more   == Matches(later, others, cves)
  <1>1. /\ event.attributes \in Seq(AttributeChoice)
        /\ later.attributes \in Seq(AttributeChoice)
    BY DEF AssessmentTypeOK
  <1>2. CvssOf(event) \in 0..100 /\ CvssOf(later) \in 0..100
    BY <1>1, CvssType
  <1>3. Stronger(orgCtx, others)
    BY DEF MoreEvidence, Stronger, AtLeast
  <1>4. \A m \in Found : \E n \in more : n.by = m.by /\ n.app = m.app
    <2>1. /\ Extends(event, later) /\ catalog \subseteq cves
          /\ CvesOf(event) \subseteq CvesOf(later)
          /\ ElementsOf(event.tags) \subseteq ElementsOf(later.tags)
      BY DEF MoreEvidence
    <2> HIDE DEF later, others, cves
    <2> QED
      BY <1>1, <1>3, <2>1, MatchesGrow DEF Found
  <1>5. Worse(event, later, Found, more)
    BY <1>2, <1>4 DEF MoreEvidence, Worse
  <1>6. Stronger(Hit(orgCtx, Found), Hit(others, more))
    <2> HIDE DEF others, more
    <2> QED
      BY <1>3, <1>4, HitGrows
  <1>7. RiskScore(event, Hit(orgCtx, Found), Found) <= RiskScore(later, Hit(others, more), more)
    <2> HIDE DEF later, others, more
    <2> QED
      BY <1>5, <1>6, ScoreGrows
  <1>8. SsvcAction(event, Hit(orgCtx, Found), Found) <= SsvcAction(later, Hit(others, more), more)
    <2> HIDE DEF later, others, more
    <2> QED
      BY <1>5, <1>6, ActionGrows
  <1>9. Allow(later)
    <2>1. "tlp:red" \in DOMAIN Tlp
      BY DEF Tlp
    <2> QED
      BY <2>1 DEF MoreEvidence, Raised, Allow
  <1>10. more # {}
    BY <1>4 DEF Raised
  <1>11. Found' = more
    BY DEF Found
  <1> QED
    BY <1>7, <1>8, <1>9, <1>10, <1>11 DEF Raised, Score, Action

\* New evidence against the organisation never lowers an alert's score or the action
\* that the tree asks for, and never takes the alert back: whatever the versions, the
\* names that are alike, the matchers that are enabled, and the inventory.
THEOREM EvidenceCountsAlways == AssessmentSpec => EvidenceNeverLowers
  <1> DEFINE Counts == MoreEvidence /\ Raised => /\ Raised'
                                                 /\ Score <= Score'
                                                 /\ Action <= Action'
  <1>1. AssessmentTypeOK /\ AssessmentTypeOK' /\ [AssessmentNext]_assessmentVars
          => [Counts]_<<event, catalog, orgCtx>>
    BY StepExtends, EvidenceCounts
  <1> QED
    BY <1>1, AssessmentTypeCorrect, PTL DEF AssessmentSpec, EvidenceNeverLowers
=============================================================================
