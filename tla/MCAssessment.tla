---------------------------- MODULE MCAssessment ----------------------------
(* Assessment on a small instance: two applications, one CVE and a warned one. *)
EXTENDS Assessment

CONSTANTS c1, warned, httpd, postgres, web, db

Semver(parts) == [scheme |-> "semver", v |-> FALSE, parts |-> parts]
Git           == [scheme |-> "unknown", v |-> FALSE, parts |-> <<>>]
Kernel(prefix) == [scheme |-> "linux_kernel", v |-> prefix, parts |-> <<5, 10, 0>>]

Plain == [cve |-> None, cvss |-> None, product |-> None, version |-> NoVersion,
          ioc |-> FALSE, tlp |-> None]
CveAttribute(c, cvss)  == [Plain EXCEPT !.cve = c, !.cvss = cvss]
Cpe(product, version)  == [Plain EXCEPT !.product = product, !.version = version]
Indicator(tlp)         == [Plain EXCEPT !.ioc = TRUE, !.tlp = tlp]

MCCve   == {c1, warned}
MCWarned == {warned}
MCApp   == {web, db}
MCProduct == {httpd, postgres}
MCAlike == {<<httpd, web>>, <<postgres, db>>}
MCTag   == {"exploit:in-the-wild", "exploit:weaponized", "phishing", "nis2:energy",
            "tlp:red", "TLP:AMBER", "tlp:green", "tlp:clear", "tlp:amber+strict"}
MCChoice == {CveAttribute(c1, None), CveAttribute(c1, 0), CveAttribute(c1, 70),
             CveAttribute(c1, 90), CveAttribute(warned, None),
             Cpe(httpd, NoVersion), Cpe(httpd, Semver(<<2, 4>>)), Cpe(httpd, Git),
             Cpe(postgres, Kernel(FALSE)),
             Indicator(None), Indicator("tlp:green"), Indicator("tlp:amber"),
             Indicator("TLP:RED"), Indicator("tlp:amber+strict")}
\* A CVE, and the CPE of a release that nobody has installed.
MCOther  == {CveAttribute(c1, None), Cpe(httpd, Semver(<<2, 2, 0>>))}

Row(name, version, criticality, sensitive, internet) ==
    [name |-> name, version |-> version, criticality |-> criticality,
     sensitive |-> sensitive, internet |-> internet]
Web == Row(web, Semver(<<2, 4, 0>>), "critical", FALSE, TRUE)
Db  == Row(db, Kernel(TRUE), "high", FALSE, FALSE)
MCInventory == {{Web}, {[Web EXCEPT !.sensitive = TRUE]}, {Web, Db},
                {[Web EXCEPT !.criticality = "medium", !.internet = FALSE]}}

\* The exploration is cut into slices, so that only what meets in an operator is combined.
\* The table, which no verdict reads, is edited while the event is new.
Unmarked == IocsOf(event) = {} /\ ElementsOf(event.tags) \cap DOMAIN Tlp = {}
Slices ==
    /\ warned \notin catalog /\ event.named \in {{}, {web}}
    /\ \/ edits = 0 /\ table = orgCtx
       \/ event.attributes = <<>> /\ event.tags = <<>>
    /\ \/ Unmarked /\ Len(event.attributes) <= 1
       \/ Unmarked /\ Len(event.tags) <= 1 /\ ~event.actors /\ event.recent
       \/ /\ orgCtx = {Web} /\ event.named = {web} /\ ~event.actors /\ event.recent
          /\ ElementsOf(event.tags) \subseteq DOMAIN Tlp
          /\ \A a \in ElementsOf(event.attributes) : a.product = None /\ a.cvss = None
=============================================================================
