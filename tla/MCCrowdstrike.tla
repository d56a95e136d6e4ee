--------------------------- MODULE MCCrowdstrike ----------------------------
(* The export on a small instance: three IOCs, one of them                    *)
(* spelled in two ways, and a spelling that is rejected.                      *)
EXTENDS Crowdstrike, TLC

CONSTANTS ip1, ip2, domain

MCIoc      == {ip1, ip2, domain}
MCSpelling == {"ip1", "ip1 defanged", "ip2", "domain", "private ip"}
MCClean    == ("ip1" :> ip1) @@ ("ip1 defanged" :> ip1) @@ ("ip2" :> ip2)
                @@ ("domain" :> domain) @@ ("private ip" :> Rejected)
=============================================================================
