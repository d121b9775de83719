-------------------------- MODULE MCDomainConfig --------------------------
(***************************************************************************)
(* Instances of DomainConfig for TLC.  Varnish variables v1 and v2 differ  *)
(* in their caching rules, Nginx variables n1 and n2 in what cached HTML   *)
(* depends on; nbad and vbad are refused by Nginx and by Varnish.          *)
(***************************************************************************)
EXTENDS DomainConfig, TLC

CONSTANTS a, b, p1

MCNVar == {"n1", "n2", "nbad"}
MCVVar == {"v1", "v2", "vbad"}
MCRules == ("v1" :> "r1") @@ ("v2" :> "r2") @@ ("vbad" :> "r2")
MCHtml == ("n1" :> "h1") @@ ("n2" :> "h2") @@ ("nbad" :> "h2")

Req(kind, s, n, v) == [kind |-> kind, site |-> s, n |-> n, v |-> v]

UpdateRequests ==
  {Req("config", a, "n1", "v1"), Req("config", a, "n2", "v1"),
   Req("config", a, "n1", "v2"), Req("config", a, "n2", "vbad"),
   Req("delete", a, "n1", "v1"), Req("force", b, "n1", "v2")}

\* Requests that only differ in their caching rules.
RuleRequests == {Req("config", a, "n1", "v1"), Req("config", a, "n1", "v2")}

\* Requests that only differ in their Nginx variables.
NginxRequests == {Req("config", a, "n1", "v1"), Req("config", a, "n2", "v1")}

\* The calls these requests make of configure_all.
MCJobs ==
  {AddJob(r) : r \in Requests} \union {DeleteJob(r) : r \in Requests}
  \union {UpdateJob(r, vc, cc) : r \in Requests, vc \in BOOLEAN, cc \in BOOLEAN}
============================================================================
