---------------------------- MODULE MCPcmConfig ----------------------------
(***************************************************************************)
(* Instances of PcmConfig for TLC.                                         *)
(***************************************************************************)
EXTENDS PcmConfig

CONSTANTS c1, c2, domain, apps, ssl

Sent(type, named, file, parts, json, accepted) ==
  [type |-> type, named |-> named, file |-> file, parts |-> parts,
   json |-> json, accepted |-> accepted]

\* A message in several parts of each kind, one the script refuses, one that
\* lacks its operation, one that is no JSON, one with an empty frame in it,
\* one that is cut after an inner brace and one with a line end after it.
Framed ==
  {Sent(None, TRUE, domain, <<"more", "open", "brace">>, TRUE, TRUE),
   Sent(None, TRUE, domain, <<"open", "brace">>, TRUE, FALSE),
   Sent("ssl_config", TRUE, ssl, <<"open", "empty", "brace">>, TRUE, TRUE),
   Sent("sdk_apps_config", TRUE, apps, <<"brace">>, TRUE, TRUE),
   Sent("sdk_apps_config", TRUE, apps, <<"brace", "brace">>, TRUE, TRUE),
   Sent("ssl_config", FALSE, ssl, <<"brace">>, TRUE, TRUE),
   Sent("ssl_config", TRUE, ssl, <<"open">>, TRUE, TRUE),
   Sent("other", TRUE, ssl, <<"more", "brace">>, TRUE, TRUE),
   Sent("waf_rule", TRUE, ssl, <<"brace">>, FALSE, FALSE)}
============================================================================
