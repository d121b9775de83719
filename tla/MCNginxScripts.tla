--------------------------- MODULE MCNginxScripts ---------------------------
(***************************************************************************)
(* Instances of NginxScripts for TLC.                                      *)
(***************************************************************************)
EXTENDS NginxScripts

CONSTANTS own, shared, rule, old, new, bad

Ssl(op, id, type, crt, key) ==
  [script |-> "ssl", json |-> TRUE, op |-> op, id |-> id, cert_type |-> type,
   crt |-> crt, key |-> key]
Waf(op, body) ==
  [script |-> "waf", json |-> TRUE, op |-> op, id |-> rule, rule_body |-> body]
Apps(op, configs) ==
  [script |-> "apps", json |-> TRUE, flags |-> TRUE, op |-> op,
   configs |-> configs, renders |-> TRUE]

\* Good and bad contents, a key that does not belong to its certificate,
\* missing keys, each operation, files that are no JSON.
Jobs ==
  {Ssl("update", own, "shared", new, new),
   Ssl("update", own, "private", new, old),
   Ssl("update", own, "private", new, None),
   Ssl("update", shared, "shared", new, new),
   Ssl("update", shared, "shared", bad, bad),
   Ssl("update", shared, None, None, new),
   Ssl("update-batch", shared, "shared", bad, bad),
   Ssl("delete", own, "private", None, None),
   Ssl("delete", shared, "shared", None, None),
   Ssl("other", own, "private", None, None),
   [Ssl("update", own, "private", new, new) EXCEPT !.json = FALSE],
   Waf("update", new), Waf("update", bad), Waf("update", None),
   Waf("update-batch", new), Waf("delete", None),
   Apps("app-update", new), Apps("app-update", bad), Apps("app-update", None),
   Apps("other", new),
   [Apps("app-update", new) EXCEPT !.renders = FALSE],
   [Apps("app-update", old) EXCEPT !.json = FALSE],
   [Apps("app-update", old) EXCEPT !.flags = FALSE]}
============================================================================
