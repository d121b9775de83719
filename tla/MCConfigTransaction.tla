------------------------ MODULE MCConfigTransaction ------------------------
(***************************************************************************)
(* Instances of ConfigTransaction for TLC: the calls that                  *)
(* pc-apache-config.py makes (one command each), and the command lists     *)
(* that apache-config.py puts together.                                    *)
(***************************************************************************)
EXTENDS ConfigTransaction

CONSTANTS a, b, p1

MCNVar == {"n1", "n2", "nbad"}
MCVVar == {"v1", "v2", "vbad"}

Cmd(type, site, templates, n, v) ==
  [type |-> type, site |-> site, named |-> TRUE, templates |-> templates,
   nvars |-> n, vvars |-> v]

Call(commands, vchanged, cchanged) ==
  [version |-> 5, commands |-> commands, varnish_changed |-> vchanged,
   config_changed |-> cchanged]

One(cmd, vchanged, cchanged) == Call(<<cmd>>, vchanged, cchanged)

\* add_or_update_domain and delete_domain
Add(s, n) == One(Cmd("config", s, TRUE, n, "v1"), FALSE, TRUE)
Update(s, n, v, vc, cc) == One(Cmd("config", s, FALSE, n, v), vc, cc)
Batch(s, n, v) == One(Cmd("batch", s, FALSE, n, v), TRUE, TRUE)
Force(s, n, v) == One(Cmd("force", s, FALSE, n, v), TRUE, TRUE)
Delete(s) == Call(<<Cmd("delete", s, FALSE, None, None)>>, None, None)

\* apache-config.py: no flags, and "del" gives no domain name
CliFlush == Cmd("flush", None, FALSE, None, None)
CliTemplate == Cmd("varnish_template", None, FALSE, None, None)
CliCerts(s) == Cmd("certs", s, FALSE, None, None)
CliConfig(s) == Cmd("config", s, TRUE, "n1", "v1")
CliDelete(s) == [Cmd("delete", s, FALSE, None, None) EXCEPT !.named = FALSE]
Cli(commands) == Call(commands, None, None)

\* Calls with one command of the policy script, accepted and refused, and lists
\* of the remote client.
MCJobs ==
  {Add(a, "n1"), Add(a, "nbad"), Update(a, "n2", "v2", TRUE, TRUE),
   Update(a, "n2", "vbad", TRUE, TRUE), Update(a, "n1", None, FALSE, TRUE),
   Update(a, "n1", None, TRUE, TRUE), Update(a, "n1", "v2", TRUE, FALSE),
   Batch(a, "nbad", "v2"), Force(b, "n1", "v1"), Delete(a),
   [Delete(a) EXCEPT !.version = 4],
   Cli(<<CliFlush, CliTemplate>>), Cli(<<CliConfig(a)>>),
   Cli(<<CliCerts(b), CliDelete(b)>>),
   Cli(<<Cmd("batch", a, FALSE, None, None)>>)}
============================================================================
