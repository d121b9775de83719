-------------------------- MODULE MCUpgradeDomains --------------------------
(***************************************************************************)
(* Instances of UpgradeDomains for TLC.  The conversions give n1 and v1    *)
(* their new forms n2 and v2, which they leave alone; nx converts to what  *)
(* Nginx refuses and vx to what Varnish refuses, nraise cannot be          *)
(* converted, and the conversion of nexit ends the program.                *)
(***************************************************************************)
EXTENDS UpgradeDomains, TLC

CONSTANTS a, b, p1

MCNVar == {"n1", "n2", "nx", "nbad", "nraise", "nexit"}
MCVVar == {"v1", "v2", "vx", "vbad"}

MCUpgradedN ==
  ("n1" :> "n2") @@ ("n2" :> "n2") @@ ("nx" :> "nbad") @@ ("nbad" :> "nbad")
    @@ ("nraise" :> None) @@ ("nexit" :> Exits)
MCUpgradedV == ("v1" :> "v2") @@ ("v2" :> "v2") @@ ("vx" :> "vbad") @@ ("vbad" :> "vbad")

\* The calls an upgrade makes of configure_all.
MCJobs ==
  LET CommandsFor(s) == [type : {"config"}, site : {s}, named : {FALSE}, templates : {TRUE},
                      nvars : {"n2", "nbad"}, vvars : {"v2", "vbad"}]
      Lists == {<<>>} \union {<<c>> : c \in CommandsFor(a) \union CommandsFor(b)}
               \union {<<c, d>> : c \in CommandsFor(a), d \in CommandsFor(b)}
               \union {<<d, c>> : c \in CommandsFor(a), d \in CommandsFor(b)}
  IN [version : {API_VERSION}, commands : Lists,
      varnish_changed : BOOLEAN, config_changed : {TRUE}]
=============================================================================
