------------------------------ MODULE StoredConfig ------------------------------
(***************************************************************************)
(* The stored configuration of one domain over the runs of                 *)
(* pc-apache-config.py: the domain is added, updated and upgraded, and a   *)
(* run may end while the UI configuration is being saved.                  *)
(*                                                                         *)
(* A run is one step: what the transaction of configure_all does inside it *)
(* is the business of ConfigTransaction, here it either stores both sets   *)
(* of variables or, when they do not satisfy their schemas, none.          *)
(***************************************************************************)
EXTENDS ConfigUpgrade

CONSTANTS
    Stored,       \* the variables, [web, varnish], that older releases left
    Torn,         \* what is left of ui-config.json when its writing is cut
    MaxRuns       \* bound on the number of runs of the program

IsDict(f) == f = [k \in DOMAIN f |-> f[k]]

\* A list of caching rules.
AreRules(rules) == /\ rules \in Seq({rules[i] : i \in DOMAIN rules})
                   /\ \A i \in DOMAIN rules : rules[i].body # None

\* The options that every domain has once it was added or upgraded, since
\* both start from the initial configuration.
CurrentWeb(w) ==
    /\ {"bp", "co_profiles"} \subseteq DOMAIN w
    /\ w.bp.VERSION = BpVersion
    /\ DOMAIN InitialConfig[None].web.bp \subseteq DOMAIN w.bp
    /\ DOMAIN GenericProfiles \subseteq DOMAIN w.co_profiles

CurrentVarnish(v) ==
    /\ VarnishRequired \subseteq DOMAIN v
    /\ v.VERSION = VarnishVersion
    /\ AreRules(v.CACHING_RULES)

\* The fields that patch_config reads without a default are there, a rule has
\* a body, and an access list has the fields that its schema requires.
ASSUME UIsAssumption ==
    /\ None \notin Patching \cup {Torn}
    /\ \A u \in UIs :
          /\ {"version", "words", "top", "bp", "co"} \subseteq DOMAIN u
          /\ \/ Get(u.bp, "cache_opt_choice", None) = RevCdn
             \/ "cdn_overlay_urls" \in DOMAIN u.bp
          /\ "enable_cache" \in DOMAIN u.bp
          /\ "caching_rules" \in DOMAIN u.bp => AreRules(u.bp.caching_rules)
          /\ "acl" \in DOMAIN u.bp =>
                IsDict(u.bp.acl) /\ DOMAIN OpenAcl \subseteq DOMAIN u.bp.acl
          /\ "origin_health_probe" \in DOMAIN u.top =>
                IsDict(u.top.origin_health_probe)

\* Variables of any release have their versions and, if any, lists of rules.
ASSUME StoredAssumption ==
    /\ AreRules(GenericRules)
    /\ \A s \in Stored :
          /\ {"bp", "co_profiles"} \subseteq DOMAIN s.web
          /\ Get(s.web.bp, "VERSION", 0) \in Nat
          /\ Get(s.varnish, "VERSION", 1) \in Nat
          /\ s.web.bp.VERSION = BpVersion => CurrentWeb(s.web) /\ CurrentVarnish(s.varnish)
          /\ "CACHING_RULES" \in DOMAIN s.varnish => AreRules(s.varnish.CACHING_RULES)
          /\ StoredRules(s.varnish) # None => AreRules(WithEsi(StoredRules(s.varnish)))

VARIABLES
    web,          \* the variables of the web server, None: no such domain
    varnish,      \* those of Varnish, None: no readable file
    saved,        \* the UI configuration saved for upgrades, None or Torn
    applied,      \* history: the UI configuration the variables come from
    last,         \* the last run: [op, result, u, bans]
    runs          \* number of runs

vars == <<web, varnish, saved, applied, last, runs>>

-----------------------------------------------------------------------------
Init ==
    /\ applied = None
    /\ last = [op |-> "none", result |-> "none", u |-> None, bans |-> {}]
    /\ runs = 0
    /\ \/ web = None /\ varnish = None /\ saved = None
       \/ \E s \in Stored :
             /\ web = s.web /\ varnish = s.varnish
             /\ saved \in {None} \cup {u \in UIs : CmdOptsValid(u) /\ DomainsValid(u)}

Run == runs < MaxRuns /\ runs' = runs + 1

Ended(op, result, u, bans) ==
    last' = [op |-> op, result |-> result, u |-> u, bans |-> bans]

\* A run that ends before anything is stored.
Fails(op, result, u) ==
    Ended(op, result, u, {}) /\ UNCHANGED <<web, varnish, saved, applied>>

\* What _main and ConfigCommon refuse before they read or store anything.
Refused(u) == ~ CompatibleVersion(u.version) \/ ~ CmdOptsValid(u) \/ ~ DomainsValid(u)

Changes(new) == new.configChanged \/ new.varnishChanged

\* The end of add_or_update_domain: the new variables are stored, then come
\* the bans, which may fail when there are some, then the UI configuration is
\* saved, whose writing may be cut short.
Stores(op, new, u) ==
    /\ web' = new.web
    /\ varnish' = new.varnish
    /\ applied' = u
    /\ \/ /\ Ended(op, IF Changes(new) THEN "applied" ELSE "unchanged", u,
                   IF Changes(new) THEN new.bans ELSE {})
          /\ saved' \in {AsPatched(u), Torn}
       \/ /\ Changes(new) /\ (new.banHtml \/ new.bans # {})
          /\ Ended(op, "ban-failed", u, {})
          /\ UNCHANGED saved

Add(u) ==
    /\ Run
    /\ web = None
    /\ \/ Refused(u) /\ Fails("add", "refused", u)
       \/ /\ ~ Refused(u)
          /\ \E new \in {PatchConfig(InitialConfig[u].web, InitialConfig[u].varnish, u)} :
                \/ ~ Valid(new.web, new.varnish) /\ Fails("add", "rejected", u)
                \/ /\ Valid(new.web, new.varnish)
                   /\ \E again \in {PatchConfig(new.web, new.varnish, AsPatched(u))} :
                        Stores("add", again, u)

\* The domain must have been upgraded: an older one is rendered with the
\* templates of its release, which are not in the repository.
Update(u) ==
    /\ Run
    /\ web # None
    /\ web.bp.VERSION = BpVersion
    /\ \/ Refused(u) /\ Fails("update", "refused", u)
       \/ ~ Refused(u) /\ varnish = None /\ Fails("update", "raised", u)
       \/ /\ ~ Refused(u) /\ varnish # None
          /\ \E new \in {PatchConfig(web, varnish, u)} :
                \/ Changes(new) /\ ~ Valid(new.web, new.varnish) /\ Fails("update", "rejected", u)
                \/ (~ Changes(new) \/ Valid(new.web, new.varnish)) /\ Stores("update", new, u)

\* upgrade_all_domains for this domain.
Upgrade ==
    /\ Run
    /\ web # None
    /\ \/ saved = Torn /\ Fails("upgrade", "raised", saved)
       \/ /\ saved # Torn
          /\ \E new \in {UpgradeConfig(web, varnish, saved)} :
                \/ new = None /\ Fails("upgrade", "raised", saved)
                \/ /\ new # None /\ ~ Valid(new.web, new.varnish)
                   /\ Fails("upgrade", "rejected", saved)
                \/ /\ new # None /\ Valid(new.web, new.varnish)
                   /\ web' = new.web
                   /\ varnish' = new.varnish
                   /\ applied' = IF saved = None THEN applied ELSE saved
                   /\ Ended("upgrade", "applied", saved, {})
                   /\ UNCHANGED saved

\* The site's Varnish file is lost.
LoseVarnish ==
    /\ Run
    /\ web # None /\ varnish # None
    /\ varnish' = None
    /\ Ended("none", "none", None, {})
    /\ UNCHANGED <<web, saved, applied>>

Next ==
    \/ \E u \in UIs : Add(u) \/ Update(u)
    \/ Upgrade
    \/ LoseVarnish

Spec == Init /\ [][Next]_vars

-----------------------------------------------------------------------------
(* Properties *)

\* What the schemas ask of a UI configuration: the RUM fields, and a probe
\* when probing is switched on.
Complete(u) ==
    /\ {"enable_rum", "rum_beacon_url"} \subseteq DOMAIN u.co
    /\ Probing(u) => "origin_health_probe" \in DOMAIN u.top

\* A configuration that the schemas reject, or a run that raises, has one of
\* these causes: the UI configuration is incomplete; it keeps the "bp"
\* structure as it is ("no-bp") while that still lacks the anonymizer option,
\* which neither the initial configuration nor a conversion step provides;
\* there is no UI configuration to upgrade with; the saved one is cut, the
\* Varnish variables are unreadable or too old to hold caching rules, or a
\* "co" structure is still stored beside "bp".  So every other conversion of
\* an older release ends in variables the schemas accept once the saved UI
\* configuration is patched in.
FailuresExplained ==
    /\ last.result = "rejected" =>
          \/ last.op = "upgrade" /\ saved = None
          \/ ~ Complete(last.u)
          \/ /\ ~ CmdOpts(last.u).config_bp
             /\ web = None \/ "IP_ADDRESS_ANONYMIZER" \notin DOMAIN web.bp
    /\ last.result = "raised" =>
          \/ last.op = "upgrade" /\ saved = Torn
          \/ varnish = None
          \/ StoredRules(varnish) = None
          \/ "co" \in DOMAIN web

\* Patching is idempotent: the UI configuration that the stored variables
\* come from (by add, update or upgrade) changes none of them when it comes
\* again, so a repeated update reloads and bans nothing (the option-by-option
\* comparison of _patch_if_changed_*).
RepeatIsQuiet ==
    applied # None /\ varnish # None =>
        LET p == PatchConfig(web, varnish, applied)
        IN  ~ p.configChanged /\ ~ p.varnishChanged /\ p.bans = {}

\* The two servers are configured alike: caching, GeoIP headers, debugging
\* and bypassed locations of Nginx are those of Varnish, as long as the UI
\* configuration in force does not keep the web server's part ("no-bp").  The
\* optimizers agree too if it names some: otherwise the stored ones stay, and
\* they may still differ since an earlier "no-bp".
ServersAgree ==
    applied # None /\ varnish # None /\ CmdOpts(applied).config_bp =>
        LET bp == web.bp
            Hosts(urls) == {e[2] : e \in urls}
        IN  /\ bp.ENABLE_VARNISH = varnish.ENABLE_CACHE
            /\ bp.ENABLE_VARNISH_GEOIP_HEADERS = varnish.ENABLE_GEOIP_HEADERS
            /\ bp.DEBUG_MODE = varnish.DEBUG_MODE
            /\ bp.BYPASS_CO_LOCATIONS = varnish.BYPASS_CO_LOCATIONS
            /\ ContentOptimizers(applied) # {} =>
                  /\ Hosts(bp.CONTENT_OPTIMIZERS_HTTP) = varnish.CONTENT_OPTIMIZERS_HTTP
                  /\ Hosts(bp.CONTENT_OPTIMIZERS_HTTPS) = varnish.CONTENT_OPTIMIZERS_HTTPS

UniqueUrls(rules) ==
    \A i, j \in DOMAIN rules : UrlKey(rules[i]) = UrlKey(rules[j]) => i = j

Having(rules, r) ==
    \E i \in DOMAIN rules : UrlKey(rules[i]) = UrlKey(r) /\ rules[i].body = r.body

\* The patterns of the rules in one list that the other does not have.
RuleChanges(old, new) ==
    {UrlKey(old[i]) : i \in {k \in DOMAIN old : ~ Having(new, old[k])}}
        \cup {UrlKey(new[i]) : i \in {k \in DOMAIN new : ~ Having(old, new[k])}}

\* An update bans every URL pattern for which a rule was added, removed or
\* changed, and no other pattern, when no list names a pattern twice.
BansCoverRules ==
    [][ LET old == varnish.CACHING_RULES
            new == varnish'.CACHING_RULES
        IN  last'.op = "update" /\ last'.result = "applied"
                /\ UniqueUrls(old) /\ UniqueUrls(new) =>
            last'.bans = RuleChanges(old, new)
      ]_vars
=============================================================================
