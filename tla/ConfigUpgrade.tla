----------------------------- MODULE ConfigUpgrade -----------------------------
(***************************************************************************)
(* The configuration a new domain starts from (apache-gen-config-script.py *)
(* and _gen_initial_domain_config), the schemas it must satisfy, and the   *)
(* conversion of variables stored by older releases                        *)
(* (_upgrade_webserver_config, _upgrade_varnish_site_config of             *)
(* pc-apache-config.py).                                                   *)
(***************************************************************************)
EXTENDS ConfigPatch

BpVersion == 29
CoProfilesVersion == 2
VarnishVersion == 17

-----------------------------------------------------------------------------
(* The initial configuration *)

\* The rule of the generic site: one wildcard for everything.
GenericRules == << [value |-> "**", is_wildcard |-> TRUE, body |-> [ttl |-> 0, enable_esi |-> FALSE]] >>

DefaultCiphers == "default ciphers"
DefaultProtocols == "TLSv1 TLSv1.1 TLSv1.2"

GenericBp ==
    [VERSION |-> BpVersion, ssl |-> {}, acl |-> OpenAcl,
     ENABLE_HTTP |-> TRUE, ENABLE_HTTPS |-> TRUE, ENABLE_VARNISH |-> TRUE,
     SERVER_NAME |-> Domain, SERVER_ALIASES |-> {}, SERVER_REGEX_ALIAS |-> NoText,
     DOMAINS_TO_PROXY_HTTP |-> {}, DOMAINS_TO_PROXY_HTTPS |-> {},
     DOMAINS_TO_OPTIMIZE_HTTP |-> {}, DOMAINS_TO_OPTIMIZE_HTTPS |-> {},
     REV_PROFILES_COUNT |-> 1,
     REV_PROFILES_BASE_PORT_HTTP |-> 18000, REV_PROFILES_BASE_PORT_HTTPS |-> 19000,
     ENABLE_WAF |-> FALSE, WAF_RULES |-> {},
     ENABLE_BOT_PROTECTION |-> FALSE, BOT_PROTECTION |-> {},
     ENABLE_WALLARM |-> FALSE, WALLARM_CONFIG |-> {},
     DOMAIN_SHARDS_COUNT |-> 0,
     CUSTOM_WEBSERVER_CODE_BEFORE |-> NoText, CUSTOM_WEBSERVER_CODE_AFTER |-> NoText,
     CUSTOM_WEBSERVER_CO_CODE_AFTER |-> NoText,
     BLOCK_CRAWLERS |-> TRUE, ENABLE_PROXY_BUFFERING |-> FALSE,
     ENABLE_JS_SUBSTITUTE |-> FALSE, ENABLE_HTML_SUBSTITUTE |-> FALSE,
     DEBUG_MODE |-> FALSE, BYPASS_VARNISH_LOCATIONS |-> {},
     ENABLE_SPDY |-> TRUE, ENABLE_HTTP2 |-> TRUE, ENABLE_RUM |-> FALSE,
     PROXY_TIMEOUT |-> 5, BYPASS_CO_LOCATIONS |-> {},
     ORIGIN_SECURE_PROTOCOL |-> "use_end_user_protocol",
     ORIGIN_IDLE_TIMEOUT |-> 80, ORIGIN_REUSE_CONNS |-> TRUE,
     ENABLE_VARNISH_GEOIP_HEADERS |-> FALSE, END_USER_RESPONSE_HEADERS |-> {},
     REV_RUM_BEACON_URL |-> "rum", ENABLE_OPTIMIZATION |-> TRUE,
     ENABLE_DECOMPRESSION |-> FALSE, ORIGIN_REQUEST_HEADERS |-> {}, ENABLE_QUIC |-> FALSE,
     ENABLE_SSL |-> TRUE, SSL_PROTOCOLS |-> DefaultProtocols, SSL_CIPHERS |-> DefaultCiphers,
     SSL_PREFER_SERVER_CIPHERS |-> TRUE, SSL_CERT_ID |-> "default",
     BP_LUA_LOCATIONS |-> {}, CO_LUA_LOCATIONS |-> {}]

GenericProfiles ==
    [VERSION |-> CoProfilesVersion, REV_OPTIMIZATION_LEVEL |-> "custom",
     REV_CUSTOM_IMG_LEVEL |-> "medium", REV_CUSTOM_JS_LEVEL |-> "medium",
     REV_CUSTOM_CSS_LEVEL |-> "medium"]

GenericVarnish ==
    [VERSION |-> VarnishVersion, SERVER_NAME |-> Domain, ENABLE_CACHE |-> TRUE,
     INCLUDE_USER_AGENT |-> FALSE, DOMAINS_TO_PROXY_HTTP |-> {},
     CACHING_RULES_MODE |-> "best", CACHING_RULES |-> GenericRules, DEBUG_MODE |-> FALSE,
     CACHE_PS_HTML |-> FALSE, CACHE_IGNORE_AUTH |-> FALSE, BYPASS_CO_LOCATIONS |-> {},
     CUSTOM_VCL_ENABLED |-> FALSE, CUSTOM_VCL |-> NoVcl, ENABLE_GEOIP_HEADERS |-> FALSE,
     CLIENT_RESPONSE_TIMEOUT |-> 600, ENABLE_ORIGIN_HEALTH_PROBE |-> FALSE,
     ORIGIN_HEALTH_PROBE |-> NoProbe]

\* The optimizers of the UI configuration, else of the mapping, else the
\* generic site's own.
InitialOptimizers(u) ==
    IF ContentOptimizers(u) # {} THEN ContentOptimizers(u)
    ELSE IF Get(Mapping, "optimizers", {}) # {} THEN Mapping.optimizers
    ELSE {"localhost"}

InitialFor(u) ==
    LET cos == InitialOptimizers(u)
        origin == {OwsServer(u)}
    IN  [web |->
            [bp |-> [CONTENT_OPTIMIZERS_HTTP |-> UrlsOf(TRUE, "http", cos),
                     CONTENT_OPTIMIZERS_HTTPS |-> UrlsOf(TRUE, "https", cos),
                     ORIGIN_SERVER_NAME |-> OwsDomain(u),
                     ORIGIN_SERVERS_HTTP |-> UrlsOf(TRUE, "http", origin),
                     ORIGIN_SERVERS_HTTPS |-> UrlsOf(TRUE, "https", origin)] ++ GenericBp,
             co_profiles |-> GenericProfiles],
         varnish |->
            [CONTENT_OPTIMIZERS_HTTP |-> cos, CONTENT_OPTIMIZERS_HTTPS |-> cos]
                ++ GenericVarnish]

\* Without a UI configuration only the mapping counts.
InitialConfig ==
    [u \in Patching \cup {None} |-> InitialFor(IF u = None THEN [top |-> <<>>] ELSE u)]

-----------------------------------------------------------------------------
(* The schemas *)

BpAllowed == {"SECURITY_MODE", "LUA_LOCATIONS", "BP_LUA_LOCATIONS", "CO_LUA_LOCATIONS"}

BpRequired ==
    (DOMAIN InitialConfig[None].web.bp \cup {"IP_ADDRESS_ANONYMIZER"}) \ BpAllowed

VarnishRequired == DOMAIN InitialConfig[None].varnish

\* Neither a null nor a header that is no object is accepted.
BpValid(bp) ==
    /\ BpRequired \subseteq DOMAIN bp
    /\ DOMAIN bp \subseteq BpRequired \cup BpAllowed
    /\ bp.VERSION <= BpVersion
    /\ bp.ENABLE_RUM # None /\ bp.REV_RUM_BEACON_URL # None
    /\ None \notin bp.ORIGIN_REQUEST_HEADERS

VarnishValid(v) ==
    /\ DOMAIN v = VarnishRequired
    /\ v.VERSION \in 15..VarnishVersion
    /\ DOMAIN v.ORIGIN_HEALTH_PROBE = DOMAIN NoProbe

Valid(web, v) == BpValid(web.bp) /\ VarnishValid(v)

-----------------------------------------------------------------------------
(* Conversion, one step per version *)

\* The options that step n of _upgrade_webserver_config sets in "bp".
BpAdds(n, bp) ==
    CASE n = 4  -> [BLOCK_CRAWLERS |-> TRUE]
      [] n = 5  -> [ENABLE_JS_SUBSTITUTE |-> FALSE]
      [] n = 6  -> [DEBUG_MODE |-> FALSE]
      [] n = 7  -> [ENABLE_HTML_SUBSTITUTE |-> FALSE,
                    DOMAINS_TO_OPTIMIZE_HTTP |-> bp.STATIC_CONTENT_SERVERS_HTTP,
                    DOMAINS_TO_OPTIMIZE_HTTPS |-> bp.STATIC_CONTENT_SERVERS_HTTPS]
      [] n = 8  -> [BYPASS_VARNISH_LOCATIONS |-> {}]
      [] n = 9  -> [CUSTOM_APACHE_CODE_BEFORE |-> NoText]
      [] n = 10 -> [acl |-> [enabled |-> FALSE, allow_all |-> FALSE, acl_rules |-> {}]]
      [] n = 11 -> [acl |-> [action |-> IF bp.acl.allow_all THEN "allow_except" ELSE "deny_except"]
                                ++ Without(bp.acl, {"allow_all"})]
      [] n = 12 -> [DOMAINS_TO_PROXY_HTTP |-> bp.STATIC_CONTENT_SERVERS_HTTP,
                    DOMAINS_TO_PROXY_HTTPS |-> bp.STATIC_CONTENT_SERVERS_HTTPS]
      [] n = 13 -> [PROXY_TIMEOUT |-> 5, ENABLE_SPDY |-> TRUE]
      [] n = 14 -> [CONTENT_OPTIMIZER_SEND_RECV_TIMEOUT |-> 80]
      [] n = 16 -> [BYPASS_CO_LOCATIONS |-> {}, ORIGIN_SERVERS_HTTP |-> {},
                    ORIGIN_SERVERS_HTTPS |-> {}, ORIGIN_IDLE_TIMEOUT |-> 80,
                    ORIGIN_REUSE_CONNS |-> TRUE]
      [] n = 17 -> [ENABLE_VARNISH_GEOIP_HEADERS |-> FALSE]
      [] n = 18 -> [CUSTOM_WEBSERVER_CODE_BEFORE |-> bp.CUSTOM_APACHE_CODE_BEFORE,
                    CUSTOM_WEBSERVER_CODE_AFTER |-> bp.CUSTOM_APACHE_CODE_AFTER]
      [] n = 19 -> [ENABLE_PROXY_BUFFERING |-> FALSE]
      [] n = 20 -> [SERVER_REGEX_ALIAS |-> NoText]
      [] n = 21 -> [SERVER_ALIASES |-> {}]
      [] n = 22 -> [END_USER_RESPONSE_HEADERS |-> {}]
      \* the list of headers becomes a tuple that holds an empty list
      [] n = 23 -> [ENABLE_HTTP2 |-> TRUE, ENABLE_RUM |-> FALSE,
                    ORIGIN_REQUEST_HEADERS |-> {None}, ENABLE_QUIC |-> FALSE]
      [] n = 24 -> [ENABLE_SSL |-> TRUE, SSL_PROTOCOLS |-> DefaultProtocols,
                    SSL_CIPHERS |-> DefaultCiphers, SSL_PREFER_SERVER_CIPHERS |-> TRUE,
                    SSL_CERT_ID |-> NoText]
      [] n = 26 -> [BP_LUA_LOCATIONS |-> {}, CO_LUA_LOCATIONS |-> {}]
      [] n = 27 -> [ENABLE_WAF |-> FALSE, WAF_RULES |-> {}]
      [] n = 28 -> [ENABLE_BOT_PROTECTION |-> FALSE, BOT_PROTECTION |-> {}]
      [] OTHER  -> <<>>

StaticServers == {"STATIC_CONTENT_SERVERS_HTTP", "STATIC_CONTENT_SERVERS_HTTPS"}
ApacheCode == {"CUSTOM_APACHE_CODE_BEFORE", "CUSTOM_APACHE_CODE_AFTER"}

\* The options that step n reads or deletes unconditionally: a missing one
\* raises KeyError.
BpNeeds(n) ==
    CASE n \in {7, 12} -> StaticServers
      [] n = 11 -> {"acl"}
      [] n = 15 -> {"CONTENT_OPTIMIZER_SEND_RECV_TIMEOUT"}
      [] n = 18 -> ApacheCode
      [] OTHER -> {}

\* Mutant: step 15 keeps the timeout.
BpDrops_Keeps(n) ==
    CASE n = 3 -> {"nss"}
      [] n \in {12, 18} -> BpNeeds(n)
      [] OTHER -> {}

BpDrops(n) ==
    CASE n = 3 -> {"nss"}
      [] n \in {12, 15, 18} -> BpNeeds(n)
      [] OTHER -> {}

BpStep(n, bp) ==
    IF bp = None \/ ~ BpNeeds(n) \subseteq DOMAIN bp \/ (n = 11 /\ "allow_all" \notin DOMAIN bp.acl)
    THEN None
    ELSE Without(BpAdds(n, bp) ++ bp, BpDrops(n))

\* The steps from the stored version up to the new one; None: an exception.
UpgradeBp(bp) ==
    LET ver == Get(bp, "VERSION", 0)
        upto[n \in ver..BpVersion] == IF n = ver THEN bp ELSE BpStep(n - 1, upto[n - 1])
    IN  IF ver >= BpVersion THEN [bp EXCEPT !.VERSION = BpVersion]
        ELSE IF upto[BpVersion] = None THEN None
        ELSE [VERSION |-> BpVersion] ++ upto[BpVersion]

CustomLevels == {"REV_CUSTOM_IMG_LEVEL", "REV_CUSTOM_JS_LEVEL", "REV_CUSTOM_CSS_LEVEL"}

UpgradeProfiles(profiles) ==
    [o \in DOMAIN profiles \cup {"VERSION"} |->
        IF o = "VERSION" THEN CoProfilesVersion
        ELSE IF Get(profiles, "VERSION", 1) = 1 /\ o \in CustomLevels /\ profiles[o] = "med"
             THEN "medium" ELSE profiles[o]]

\* A stored "co" structure has no counterpart in the initial configuration.
UpgradeWebserver(web) ==
    IF "co" \in DOMAIN web \/ UpgradeBp(web.bp) = None THEN None
    ELSE [bp |-> UpgradeBp(web.bp), co_profiles |-> UpgradeProfiles(web.co_profiles)]

\* What the steps of _upgrade_varnish_site_config set; the newest comes
\* first.  They read only what the stored variables hold from the start.
RemoveCookies(url) ==
    [value |-> url, is_wildcard |-> FALSE, body |-> [ttl |-> 0, ignore_cookies |-> TRUE]]

StoredRules(v) == IF Get(v, "VERSION", 1) = 2
                  THEN [i \in DOMAIN v.URLS_REMOVE_COOKIES_REGEX |->
                           RemoveCookies(v.URLS_REMOVE_COOKIES_REGEX[i])]
                  ELSE Get(v, "CACHING_RULES", None)

WithEsi(rules) ==
    [i \in DOMAIN rules |-> [rules[i] EXCEPT !.body = @ ++ [enable_esi |-> FALSE]]]

VarnishAdds(n, v) ==
    CASE n = 2  -> [CACHING_RULES |-> StoredRules(v)]
      [] n = 3  -> [DEBUG_MODE |-> FALSE]
      [] n = 4  -> [INCLUDE_USER_AGENT |-> FALSE]
      [] n = 5  -> [CACHE_PS_HTML |-> FALSE]
      [] n = 6  -> [DOMAINS_TO_PROXY_HTTP |-> Get(v, "STATIC_CONTENT_SERVERS_HTTP", {})]
      [] n = 7  -> [CACHING_RULES_MODE |-> "best"]
      [] n = 8  -> [CACHE_IGNORE_AUTH |-> FALSE]
      [] n = 9  -> [BYPASS_CO_LOCATIONS |-> {}]
      [] n = 10 -> [CUSTOM_VCL_ENABLED |-> FALSE, CUSTOM_VCL |-> NoVcl]
      [] n = 11 -> [ENABLE_GEOIP_HEADERS |-> FALSE]
      [] n = 12 -> [CLIENT_RESPONSE_TIMEOUT |-> 600]
      [] n = 13 -> [ENABLE_ORIGIN_HEALTH_PROBE |-> FALSE, ORIGIN_HEALTH_PROBE |-> NoProbe]
      [] n = 16 -> [CACHING_RULES |-> WithEsi(StoredRules(v))]
      [] OTHER  -> <<>>

VarnishDrops(ver) == {"URLS_REMOVE_COOKIES_REGEX", "CACHE_MAX_TIME_SEC"}
    \cup (IF ver <= 6 THEN {"STATIC_CONTENT_SERVERS_HTTP"} ELSE {})

\* Without rules (version 1, or no readable file) step 16 raises.
UpgradeVarnish(v) ==
    LET ver == Get(v, "VERSION", 1)
        steps == ver..(VarnishVersion - 1)
        Step(o) == CHOOSE n \in steps :
                      /\ o \in DOMAIN VarnishAdds(n, v)
                      /\ \A m \in steps : m > n => o \notin DOMAIN VarnishAdds(m, v)
        added == UNION {DOMAIN VarnishAdds(n, v) : n \in steps}
    IN  IF ver < VarnishVersion /\ StoredRules(v) = None THEN None
        ELSE [VERSION |-> VarnishVersion]
                 ++ [o \in added |-> VarnishAdds(Step(o), v)[o]]
                 ++ Without(v, VarnishDrops(ver))

-----------------------------------------------------------------------------
(* _merge_dicts: what is stored overlays the initial configuration; the    *)
(* options whose values are objects are merged field by field.             *)

Objects == {"acl", "CUSTOM_VCL", "ORIGIN_HEALTH_PROBE"}

MergeDicts(dst, src) ==
    [o \in DOMAIN dst \cup DOMAIN src |->
        IF o \notin DOMAIN src THEN dst[o]
        ELSE IF o \in Objects /\ o \in DOMAIN dst THEN src[o] ++ dst[o]
        ELSE src[o]]

\* _upgrade_domain_config: u is the saved UI configuration or None.
UpgradeConfig(web, varnish, u) ==
    LET init == InitialConfig[u]
        newWeb == UpgradeWebserver(web)
        newVarnish == UpgradeVarnish(IF varnish = None THEN <<>> ELSE varnish)
        merged == [web |-> [s \in DOMAIN init.web |-> MergeDicts(init.web[s], newWeb[s])],
                   varnish |-> MergeDicts(init.varnish, newVarnish)]
    IN  IF newWeb = None \/ newVarnish = None THEN None
        ELSE IF u = None THEN merged
        ELSE LET p == PatchConfig(merged.web, merged.varnish, u)
             IN  [web |-> p.web, varnish |-> p.varnish]
=============================================================================
