------------------------------ MODULE ConfigPatch ------------------------------
(***************************************************************************)
(* How a UI configuration is turned into the variables that are stored for *)
(* a domain (class ConfigCommon of pc-apache-config.py).                   *)
(*                                                                         *)
(* The stored variables are functions from option names to values: one per *)
(* structure of the web server ("bp", "co_profiles") and one for Varnish.  *)
(* Every option is written at most once by patch_config, so a patch is a   *)
(* function from the options it may write to the values it wants, and the  *)
(* options that change are those whose stored value differs.               *)
(*                                                                         *)
(* A UI configuration u is a record: version, words (the command options,  *)
(* a function from option word to argument), top, bp and co (the fields of *)
(* its top level, of rev_component_bp and of rev_component_co that are     *)
(* present).  Lists whose order no property tells apart are sets, a URL is *)
(* a pair <<protocol, host>>, a header or a piece of code is one value.    *)
(***************************************************************************)
EXTENDS Naturals, Sequences, FiniteSets

CONSTANTS
    None,         \* JSON null, or no value at all
    Domain,       \* the domain's name
    Mapping,      \* its entry in site-mappings.json (possibly without fields)
    Malformed,    \* the host names that the URL pattern refuses
    RegexOf,      \* the regular expression of each wildcard
    UIs           \* the UI configurations that are sent

ASSUME MappingAssumption ==
    DOMAIN Mapping \subseteq {"origin_domain", "optimizers"}

\* dict.get
Get(f, k, default) == IF k \in DOMAIN f THEN f[k] ELSE default

\* dict.update: the entries of f over those of g.
f ++ g == [k \in DOMAIN f \cup DOMAIN g |-> IF k \in DOMAIN f THEN f[k] ELSE g[k]]

Without(f, keys) == [k \in DOMAIN f \ keys |-> f[k]]

-----------------------------------------------------------------------------
(* The command options *)

\* Each switch of cmd_opts: the word that sets it and the value it then has.
Switches ==
    [http |-> <<"https-only", FALSE>>, https |-> <<"http-only", FALSE>>,
     ows_http_only |-> <<"ows-http-only", TRUE>>,
     ows_https_only |-> <<"ows-https-only", TRUE>>,
     spdy |-> <<"disable-spdy", FALSE>>,
     config_bp |-> <<"no-bp", FALSE>>, config_co |-> <<"no-co", FALSE>>,
     js_subst |-> <<"enable-js-substitute", TRUE>>,
     html_subst |-> <<"enable-html-substitute", TRUE>>,
     include_user_agent |-> <<"include-user-agent", TRUE>>,
     cache_ps_html |-> <<"cache-ps-html", TRUE>>,
     cache_ignore_auth |-> <<"cache-ignore-auth", TRUE>>,
     debug |-> <<"debug", TRUE>>,
     ip_address_anonymizer |-> <<"ip_address_anonymizer", TRUE>>]

CmdOpts(u) ==
    [o \in DOMAIN Switches |-> (Switches[o][1] \in DOMAIN u.words) = Switches[o][2]]
        ++ [shards_count |-> Get(u.words, "shards-count", 0),
            proxy_timeout |-> Get(u.words, "proxy-timeout", 5),
            client_response_timeout |-> Get(u.words, "client_response_timeout", 600)]

KnownWords == {Switches[o][1] : o \in DOMAIN Switches}
    \cup {"shards-count", "proxy-timeout", "client_response_timeout", "origin_secure_protocol"}

\* An unknown word ends the program.
CmdOptsValid(u) == DOMAIN u.words \subseteq KnownWords

-----------------------------------------------------------------------------
(* Domains, origins, optimizers *)

\* The sign of the first component in which two versions differ decides.
OlderThan(v, w) ==
    \E i \in 1..3 : v[i] < w[i] /\ \A j \in 1..(i - 1) : v[j] = w[j]

UIVersion == <<1, 0, 6>>

\* The micro version does not count.
CompatibleVersion(v) == ~ OlderThan(UIVersion, <<v[1], v[2], 0>>)

\* The choice of a domain without overlay URLs.
RevCdn == "Rev CDN"

OverlayUrls(u) == IF Get(u.bp, "cache_opt_choice", None) = RevCdn
                  THEN {} ELSE u.bp.cdn_overlay_urls

\* The "3rd_party_rewrite" object; before version 1.0.6, and whenever the
\* runtime switch is missing, the fields have their old names.
ThirdParty(u) == Get(u.top, "third_party_rewrite", <<>>)

OldRewrite(u) ==
    OlderThan(u.version, UIVersion) \/ "enable_runtime_rewrite" \notin DOMAIN ThirdParty(u)

RewriteEnabled(u) ==
    IF OldRewrite(u)
    THEN IF "third_party_rewrite" \in DOMAIN u.top
         THEN ThirdParty(u).enable_rewrite ELSE CmdOpts(u).js_subst
    ELSE ThirdParty(u).enable_runtime_rewrite

\* The root rewrite adds its domains to the overlay URLs, in the UI
\* configuration itself.
RootDomains(u) ==
    IF ~ OldRewrite(u) /\ ThirdParty(u).enable_root_rewrite
    THEN ThirdParty(u).root_rewrite_domains ELSE {}

ProxiedDomains(u) == OverlayUrls(u) \cup RootDomains(u)

OptimizedDomains(u) ==
    ProxiedDomains(u) \cup
        (IF ~ RewriteEnabled(u) THEN {}
         ELSE IF ~ OldRewrite(u) THEN ThirdParty(u).runtime_domains
         ELSE Get(ThirdParty(u), "urls", OverlayUrls(u)))

\* What patch_config leaves in the UI configuration it was given.
AsPatched(u) == IF Get(u.bp, "cache_opt_choice", None) = RevCdn THEN u
                ELSE [u EXCEPT !.bp.cdn_overlay_urls = ProxiedDomains(u)]

\* A malformed URL among them ends the program.
DomainsValid(u) == \A d \in OptimizedDomains(u) : d[2] \notin Malformed

\* _convert_static_servers: without a prefix, HTTP is implied.
HttpHosts(urls) == {d[2] : d \in {e \in urls : e[1] # "https"}}
HttpsHosts(urls) == {d[2] : d \in {e \in urls : e[1] = "https"}}

OwsDomain(u) == Get(u.top, "origin_server", Get(Mapping, "origin_domain", Domain))
OwsServer(u) == Get(u.top, "origin_domain", OwsDomain(u))

ContentOptimizers(u) ==
    IF Get(u.top, "co_cnames", {}) # {} THEN u.top.co_cnames ELSE Get(u.top, "co_list", {})

NoText == ""

OriginProtocol(u) == Get(u.top, "origin_secure_protocol", NoText)

HttpScheme(u) == IF OriginProtocol(u) = "https_only" \/ CmdOpts(u).ows_https_only
                 THEN "https" ELSE "http"
HttpsScheme(u) == IF OriginProtocol(u) = "http_only" \/ CmdOpts(u).ows_http_only
                  THEN "http" ELSE "https"

UrlsOf(enabled, scheme, hosts) == IF enabled THEN {<<scheme, h>> : h \in hosts} ELSE {}

-----------------------------------------------------------------------------
(* Caching rules: a rule is a record [value, is_wildcard, body] *)

Rules(u) == Get(u.bp, "caching_rules", <<>>)

UrlKey(rule) == IF rule.is_wildcard THEN RegexOf[rule.value] ELSE rule.value

\* Of several rules for one URL the last is the one that counts.
RulesByUrl(rules) ==
    LET Last(k) == CHOOSE i \in DOMAIN rules :
                      /\ UrlKey(rules[i]) = k
                      /\ \A j \in DOMAIN rules : j > i => UrlKey(rules[j]) # k
    IN  [k \in {UrlKey(rules[i]) : i \in DOMAIN rules} |-> rules[Last(k)].body]

\* Mutant: only the URLs that still have a rule.
BanUrls_New(old, new) ==
    LET n == RulesByUrl(new)
    IN  {k \in DOMAIN n : Get(RulesByUrl(old), k, None) # n[k]}

BanUrls(old, new) ==
    LET o == RulesByUrl(old)
        n == RulesByUrl(new)
    IN  {k \in DOMAIN o \cup DOMAIN n : Get(o, k, None) # Get(n, k, None)}

-----------------------------------------------------------------------------
(* The patches *)

OptLevel(u) ==
    IF ~ u.co.enable_optimization THEN "none"
    ELSE Get([least |-> "min", moderate |-> "med", aggressive |-> "max", adaptive |-> "adaptive"],
             u.co.mode, "custom")

CustomLevel(u, choice) ==
    IF OptLevel(u) # "custom" THEN "none"
    ELSE IF u.co[choice] = "med" THEN "medium" ELSE u.co[choice]

ContentProfiles(u) ==
    [REV_OPTIMIZATION_LEVEL |-> OptLevel(u),
     REV_CUSTOM_IMG_LEVEL |-> CustomLevel(u, "img_choice"),
     REV_CUSTOM_JS_LEVEL |-> CustomLevel(u, "js_choice"),
     REV_CUSTOM_CSS_LEVEL |-> CustomLevel(u, "css_choice")]

ContentBp(u) == [REV_PROFILES_COUNT |-> IF OptLevel(u) = "adaptive" THEN 4 ELSE 1]

GeoIpHeaders(u) == Get(u.bp, "enable_vcl_geoip_headers", FALSE)

CacheBp(u) ==
    [ENABLE_VARNISH |-> u.bp.enable_cache,
     BYPASS_VARNISH_LOCATIONS |-> Get(u.bp, "cache_bypass_locations", {}),
     ENABLE_VARNISH_GEOIP_HEADERS |-> GeoIpHeaders(u)]

NoVcl == [backends |-> {}, recv |-> NoText, deliver |-> NoText]
NoProbe == [HTTP_REQUEST |-> NoText, PROBE_INTERVAL |-> 0]

CustomVcl(u) == Without(Get(u.bp, "custom_vcl", <<>>), {"enabled"}) ++ NoVcl

Probing(u) == Get(u.top, "enable_origin_health_probe", FALSE)

CacheVarnish(u) ==
    [ENABLE_CACHE |-> u.bp.enable_cache,
     INCLUDE_USER_AGENT |-> CmdOpts(u).include_user_agent,
     CACHE_PS_HTML |-> CmdOpts(u).cache_ps_html,
     CACHE_IGNORE_AUTH |-> CmdOpts(u).cache_ignore_auth,
     CACHING_RULES_MODE |-> Get(u.bp, "caching_rules_mode", "best"),
     CUSTOM_VCL_ENABLED |-> Get(Get(u.bp, "custom_vcl", <<>>), "enabled", FALSE),
     CUSTOM_VCL |-> CustomVcl(u),
     ENABLE_GEOIP_HEADERS |-> GeoIpHeaders(u),
     CLIENT_RESPONSE_TIMEOUT |->
        Get(u.bp, "client_response_timeout", CmdOpts(u).client_response_timeout),
     ENABLE_ORIGIN_HEALTH_PROBE |-> Probing(u),
     ORIGIN_HEALTH_PROBE |-> IF Probing(u) THEN Get(u.top, "origin_health_probe", [enable |-> FALSE])
                             ELSE NoProbe]
    ++ (IF "caching_rules" \in DOMAIN u.bp THEN [CACHING_RULES |-> u.bp.caching_rules] ELSE <<>>)

OpenAcl == [enabled |-> FALSE, action |-> "allow_except", acl_rules |-> {}]

SecurityBp(u) ==
    [ENABLE_WAF |-> Get(u.bp, "enable_waf", FALSE),
     WAF_RULES |-> Get(u.bp, "waf", {}),
     ENABLE_BOT_PROTECTION |-> Get(u.bp, "enable_bot_protection", FALSE),
     BOT_PROTECTION |-> Get(u.bp, "bot_protection", {}),
     ENABLE_WALLARM |-> Get(u.bp, "enable_wallarm", FALSE),
     WALLARM_CONFIG |-> Get(u.bp, "wallarm_config", {}),
     BLOCK_CRAWLERS |-> Get(u.bp, "block_crawlers", TRUE),
     acl |-> Get(u.bp, "acl", OpenAcl)]

SslBp(u) ==
    IF "enable_ssl" \notin DOMAIN u.top THEN <<>>
    ELSE [ENABLE_SSL |-> u.top.enable_ssl,
          SSL_PROTOCOLS |-> u.top.ssl_protocols,
          SSL_CIPHERS |-> u.top.ssl_ciphers,
          SSL_PREFER_SERVER_CIPHERS |-> u.top.ssl_prefer_server_ciphers,
          SSL_CERT_ID |-> u.top.ssl_cert_id]

DomainsBp(u) ==
    [DOMAINS_TO_PROXY_HTTP |-> HttpHosts(ProxiedDomains(u)),
     DOMAINS_TO_PROXY_HTTPS |-> HttpsHosts(ProxiedDomains(u)),
     DOMAINS_TO_OPTIMIZE_HTTP |-> HttpHosts(OptimizedDomains(u)),
     DOMAINS_TO_OPTIMIZE_HTTPS |-> HttpsHosts(OptimizedDomains(u))]

\* Without optimizers in the UI configuration the stored ones stay.
OptimizersBp(u) ==
    IF ContentOptimizers(u) = {} THEN <<>>
    ELSE [CONTENT_OPTIMIZERS_HTTP |->
             UrlsOf(CmdOpts(u).http, HttpScheme(u), ContentOptimizers(u)),
          CONTENT_OPTIMIZERS_HTTPS |->
             UrlsOf(CmdOpts(u).https, HttpsScheme(u), ContentOptimizers(u))]

OptimizersVarnish(u) ==
    IF ContentOptimizers(u) = {} THEN <<>>
    ELSE [CONTENT_OPTIMIZERS_HTTP |-> IF CmdOpts(u).http THEN ContentOptimizers(u) ELSE {},
          CONTENT_OPTIMIZERS_HTTPS |-> IF CmdOpts(u).https THEN ContentOptimizers(u) ELSE {}]

ResponseHeaders(u) ==
    UNION {Get(Rules(u)[i].body, "end_user_response_headers", {}) : i \in DOMAIN Rules(u)}

MiscBp(u) ==
    [BP_LUA_LOCATIONS |-> Get(u.bp, "lua", {}),
     CO_LUA_LOCATIONS |-> Get(u.co, "lua", {}),
     ORIGIN_SERVER_NAME |-> OwsDomain(u),
     SERVER_REGEX_ALIAS |-> IF "domain_wildcard_alias" \in DOMAIN u.top
                            THEN RegexOf[u.top.domain_wildcard_alias] ELSE NoText,
     SERVER_ALIASES |-> Get(u.top, "domain_aliases", {}),
     CUSTOM_WEBSERVER_CODE_BEFORE |-> Get(u.bp, "bp_apache_fe_custom_config", NoText),
     CUSTOM_WEBSERVER_CODE_AFTER |-> Get(u.bp, "bp_apache_custom_config", NoText),
     CUSTOM_WEBSERVER_CO_CODE_AFTER |-> Get(u.co, "co_apache_custom_config", NoText),
     ENABLE_HTTP |-> CmdOpts(u).http,
     ENABLE_HTTPS |-> CmdOpts(u).https,
     ENABLE_SPDY |-> CmdOpts(u).spdy,
     ENABLE_HTTP2 |-> Get(u.bp, "enable_http2", TRUE),
     DOMAIN_SHARDS_COUNT |-> CmdOpts(u).shards_count,
     ENABLE_JS_SUBSTITUTE |-> RewriteEnabled(u),
     ENABLE_HTML_SUBSTITUTE |-> RewriteEnabled(u) /\ CmdOpts(u).html_subst,
     DEBUG_MODE |-> CmdOpts(u).debug,
     PROXY_TIMEOUT |-> Get(u.top, "proxy_timeout", CmdOpts(u).proxy_timeout),
     ORIGIN_IDLE_TIMEOUT |-> Get(u.bp, "origin_http_keepalive_ttl", 80),
     ORIGIN_REUSE_CONNS |-> Get(u.bp, "origin_http_keepalive_enabled", TRUE),
     ENABLE_PROXY_BUFFERING |-> Get(u.bp, "enable_proxy_buffering", FALSE),
     END_USER_RESPONSE_HEADERS |-> ResponseHeaders(u),
     ORIGIN_REQUEST_HEADERS |-> Get(u.co, "origin_request_headers", {}),
     ENABLE_QUIC |-> Get(u.bp, "enable_quic", FALSE),
     ENABLE_RUM |-> Get(u.co, "enable_rum", None),
     REV_RUM_BEACON_URL |-> Get(u.co, "rum_beacon_url", None),
     ENABLE_OPTIMIZATION |-> Get(u.co, "enable_optimization", TRUE),
     ENABLE_DECOMPRESSION |-> Get(u.co, "enable_decompression", TRUE),
     BYPASS_CO_LOCATIONS |-> Get(u.bp, "co_bypass_locations", {}),
     ORIGIN_SERVERS_HTTP |-> UrlsOf(CmdOpts(u).http, HttpScheme(u), {OwsServer(u)}),
     ORIGIN_SERVERS_HTTPS |-> UrlsOf(CmdOpts(u).https, HttpsScheme(u), {OwsServer(u)}),
     ORIGIN_SECURE_PROTOCOL |-> OriginProtocol(u),
     IP_ADDRESS_ANONYMIZER |-> CmdOpts(u).ip_address_anonymizer]

\* Mutant: debugging is switched in one server only.
MiscVarnish_Quiet(u) ==
    [BYPASS_CO_LOCATIONS |-> Get(u.bp, "co_bypass_locations", {})]

MiscVarnish(u) ==
    [DEBUG_MODE |-> CmdOpts(u).debug,
     BYPASS_CO_LOCATIONS |-> Get(u.bp, "co_bypass_locations", {})]

\* What u wants in each structure of the web server's variables ("no-bp" and
\* "no-co" keep their structure as it is) and in the variables of Varnish,
\* which no switch protects.
WebPatch(u) ==
    [bp |-> IF CmdOpts(u).config_bp
            THEN ContentBp(u) ++ CacheBp(u) ++ SecurityBp(u) ++ DomainsBp(u)
                     ++ OptimizersBp(u) ++ MiscBp(u) ++ SslBp(u)
            ELSE <<>>,
     co_profiles |-> IF CmdOpts(u).config_co THEN ContentProfiles(u) ELSE <<>>]

VarnishPatch(u) == CacheVarnish(u) ++ OptimizersVarnish(u) ++ MiscVarnish(u)

\* The options whose change bans the HTML of the domain.
BansHtml ==
    {"REV_PROFILES_COUNT", "DOMAINS_TO_PROXY_HTTP", "DOMAINS_TO_PROXY_HTTPS",
     "DOMAINS_TO_OPTIMIZE_HTTP", "DOMAINS_TO_OPTIMIZE_HTTPS", "SSL_PREFER_SERVER_CIPHERS"}

\* _patch_if_changed_*: a missing option reads as None.
Changed(vars, patch) == {o \in DOMAIN patch : Get(vars, o, None) # patch[o]}

\* Mutant: what is stored wins.
Patched_Adds(vars, patch) == vars ++ patch

Patched(vars, patch) ==
    LET changed == Changed(vars, patch)
    IN  [o \in DOMAIN vars \cup changed |-> IF o \in changed THEN patch[o] ELSE vars[o]]

\* Everything that is patched in: what is sent, and what is saved of it.
Patching == UIs \cup {AsPatched(u) : u \in UIs}

Wanted == [u \in Patching |-> [web |-> WebPatch(u), varnish |-> VarnishPatch(u)]]

\* patch_config: the new variables, and what add_or_update_domain asks of it.
PatchConfig(web, varnish, u) ==
    LET changed == [s \in DOMAIN web |-> Changed(web[s], Get(Wanted[u].web, s, <<>>))]
    IN  [web |-> [s \in DOMAIN web |-> Patched(web[s], Get(Wanted[u].web, s, <<>>))],
         varnish |-> Patched(varnish, Wanted[u].varnish),
         configChanged |-> \E s \in DOMAIN web : changed[s] # {},
         varnishChanged |-> Changed(varnish, Wanted[u].varnish) # {},
         banHtml |-> changed["bp"] \cap BansHtml # {},
         bans |-> IF "caching_rules" \in DOMAIN u.bp
                  THEN BanUrls(Get(varnish, "CACHING_RULES", <<>>), u.bp.caching_rules)
                  ELSE {}]
=============================================================================
