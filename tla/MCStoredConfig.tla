----------------------------- MODULE MCStoredConfig -----------------------------
(***************************************************************************)
(* Instance of StoredConfig: a base UI configuration and one variant for   *)
(* every field or word that takes a path of its own, and variables stored  *)
(* by releases on both sides of every conversion step that reads what an   *)
(* earlier one set.                                                        *)
(***************************************************************************)
EXTENDS StoredConfig, TLC

MCMapping == [origin_domain |-> "origin.site", optimizers |-> {"co.site"}]
MCMalformed == {"bad host"}

\* "/a*" and the plain pattern "^/a(.+)$" are one URL.
MCRegexOf == ("**" :> "^.+$") @@ ("/a*" :> "^/a(.+)$") @@ ("*.site" :> "^(.+)\\.site$")

Rule(v, w, ttl) == [value |-> v, is_wildcard |-> w, body |-> [ttl |-> ttl]]

Base ==
    [version |-> UIVersion, words |-> <<>>,
     top |-> [origin_server |-> "www.site"],
     bp |-> [enable_cache |-> TRUE, cdn_overlay_urls |-> {<<"", "cdn">>},
             caching_rules |-> <<Rule("**", TRUE, 1), Rule("/a*", TRUE, 2)>>],
     co |-> [enable_optimization |-> TRUE, mode |-> "custom", img_choice |-> "med",
             js_choice |-> "none", css_choice |-> "low",
             enable_rum |-> TRUE, rum_beacon_url |-> "rum"]]

Words(w) == [Base EXCEPT !.words = w]
Top(t) == [Base EXCEPT !.top = t @@ @]
Bp(b) == [Base EXCEPT !.bp = b @@ @]
Co(c) == [Base EXCEPT !.co = c @@ @]

Ssl(prefer) == [enable_ssl |-> TRUE, ssl_protocols |-> "TLSv1.2", ssl_ciphers |-> "some",
                ssl_prefer_server_ciphers |-> prefer, ssl_cert_id |-> "cert"]

Rewrite(on) == [enable_rewrite |-> on, urls |-> {<<"https", "other">>}]
RuntimeRewrite(v, on, root) ==
    [Base EXCEPT !.version = v,
                 !.top = [third_party_rewrite |->
                             [enable_runtime_rewrite |-> on, runtime_domains |-> {<<"", "rt">>},
                              enable_root_rewrite |-> root,
                              root_rewrite_domains |-> {<<"https", "root">>}]
                             @@ Rewrite(on)] @@ @]

MCUIs ==
    {Base,
     Words("no-bp" :> None),
     Words(("no-co" :> None) @@ ("debug" :> None) @@ ("ip_address_anonymizer" :> None)),
     Words(("http-only" :> None) @@ ("ows-https-only" :> None) @@ ("shards-count" :> 3)),
     Words("no-such-word" :> None),
     Top([co_cnames |-> {"opt"}, origin_secure_protocol |-> "https_only"]),
     [Top([co_list |-> {"opt"}]) EXCEPT !.words = ("https-only" :> None) @@ ("no-bp" :> None)],
     Top([third_party_rewrite |-> Rewrite(TRUE)]),
     RuntimeRewrite(UIVersion, TRUE, TRUE),
     RuntimeRewrite(<<1, 0, 5>>, TRUE, TRUE),
     [Base EXCEPT !.version = <<1, 1, 0>>],
     Top(Ssl(FALSE)),
     Top([enable_origin_health_probe |-> TRUE]),
     Top([enable_origin_health_probe |-> TRUE,
          origin_health_probe |-> [HTTP_REQUEST |-> "GET", PROBE_INTERVAL |-> 9],
          domain_wildcard_alias |-> "*.site"]),
     Bp([enable_cache |-> FALSE, enable_vcl_geoip_headers |-> TRUE,
         co_bypass_locations |-> {"/x"}]),
     Bp([cache_opt_choice |-> "Rev CDN"]),
     Bp([cdn_overlay_urls |-> {<<"http", "bad host">>}]),
     Bp([custom_vcl |-> [enabled |-> TRUE, recv |-> "code"],
         acl |-> [enabled |-> TRUE, action |-> "deny_except", acl_rules |-> {"rule"}]]),
     Bp([caching_rules |-> <<Rule("^/a(.+)$", FALSE, 2), Rule("/b", FALSE, 1)>>]),
     Bp([caching_rules |-> <<[Rule("**", TRUE, 3) EXCEPT
                                !.body = @ @@ [end_user_response_headers |-> {"h"}]]>>]),
     [Base EXCEPT !.bp = Without(@, {"caching_rules"})],
     Co([enable_optimization |-> FALSE]),
     Co([mode |-> "adaptive"]),
     [Base EXCEPT !.co = Without(@, {"enable_rum"})]}

-----------------------------------------------------------------------------
(* What older releases stored: the options of the current layout that the  *)
(* steps from that version on do not introduce, and the ones they drop.    *)

Legacy ==
    [nss |-> {}, STATIC_CONTENT_SERVERS_HTTP |-> {"cdn"}, STATIC_CONTENT_SERVERS_HTTPS |-> {},
     CUSTOM_APACHE_CODE_BEFORE |-> "code", CUSTOM_APACHE_CODE_AFTER |-> "",
     CONTENT_OPTIMIZER_SEND_RECV_TIMEOUT |-> 80, allow_all |-> TRUE]

\* The versions that had each option of Legacy.
LegacyVersions ==
    [nss |-> 0..3, STATIC_CONTENT_SERVERS_HTTP |-> 0..12, STATIC_CONTENT_SERVERS_HTTPS |-> 0..12,
     CUSTOM_APACHE_CODE_BEFORE |-> 10..18, CUSTOM_APACHE_CODE_AFTER |-> 0..18,
     CONTENT_OPTIMIZER_SEND_RECV_TIMEOUT |-> 15..15]

\* Options that came later without a step of their own.
Unversioned == {"ENABLE_WALLARM", "WALLARM_CONFIG", "CUSTOM_WEBSERVER_CO_CODE_AFTER",
                "ORIGIN_SECURE_PROTOCOL", "ENABLE_DECOMPRESSION"}

Known == InitialConfig[Base]

Introduced(n) ==
    UNION {DOMAIN BpAdds(m, Legacy @@ [acl |-> Legacy]) : m \in n..28}
        \cup IF n < 29 THEN Unversioned ELSE {}

StoredBp(n) ==
    [o \in {"VERSION"} |-> n]
        @@ (IF n = 11 THEN [acl |-> [enabled |-> TRUE, allow_all |-> FALSE, acl_rules |-> {}]]
            ELSE <<>>)
        @@ [o \in {p \in DOMAIN LegacyVersions : n \in LegacyVersions[p]} |-> Legacy[o]]
        @@ Without(Known.web.bp, Introduced(n))

StoredProfiles(v) == [VERSION |-> v, REV_CUSTOM_IMG_LEVEL |-> "med"] @@ Known.web.co_profiles

StoredVarnish(n) ==
    LET later == UNION {DOMAIN VarnishAdds(m, GenericVarnish) : m \in n..16} \ {"CACHING_RULES"}
    IN  [VERSION |-> n]
            @@ (IF n = 2 THEN [URLS_REMOVE_COOKIES_REGEX |-> <<"/img">>] ELSE <<>>)
            @@ (IF n <= 6 THEN [STATIC_CONTENT_SERVERS_HTTP |-> {"cdn"}] ELSE <<>>)
            @@ Without(Known.varnish,
                       later \cup IF n <= 2 THEN {"CACHING_RULES"} ELSE {})

StoredBy(bp, profiles, v) ==
    [web |-> [bp |-> StoredBp(bp), co_profiles |-> StoredProfiles(profiles)],
     varnish |-> StoredVarnish(v)]

MCStored ==
    {StoredBy(3, 1, 1), StoredBy(3, 1, 2), StoredBy(7, 1, 3), StoredBy(11, 1, 6),
     StoredBy(12, 1, 8), StoredBy(15, 2, 10), StoredBy(18, 2, 13), StoredBy(23, 2, 15),
     StoredBy(25, 2, 16), StoredBy(29, 2, 17),
     [StoredBy(18, 2, 13) EXCEPT !.web = @ @@ [co |-> [VERSION |-> 12]]]}

=============================================================================
