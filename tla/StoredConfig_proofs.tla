------------------------- MODULE StoredConfig_proofs -------------------------
(***************************************************************************)
(* What patching stores and which cached URLs it bans, for any stored      *)
(* variables, any UI configuration and any lists of caching rules.         *)
(***************************************************************************)
EXTENDS StoredConfig, TLAPS

-----------------------------------------------------------------------------
(* Patching                                                                *)

\* An option that a patch names has the wanted value afterwards.
LEMMA PatchedIsWanted ==
  ASSUME NEW stored, NEW patch, NEW o \in DOMAIN patch
  PROVE  Get(Patched(stored, patch), o, None) = patch[o]
<1>1. CASE o \in Changed(stored, patch)
  BY <1>1 DEF Patched, Get
<1>2. CASE o \notin Changed(stored, patch)
  <2>1. Get(stored, o, None) = patch[o]
    BY <1>2 DEF Changed
  <2> QED BY <1>2, <2>1 DEF Patched, Get
<1> QED BY <1>1, <1>2

\* So nothing is left to change.
LEMMA NothingLeft ==
  ASSUME NEW stored, NEW patch
  PROVE  Changed(Patched(stored, patch), patch) = {}
BY PatchedIsWanted DEF Changed

\* The same UI configuration, patched in a second time, changes no variable
\* of either server and bans no HTML, whatever was stored before the first
\* time and whatever the configuration asks for: _patch_if_changed_* writes
\* exactly the options that the comparison finds different.
THEOREM PatchIsIdempotent ==
  ASSUME NEW stored, NEW storedVarnish, NEW u, "bp" \in DOMAIN stored
  PROVE  LET once == PatchConfig(stored, storedVarnish, u)
             again == PatchConfig(once.web, once.varnish, u)
         IN  /\ ~ again.configChanged
             /\ ~ again.varnishChanged
             /\ ~ again.banHtml
<1> DEFINE once == PatchConfig(stored, storedVarnish, u)
           again == PatchConfig(once.web, once.varnish, u)
           patch(s) == Get(Wanted[u].web, s, <<>>)
<1>1. /\ DOMAIN once.web = DOMAIN stored
      /\ \A s \in DOMAIN stored : once.web[s] = Patched(stored[s], patch(s))
      /\ once.varnish = Patched(storedVarnish, Wanted[u].varnish)
  BY DEF PatchConfig
<1>2. \A s \in DOMAIN stored : Changed(once.web[s], patch(s)) = {}
  BY <1>1, NothingLeft
<1>3. Changed(once.varnish, Wanted[u].varnish) = {}
  BY <1>1, NothingLeft
<1> HIDE DEF once
<1>4. ~ again.configChanged
  BY <1>1, <1>2 DEF PatchConfig
<1>5. ~ again.varnishChanged
  BY <1>3 DEF PatchConfig
<1>6. ~ again.banHtml
  BY <1>1, <1>2 DEF PatchConfig
<1> QED BY <1>4, <1>5, <1>6 DEF once

-----------------------------------------------------------------------------
(* Bans                                                                    *)

\* In a list that names no pattern twice, the rule of each pattern counts.
LEMMA RuleOfUrl ==
  ASSUME NEW S, NEW rules \in Seq(S), UniqueUrls(rules), NEW i \in DOMAIN rules
  PROVE  /\ UrlKey(rules[i]) \in DOMAIN RulesByUrl(rules)
         /\ RulesByUrl(rules)[UrlKey(rules[i])] = rules[i].body
<1> DEFINE Counts(k, j) ==
             /\ UrlKey(rules[j]) = k
             /\ \A m \in DOMAIN rules : m > j => UrlKey(rules[m]) # k
           Last(k) == CHOOSE j \in DOMAIN rules : Counts(k, j)
           key == UrlKey(rules[i])
<1>1. RulesByUrl(rules) =
        [k \in {UrlKey(rules[j]) : j \in DOMAIN rules} |-> rules[Last(k)].body]
  BY DEF RulesByUrl
<1>2. DOMAIN rules \subseteq Nat
  OBVIOUS
<1>3. \A j \in DOMAIN rules : UrlKey(rules[j]) = key => j = i
  BY DEF UniqueUrls
<1>4. Counts(key, i)
  BY <1>2, <1>3
<1>5. \E j \in DOMAIN rules : Counts(key, j)
  BY <1>4
<1>6. Last(key) \in DOMAIN rules /\ Counts(key, Last(key))
  BY <1>5
<1>7. Last(key) = i
  BY <1>3, <1>6
<1>8. key \in {UrlKey(rules[j]) : j \in DOMAIN rules}
  OBVIOUS
<1> QED BY <1>1, <1>7, <1>8

\* No other pattern has a rule.
LEMMA UrlsOfRules ==
  ASSUME NEW rules
  PROVE  DOMAIN RulesByUrl(rules) = {UrlKey(rules[i]) : i \in DOMAIN rules}
BY DEF RulesByUrl

\* What stands for a pattern in one list stands for it in the other exactly
\* when the other has a rule like it.
LEMMA SameRule ==
  ASSUME NEW S, NEW one \in Seq(S), NEW other \in Seq(S),
         UniqueUrls(one), UniqueUrls(other),
         NEW i \in DOMAIN one, one[i].body # None
  PROVE  Having(other, one[i]) <=>
            Get(RulesByUrl(other), UrlKey(one[i]), None) = one[i].body
<1> DEFINE key == UrlKey(one[i])
<1>1. ASSUME Having(other, one[i])
      PROVE  Get(RulesByUrl(other), key, None) = one[i].body
  <2>1. PICK j \in DOMAIN other : UrlKey(other[j]) = key /\ other[j].body = one[i].body
    BY <1>1 DEF Having
  <2> QED BY <2>1, RuleOfUrl DEF Get
<1>2. ASSUME Get(RulesByUrl(other), key, None) = one[i].body
      PROVE  Having(other, one[i])
  <2>1. key \in DOMAIN RulesByUrl(other)
    BY <1>2 DEF Get
  <2>2. key \in {UrlKey(other[j]) : j \in DOMAIN other}
    BY <2>1, UrlsOfRules, Zenon
  <2>3. PICK j \in DOMAIN other : UrlKey(other[j]) = key
    BY <2>2
  <2>4. RulesByUrl(other)[key] = other[j].body
    BY <2>3, RuleOfUrl
  <2> QED BY <1>2, <2>1, <2>3, <2>4 DEF Having, Get
<1> QED BY <1>1, <1>2

\* The bans of an update, for any two lists of rules that name no pattern
\* twice: exactly the patterns of the rules that were added, removed or
\* changed (the comparison of the two dictionaries in _patch_varnish).
THEOREM BansAreChanges ==
  ASSUME NEW S, NEW old \in Seq(S), NEW new \in Seq(S),
         UniqueUrls(old), UniqueUrls(new),
         \A r \in S : r.body # None
  PROVE  BanUrls(old, new) = RuleChanges(old, new)
<1> DEFINE o == RulesByUrl(old)
           n == RulesByUrl(new)
           Gone == {UrlKey(old[i]) : i \in {k \in DOMAIN old : ~ Having(new, old[k])}}
           Come == {UrlKey(new[i]) : i \in {k \in DOMAIN new : ~ Having(old, new[k])}}
<1>1. /\ \A i \in DOMAIN old : old[i].body # None
      /\ \A i \in DOMAIN new : new[i].body # None
  OBVIOUS
<1>2. /\ DOMAIN o = {UrlKey(old[i]) : i \in DOMAIN old}
      /\ DOMAIN n = {UrlKey(new[i]) : i \in DOMAIN new}
  BY UrlsOfRules
<1>3. \A i \in DOMAIN old :
         /\ Get(o, UrlKey(old[i]), None) = old[i].body
         /\ Having(new, old[i]) <=> Get(n, UrlKey(old[i]), None) = old[i].body
  BY <1>1, RuleOfUrl, SameRule DEF Get
<1>4. \A i \in DOMAIN new :
         /\ Get(n, UrlKey(new[i]), None) = new[i].body
         /\ Having(old, new[i]) <=> Get(o, UrlKey(new[i]), None) = new[i].body
  BY <1>1, RuleOfUrl, SameRule DEF Get
<1>5. BanUrls(old, new) =
        {k \in DOMAIN o \cup DOMAIN n : Get(o, k, None) # Get(n, k, None)}
  BY DEF BanUrls
<1>6. RuleChanges(old, new) = Gone \cup Come
  BY DEF RuleChanges
<1> HIDE DEF o, n
<1>7. Gone \cup Come \subseteq BanUrls(old, new)
  BY <1>2, <1>3, <1>4, <1>5
<1>8. BanUrls(old, new) \subseteq Gone \cup Come
  BY <1>2, <1>3, <1>4, <1>5
<1> QED BY <1>6, <1>7, <1>8

-----------------------------------------------------------------------------
(* What the patches of a UI configuration write                            *)

\* What overlaying two dictionaries gives.
LEMMA OverDomain ==
  ASSUME NEW f, NEW g
  PROVE  /\ DOMAIN (f ++ g) = DOMAIN f \cup DOMAIN g
         /\ \A k \in DOMAIN f : (f ++ g)[k] = f[k]
         /\ \A k \in DOMAIN g \ DOMAIN f : (f ++ g)[k] = g[k]
BY DEF ++

LEMMA OverWithin ==
  ASSUME NEW S, NEW f, NEW g, DOMAIN f \subseteq S, DOMAIN g \subseteq S
  PROVE  DOMAIN (f ++ g) \subseteq S
BY DEF ++

\* Patching changes no option that the patch does not name.
LEMMA PatchedKeeps ==
  ASSUME NEW stored, NEW patch
  PROVE  /\ DOMAIN stored \subseteq DOMAIN Patched(stored, patch)
         /\ DOMAIN Patched(stored, patch) \subseteq DOMAIN stored \cup DOMAIN patch
         /\ \A o \in DOMAIN stored \ DOMAIN patch : Patched(stored, patch)[o] = stored[o]
BY DEF Patched, Changed

\* The options that a domain starts with.
LEMMA InitialVariables ==
  ASSUME NEW u
  PROVE  /\ DOMAIN InitialFor(u).web = {"bp", "co_profiles"}
         /\ InitialFor(u).web.co_profiles = GenericProfiles
         /\ DOMAIN InitialFor(u).web.bp = DOMAIN GenericBp \cup
              {"CONTENT_OPTIMIZERS_HTTP", "CONTENT_OPTIMIZERS_HTTPS", "ORIGIN_SERVER_NAME",
               "ORIGIN_SERVERS_HTTP", "ORIGIN_SERVERS_HTTPS"}
         /\ InitialFor(u).web.bp.VERSION = BpVersion
         /\ InitialFor(u).web.bp.acl = OpenAcl
         /\ DOMAIN InitialFor(u).varnish = DOMAIN GenericVarnish \cup
              {"CONTENT_OPTIMIZERS_HTTP", "CONTENT_OPTIMIZERS_HTTPS"}
         /\ \A o \in DOMAIN GenericVarnish : InitialFor(u).varnish[o] = GenericVarnish[o]
<1> DEFINE init == InitialFor(u)
           cos == InitialOptimizers(u)
           origin == {OwsServer(u)}
           own == [CONTENT_OPTIMIZERS_HTTP |-> UrlsOf(TRUE, "http", cos),
                   CONTENT_OPTIMIZERS_HTTPS |-> UrlsOf(TRUE, "https", cos),
                   ORIGIN_SERVER_NAME |-> OwsDomain(u),
                   ORIGIN_SERVERS_HTTP |-> UrlsOf(TRUE, "http", origin),
                   ORIGIN_SERVERS_HTTPS |-> UrlsOf(TRUE, "https", origin)]
           ownVarnish == [CONTENT_OPTIMIZERS_HTTP |-> cos, CONTENT_OPTIMIZERS_HTTPS |-> cos]
<1>1. /\ init.web = [bp |-> own ++ GenericBp, co_profiles |-> GenericProfiles]
      /\ init.varnish = ownVarnish ++ GenericVarnish
  BY DEF InitialFor
<1>2. DOMAIN own = {"CONTENT_OPTIMIZERS_HTTP", "CONTENT_OPTIMIZERS_HTTPS",
                    "ORIGIN_SERVER_NAME", "ORIGIN_SERVERS_HTTP", "ORIGIN_SERVERS_HTTPS"}
  OBVIOUS
<1>3. DOMAIN ownVarnish = {"CONTENT_OPTIMIZERS_HTTP", "CONTENT_OPTIMIZERS_HTTPS"}
  OBVIOUS
<1> HIDE DEF init, own, ownVarnish
<1>4. /\ DOMAIN init.web.bp = DOMAIN own \cup DOMAIN GenericBp
      /\ \A o \in DOMAIN GenericBp \ DOMAIN own : init.web.bp[o] = GenericBp[o]
  BY <1>1 DEF ++
<1>5. /\ DOMAIN init.varnish = DOMAIN ownVarnish \cup DOMAIN GenericVarnish
      /\ \A o \in DOMAIN GenericVarnish \ DOMAIN ownVarnish :
           init.varnish[o] = GenericVarnish[o]
  BY <1>1 DEF ++
<1>6. "VERSION" \in DOMAIN GenericBp /\ "acl" \in DOMAIN GenericBp
  BY DEF GenericBp
<1>7. /\ GenericBp.VERSION = BpVersion /\ GenericBp.acl = OpenAcl
  BY DEF GenericBp
<1>8. DOMAIN GenericVarnish \cap DOMAIN ownVarnish = {}
  BY <1>3 DEF GenericVarnish
<1>9. /\ init.web.bp.VERSION = BpVersion /\ init.web.bp.acl = OpenAcl
  BY <1>2, <1>4, <1>6, <1>7
<1> QED BY <1>1, <1>2, <1>3, <1>4, <1>5, <1>8, <1>9 DEF init

LEMMA InitialOptions ==
  ASSUME NEW u \in Patching \cup {None}
  PROVE  /\ DOMAIN InitialConfig[u].web = {"bp", "co_profiles"}
         /\ InitialConfig[u].web.co_profiles = GenericProfiles
         /\ DOMAIN InitialConfig[u].web.bp = DOMAIN InitialConfig[None].web.bp
         /\ InitialConfig[u].web.bp.VERSION = BpVersion
         /\ InitialConfig[u].web.bp.acl = OpenAcl
         /\ DOMAIN InitialConfig[u].varnish = VarnishRequired
         /\ \A o \in DOMAIN GenericVarnish : InitialConfig[u].varnish[o] = GenericVarnish[o]
         /\ DOMAIN InitialConfig[None].web.bp = DOMAIN GenericBp \cup
              {"CONTENT_OPTIMIZERS_HTTP", "CONTENT_OPTIMIZERS_HTTPS", "ORIGIN_SERVER_NAME",
               "ORIGIN_SERVERS_HTTP", "ORIGIN_SERVERS_HTTPS"}
         /\ VarnishRequired = DOMAIN GenericVarnish \cup
              {"CONTENT_OPTIMIZERS_HTTP", "CONTENT_OPTIMIZERS_HTTPS"}
<1>1. /\ InitialConfig[None] = InitialFor([top |-> <<>>])
      /\ InitialConfig[u] = InitialFor(IF u = None THEN [top |-> <<>>] ELSE u)
  BY DEF InitialConfig
<1>2. PICK a, b : InitialConfig[None] = InitialFor(a) /\ InitialConfig[u] = InitialFor(b)
  BY <1>1
<1>3. /\ DOMAIN InitialFor(a).web.bp = DOMAIN InitialFor(b).web.bp
      /\ DOMAIN InitialFor(a).varnish = DOMAIN InitialFor(b).varnish
  BY InitialVariables
<1>4. VarnishRequired = DOMAIN InitialFor(a).varnish
  BY <1>2 DEF VarnishRequired
<1> QED BY <1>2, <1>3, <1>4, InitialVariables

\* A patch writes only options that every domain has, and the anonymizer; the
\* versions are not among them.
LEMMA WebOptions ==
  ASSUME NEW u
  PROVE  /\ DOMAIN WebPatch(u) = {"bp", "co_profiles"}
         /\ DOMAIN WebPatch(u).co_profiles \subseteq DOMAIN GenericProfiles \ {"VERSION"}
         /\ DOMAIN WebPatch(u).bp \subseteq
              (DOMAIN InitialConfig[None].web.bp \ {"VERSION"}) \cup {"IP_ADDRESS_ANONYMIZER"}
<1> DEFINE Options == (DOMAIN InitialConfig[None].web.bp \ {"VERSION"})
                        \cup {"IP_ADDRESS_ANONYMIZER"}
<1>1. DOMAIN ContentBp(u) \subseteq Options
  BY InitialOptions DEF ContentBp, GenericBp
<1>2. DOMAIN CacheBp(u) \subseteq Options
  BY InitialOptions DEF CacheBp, GenericBp
<1>3. DOMAIN SecurityBp(u) \subseteq Options
  BY InitialOptions DEF SecurityBp, GenericBp
<1>4. DOMAIN DomainsBp(u) \subseteq Options
  BY InitialOptions DEF DomainsBp, GenericBp
<1>5. DOMAIN OptimizersBp(u) \subseteq Options
  BY InitialOptions DEF OptimizersBp
<1>6. DOMAIN MiscBp(u) \subseteq Options
  BY InitialOptions DEF MiscBp, GenericBp
<1>7. DOMAIN SslBp(u) \subseteq Options
  BY InitialOptions DEF SslBp, GenericBp
<1> HIDE DEF Options
<1>8. DOMAIN WebPatch(u).bp \subseteq Options
  <2>1. CASE CmdOpts(u).config_bp
    <3>1. WebPatch(u).bp = ContentBp(u) ++ CacheBp(u) ++ SecurityBp(u) ++ DomainsBp(u)
                             ++ OptimizersBp(u) ++ MiscBp(u) ++ SslBp(u)
      BY <2>1 DEF WebPatch
    <3>2. DOMAIN (ContentBp(u) ++ CacheBp(u) ++ SecurityBp(u)) \subseteq Options
      BY <1>1, <1>2, <1>3, OverWithin
    <3>3. DOMAIN (ContentBp(u) ++ CacheBp(u) ++ SecurityBp(u) ++ DomainsBp(u)
                    ++ OptimizersBp(u)) \subseteq Options
      BY <3>2, <1>4, <1>5, OverWithin
    <3> QED BY <3>1, <3>3, <1>6, <1>7, OverWithin
  <2>2. CASE ~ CmdOpts(u).config_bp
    BY <2>2 DEF WebPatch
  <2> QED BY <2>1, <2>2
<1>9. DOMAIN WebPatch(u).co_profiles \subseteq DOMAIN GenericProfiles \ {"VERSION"}
  BY DEF WebPatch, ContentProfiles, GenericProfiles
<1>10. DOMAIN WebPatch(u) = {"bp", "co_profiles"}
  BY DEF WebPatch
<1> QED BY <1>8, <1>9, <1>10 DEF Options

\* The same for Varnish; its rules are written when the UI configuration has some.
LEMMA VarnishOptions ==
  ASSUME NEW u
  PROVE  /\ DOMAIN VarnishPatch(u) \subseteq VarnishRequired \ {"VERSION"}
         /\ "caching_rules" \in DOMAIN u.bp =>
              /\ "CACHING_RULES" \in DOMAIN VarnishPatch(u)
              /\ VarnishPatch(u).CACHING_RULES = u.bp.caching_rules
         /\ "caching_rules" \notin DOMAIN u.bp =>
              "CACHING_RULES" \notin DOMAIN VarnishPatch(u)
<1>1. DOMAIN OptimizersVarnish(u) \subseteq VarnishRequired \ {"VERSION", "CACHING_RULES"}
  BY InitialOptions DEF OptimizersVarnish, GenericVarnish
<1>2. DOMAIN MiscVarnish(u) \subseteq VarnishRequired \ {"VERSION", "CACHING_RULES"}
  BY InitialOptions DEF MiscVarnish, GenericVarnish
<1>3. /\ DOMAIN CacheVarnish(u) \subseteq VarnishRequired \ {"VERSION"}
      /\ "caching_rules" \in DOMAIN u.bp =>
           /\ "CACHING_RULES" \in DOMAIN CacheVarnish(u)
           /\ CacheVarnish(u).CACHING_RULES = u.bp.caching_rules
      /\ "caching_rules" \notin DOMAIN u.bp =>
           "CACHING_RULES" \notin DOMAIN CacheVarnish(u)
  <2> DEFINE rules == IF "caching_rules" \in DOMAIN u.bp
                      THEN [CACHING_RULES |-> u.bp.caching_rules] ELSE <<>>
  <2>1. PICK r : /\ CacheVarnish(u) = r ++ rules
                 /\ DOMAIN r \subseteq DOMAIN GenericVarnish \ {"VERSION", "CACHING_RULES"}
    BY DEF CacheVarnish, GenericVarnish
  <2>2. /\ "caching_rules" \in DOMAIN u.bp => /\ DOMAIN rules = {"CACHING_RULES"}
                                             /\ rules.CACHING_RULES = u.bp.caching_rules
        /\ "caching_rules" \notin DOMAIN u.bp => DOMAIN rules = {}
    OBVIOUS
  <2> HIDE DEF rules
  <2>3. DOMAIN GenericVarnish \subseteq VarnishRequired /\ "CACHING_RULES" \in VarnishRequired
    BY InitialOptions DEF GenericVarnish
  <2>4. /\ DOMAIN CacheVarnish(u) = DOMAIN r \cup DOMAIN rules
        /\ \A o \in DOMAIN rules \ DOMAIN r : CacheVarnish(u)[o] = rules[o]
    BY <2>1 DEF ++
  <2>5. CASE "caching_rules" \in DOMAIN u.bp
    BY <2>1, <2>2, <2>3, <2>4, <2>5
  <2>6. CASE "caching_rules" \notin DOMAIN u.bp
    BY <2>1, <2>2, <2>3, <2>4, <2>6
  <2> QED BY <2>5, <2>6
<1> DEFINE cache == CacheVarnish(u)
           most == CacheVarnish(u) ++ OptimizersVarnish(u)
<1>4. VarnishPatch(u) = most ++ MiscVarnish(u)
  BY DEF VarnishPatch
<1>5. /\ DOMAIN most = DOMAIN cache \cup DOMAIN OptimizersVarnish(u)
      /\ \A o \in DOMAIN cache : most[o] = cache[o]
  BY OverDomain
<1> HIDE DEF most
<1>6. /\ DOMAIN VarnishPatch(u) = DOMAIN most \cup DOMAIN MiscVarnish(u)
      /\ \A o \in DOMAIN most : VarnishPatch(u)[o] = most[o]
  BY <1>4 DEF ++
<1> QED BY <1>1, <1>2, <1>3, <1>5, <1>6

-----------------------------------------------------------------------------
(* The UI configuration that is saved                                      *)

\* The overlay URLs apart, patching leaves a UI configuration as it is.
LEMMA AsPatchedFields ==
  ASSUME NEW u \in UIs
  PROVE  LET v == AsPatched(u)
         IN  /\ v.version = u.version /\ v.words = u.words /\ v.top = u.top /\ v.co = u.co
             /\ DOMAIN v.bp = DOMAIN u.bp
             /\ \A k \in DOMAIN u.bp \ {"cdn_overlay_urls"} : v.bp[k] = u.bp[k]
             /\ \/ Get(u.bp, "cache_opt_choice", None) = RevCdn /\ v = u
                \/ /\ Get(u.bp, "cache_opt_choice", None) # RevCdn
                   /\ v.bp.cdn_overlay_urls = ProxiedDomains(u)
<1>1. CASE Get(u.bp, "cache_opt_choice", None) = RevCdn
  BY <1>1 DEF AsPatched
<1>2. CASE Get(u.bp, "cache_opt_choice", None) # RevCdn
  <2>1. AsPatched(u) = [u EXCEPT !.bp.cdn_overlay_urls = ProxiedDomains(u)]
    BY <1>2 DEF AsPatched
  <2>2. /\ {"version", "words", "top", "bp", "co"} \subseteq DOMAIN u
        /\ "cdn_overlay_urls" \in DOMAIN u.bp
    BY <1>2, UIsAssumption
  <2> QED BY <1>2, <2>1, <2>2
<1> QED BY <1>1, <1>2

\* So the configuration that is saved asks for what the one that was sent
\* asks for: its overlay URLs then hold the root domains, and adding these
\* once more adds nothing.
LEMMA AsPatchedWants ==
  ASSUME NEW u \in UIs
  PROVE  Wanted[AsPatched(u)] = Wanted[u]
<1> DEFINE v == AsPatched(u)
<1>1. /\ v.version = u.version /\ v.words = u.words /\ v.top = u.top /\ v.co = u.co
      /\ DOMAIN v.bp = DOMAIN u.bp
      /\ \A k \in DOMAIN u.bp \ {"cdn_overlay_urls"} : v.bp[k] = u.bp[k]
      /\ \/ Get(u.bp, "cache_opt_choice", None) = RevCdn /\ v = u
         \/ /\ Get(u.bp, "cache_opt_choice", None) # RevCdn
            /\ v.bp.cdn_overlay_urls = ProxiedDomains(u)
  BY AsPatchedFields
<1>2. /\ u \in Patching /\ v \in Patching /\ "enable_cache" \in DOMAIN u.bp
  BY UIsAssumption DEF Patching
<1> HIDE DEF v
<1>3. ASSUME NEW k, NEW d, k # "cdn_overlay_urls"
      PROVE  Get(v.bp, k, d) = Get(u.bp, k, d)
  BY <1>1, <1>3 DEF Get
<1>4. v.bp.enable_cache = u.bp.enable_cache
  BY <1>1, <1>2
<1>5. CmdOpts(v) = CmdOpts(u)
  BY <1>1 DEF CmdOpts
<1>6. /\ ThirdParty(v) = ThirdParty(u) /\ OldRewrite(v) = OldRewrite(u)
      /\ RewriteEnabled(v) = RewriteEnabled(u) /\ RootDomains(v) = RootDomains(u)
  BY <1>1, <1>5 DEF ThirdParty, OldRewrite, RewriteEnabled, RootDomains
<1>7. v = u \/ OverlayUrls(v) = ProxiedDomains(u)
  BY <1>1, <1>3 DEF OverlayUrls
<1>8. ProxiedDomains(v) = ProxiedDomains(u)
  BY <1>6, <1>7 DEF ProxiedDomains
<1>9. OptimizedDomains(v) = OptimizedDomains(u)
  <2>1. CASE ~ OldRewrite(u)
    BY <1>6, <1>8, <2>1 DEF OptimizedDomains
  <2>2. CASE OldRewrite(u)
    <3>1. RootDomains(u) = {}
      BY <2>2 DEF RootDomains
    <3>2. v = u \/ OverlayUrls(v) = OverlayUrls(u)
      BY <1>7, <3>1 DEF ProxiedDomains
    <3> QED BY <1>6, <1>8, <2>2, <3>2 DEF OptimizedDomains
  <2> QED BY <2>1, <2>2
<1>10. /\ OwsDomain(v) = OwsDomain(u) /\ OwsServer(v) = OwsServer(u)
       /\ ContentOptimizers(v) = ContentOptimizers(u)
       /\ HttpScheme(v) = HttpScheme(u) /\ HttpsScheme(v) = HttpsScheme(u)
       /\ OriginProtocol(v) = OriginProtocol(u) /\ Probing(v) = Probing(u)
  BY <1>1, <1>5 DEF OwsDomain, OwsServer, ContentOptimizers, HttpScheme, HttpsScheme,
                    OriginProtocol, Probing
<1>11. /\ ContentProfiles(v) = ContentProfiles(u) /\ ContentBp(v) = ContentBp(u)
  BY <1>1 DEF ContentProfiles, ContentBp, OptLevel, CustomLevel
<1>12. GeoIpHeaders(v) = GeoIpHeaders(u) /\ CacheBp(v) = CacheBp(u)
  BY <1>3, <1>4 DEF GeoIpHeaders, CacheBp
<1>13. SecurityBp(v) = SecurityBp(u)
  BY <1>3 DEF SecurityBp
<1>14. DomainsBp(v) = DomainsBp(u)
  BY <1>8, <1>9 DEF DomainsBp
<1>15. OptimizersBp(v) = OptimizersBp(u) /\ OptimizersVarnish(v) = OptimizersVarnish(u)
  BY <1>5, <1>10 DEF OptimizersBp, OptimizersVarnish
<1>16. SslBp(v) = SslBp(u)
  BY <1>1 DEF SslBp
<1>17. MiscBp(v) = MiscBp(u)
  <2>1. ResponseHeaders(v) = ResponseHeaders(u)
    BY <1>3 DEF ResponseHeaders, Rules
  <2>2. /\ Get(v.bp, "lua", {}) = Get(u.bp, "lua", {})
        /\ Get(v.bp, "bp_apache_fe_custom_config", NoText)
             = Get(u.bp, "bp_apache_fe_custom_config", NoText)
        /\ Get(v.bp, "bp_apache_custom_config", NoText) = Get(u.bp, "bp_apache_custom_config", NoText)
        /\ Get(v.bp, "enable_http2", TRUE) = Get(u.bp, "enable_http2", TRUE)
        /\ Get(v.bp, "origin_http_keepalive_ttl", 80)
             = Get(u.bp, "origin_http_keepalive_ttl", 80)
        /\ Get(v.bp, "origin_http_keepalive_enabled", TRUE)
             = Get(u.bp, "origin_http_keepalive_enabled", TRUE)
        /\ Get(v.bp, "enable_proxy_buffering", FALSE)
             = Get(u.bp, "enable_proxy_buffering", FALSE)
        /\ Get(v.bp, "enable_quic", FALSE) = Get(u.bp, "enable_quic", FALSE)
        /\ Get(v.bp, "co_bypass_locations", {}) = Get(u.bp, "co_bypass_locations", {})
    BY <1>3, Zenon
  <2>3. v.top = u.top /\ v.co = u.co
    BY <1>1
  <2> QED BY <1>5, <1>6, <1>10, <2>1, <2>2, <2>3, ZenonT(120) DEF MiscBp
<1>18. MiscVarnish(v) = MiscVarnish(u)
  BY <1>3, <1>5 DEF MiscVarnish
<1>19. CacheVarnish(v) = CacheVarnish(u)
  <2>1. CustomVcl(v) = CustomVcl(u)
    BY <1>3 DEF CustomVcl
  <2>2. "caching_rules" \in DOMAIN u.bp => v.bp.caching_rules = u.bp.caching_rules
    BY <1>1
  <2> QED BY <1>1, <1>3, <1>4, <1>5, <1>10, <1>12, <2>1, <2>2 DEF CacheVarnish
<1>20. WebPatch(v) = WebPatch(u)
  BY <1>5, <1>11, <1>12, <1>13, <1>14, <1>15, <1>16, <1>17 DEF WebPatch
<1>21. VarnishPatch(v) = VarnishPatch(u)
  BY <1>15, <1>18, <1>19 DEF VarnishPatch
<1> QED BY <1>2, <1>20, <1>21 DEF Wanted, v

-----------------------------------------------------------------------------
(* What is stored, over the runs                                           *)

\* Nothing that u asks for is missing.
Settled(w, v, u) ==
  /\ \A s \in DOMAIN w : Changed(w[s], Get(Wanted[u].web, s, <<>>)) = {}
  /\ Changed(v, Wanted[u].varnish) = {}

\* What is stored is of an older release, or has every option, and then it is
\* settled for the UI configuration in force.  Without one that is saved, a
\* run has failed after its results were validated.
SInv ==
  /\ applied \in Patching \cup {None} /\ saved \in Patching \cup {None, Torn}
  /\ \/ applied = None /\ web = None /\ varnish = None
     \/ applied = None /\ \E s \in Stored : web = s.web /\ varnish \in {s.varnish, None}
     \/ CurrentWeb(web) /\ (varnish # None => CurrentVarnish(varnish))
  /\ applied # None /\ varnish # None =>
       /\ CurrentWeb(web) /\ CurrentVarnish(varnish)
       /\ Settled(web, varnish, applied)
       /\ saved = None => DOMAIN varnish.ORIGIN_HEALTH_PROBE = DOMAIN NoProbe

\* Also the UI configuration that is saved has lists of rules.
LEMMA PatchRules ==
  ASSUME NEW u \in Patching, "caching_rules" \in DOMAIN u.bp
  PROVE  AreRules(u.bp.caching_rules)
<1>1. CASE u \in UIs
  BY <1>1, UIsAssumption
<1>2. CASE u \notin UIs
  <2>1. PICK w \in UIs : u = AsPatched(w)
    BY <1>2 DEF Patching
  <2>2. DOMAIN u.bp = DOMAIN w.bp /\ u.bp.caching_rules = w.bp.caching_rules
    BY <2>1, AsPatchedFields
  <2> QED BY <2>2, UIsAssumption
<1> QED BY <1>1, <1>2

\* After a patch nothing that was asked for is missing.
LEMMA PatchSettles ==
  ASSUME NEW w, NEW v, NEW u
  PROVE  Settled(PatchConfig(w, v, u).web, PatchConfig(w, v, u).varnish, u)
BY NothingLeft DEF Settled, PatchConfig

\* A patch keeps what every domain has.
LEMMA PatchKeepsCurrent ==
  ASSUME NEW w, NEW v, NEW u \in Patching, CurrentWeb(w), CurrentVarnish(v)
  PROVE  /\ CurrentWeb(PatchConfig(w, v, u).web) /\ CurrentVarnish(PatchConfig(w, v, u).varnish)
         /\ PatchConfig(w, v, u).varnish.CACHING_RULES =
              IF "caching_rules" \in DOMAIN u.bp THEN u.bp.caching_rules ELSE v.CACHING_RULES
<1> DEFINE p == PatchConfig(w, v, u)
           bp == Wanted[u].web.bp
           co == Wanted[u].web.co_profiles
           va == Wanted[u].varnish
<1>1. /\ DOMAIN Wanted[u].web = {"bp", "co_profiles"}
      /\ "VERSION" \notin DOMAIN bp /\ "VERSION" \notin DOMAIN va
  BY WebOptions, VarnishOptions DEF Wanted
<1>2. /\ "caching_rules" \in DOMAIN u.bp =>
           "CACHING_RULES" \in DOMAIN va /\ va.CACHING_RULES = u.bp.caching_rules
      /\ "caching_rules" \notin DOMAIN u.bp => "CACHING_RULES" \notin DOMAIN va
  BY VarnishOptions DEF Wanted
<1>3. {"bp", "co_profiles"} \subseteq DOMAIN w /\ w.bp.VERSION = BpVersion
  BY DEF CurrentWeb
<1>4. /\ DOMAIN p.web = DOMAIN w
      /\ p.web.bp = Patched(w.bp, bp) /\ p.web.co_profiles = Patched(w.co_profiles, co)
      /\ p.varnish = Patched(v, va)
  BY <1>1, <1>3 DEF PatchConfig, Get
<1> HIDE DEF p, bp, co, va
<1>5. /\ "VERSION" \in DOMAIN w.bp
      /\ "VERSION" \in DOMAIN v /\ "CACHING_RULES" \in DOMAIN v
      /\ VarnishRequired \subseteq DOMAIN v
      /\ v.VERSION = VarnishVersion /\ AreRules(v.CACHING_RULES)
  <2>1. "VERSION" \in DOMAIN InitialConfig[None].web.bp
    BY InitialOptions DEF GenericBp
  <2>2. {"VERSION", "CACHING_RULES"} \subseteq VarnishRequired
    BY InitialOptions DEF GenericVarnish
  <2> QED BY <1>3, <2>1, <2>2 DEF CurrentWeb, CurrentVarnish
<1>6. p.web.bp.VERSION = BpVersion /\ p.varnish.VERSION = VarnishVersion
  BY <1>1, <1>3, <1>4, <1>5, PatchedKeeps
<1>7. p.varnish.CACHING_RULES =
        IF "caching_rules" \in DOMAIN u.bp THEN u.bp.caching_rules ELSE v.CACHING_RULES
  <2>1. CASE "caching_rules" \in DOMAIN u.bp
    <3>1. Get(p.varnish, "CACHING_RULES", None) = u.bp.caching_rules
      BY <1>2, <1>4, <2>1, PatchedIsWanted
    <3>2. "CACHING_RULES" \in DOMAIN p.varnish
      BY <1>4, <1>5, PatchedKeeps
    <3> QED BY <2>1, <3>1, <3>2 DEF Get
  <2>2. CASE "caching_rules" \notin DOMAIN u.bp
    BY <1>2, <1>4, <1>5, <2>2, PatchedKeeps
  <2> QED BY <2>1, <2>2
<1>8. AreRules(p.varnish.CACHING_RULES)
  BY <1>5, <1>7, PatchRules
<1>9. /\ DOMAIN w.bp \subseteq DOMAIN p.web.bp
      /\ DOMAIN w.co_profiles \subseteq DOMAIN p.web.co_profiles
      /\ DOMAIN v \subseteq DOMAIN p.varnish
  BY <1>4, PatchedKeeps
<1>10. CurrentWeb(p.web) /\ CurrentVarnish(p.varnish)
  BY <1>3, <1>4, <1>5, <1>6, <1>8, <1>9 DEF CurrentWeb, CurrentVarnish
<1> QED BY <1>7, <1>10 DEF p

-----------------------------------------------------------------------------
(* What an upgrade makes of variables of any release                       *)

\* The converted variables have the new version, and rules if they had any.
LEMMA ConvertedWeb ==
  ASSUME NEW w, UpgradeWebserver(w) # None, Get(w.bp, "VERSION", 0) \in Nat
  PROVE  /\ UpgradeWebserver(w) = [bp |-> UpgradeBp(w.bp),
                                   co_profiles |-> UpgradeProfiles(w.co_profiles)]
         /\ "VERSION" \in DOMAIN UpgradeBp(w.bp)
         /\ UpgradeBp(w.bp).VERSION = BpVersion
<1> DEFINE bp == w.bp
           ver == Get(bp, "VERSION", 0)
           upto == [n \in ver..BpVersion |-> UpgradeBp(bp)]
<1>1. /\ UpgradeWebserver(w) = [bp |-> UpgradeBp(w.bp),
                                co_profiles |-> UpgradeProfiles(w.co_profiles)]
      /\ UpgradeBp(w.bp) # None
  BY DEF UpgradeWebserver
<1>2. CASE ver >= BpVersion
  <2>1. UpgradeBp(bp) = [bp EXCEPT !.VERSION = BpVersion]
    BY <1>2 DEF UpgradeBp
  <2>2. "VERSION" \in DOMAIN bp
    BY <1>2 DEF Get, BpVersion
  <2> QED BY <1>1, <2>1, <2>2
<1>3. CASE ~ (ver >= BpVersion)
  <2>1. \E f : UpgradeBp(bp) = [VERSION |-> BpVersion] ++ f
    BY <1>1, <1>3, Zenon DEF UpgradeBp
  <2>2. PICK f : UpgradeBp(bp) = [VERSION |-> BpVersion] ++ f
    BY <2>1
  <2> QED BY <1>1, <2>2 DEF ++
<1> QED BY <1>2, <1>3

LEMMA ConvertedVarnish ==
  ASSUME NEW v, UpgradeVarnish(v) # None, Get(v, "VERSION", 1) \in Nat,
         "CACHING_RULES" \in DOMAIN v => AreRules(v.CACHING_RULES),
         Get(v, "VERSION", 1) < VarnishVersion /\ StoredRules(v) # None =>
           AreRules(WithEsi(StoredRules(v)))
  PROVE  /\ "VERSION" \in DOMAIN UpgradeVarnish(v)
         /\ UpgradeVarnish(v).VERSION = VarnishVersion
         /\ "CACHING_RULES" \in DOMAIN UpgradeVarnish(v) =>
              AreRules(UpgradeVarnish(v).CACHING_RULES)
<1> DEFINE ver == Get(v, "VERSION", 1)
           steps == ver..(VarnishVersion - 1)
           Step(o) == CHOOSE n \in steps :
                         /\ o \in DOMAIN VarnishAdds(n, v)
                         /\ \A m \in steps : m > n => o \notin DOMAIN VarnishAdds(m, v)
           names == UNION {DOMAIN VarnishAdds(n, v) : n \in steps}
           added == [o \in names |-> VarnishAdds(Step(o), v)[o]]
           kept == Without(v, VarnishDrops(ver))
           new == [VERSION |-> VarnishVersion]
<1>1. /\ ~ (ver < VarnishVersion /\ StoredRules(v) = None)
      /\ UpgradeVarnish(v) = new ++ added ++ kept
  BY Zenon DEF UpgradeVarnish
<1>2. DOMAIN new = {"VERSION"} /\ new.VERSION = VarnishVersion
  OBVIOUS
<1>3. DOMAIN added = names
  OBVIOUS
<1>4. /\ DOMAIN kept \subseteq DOMAIN v
      /\ \A o \in DOMAIN kept : kept[o] = v[o]
  BY DEF Without
<1>5. CASE ver < VarnishVersion
  <2>1. 16 \in steps /\ \A m \in steps : ~ (m > 16)
    BY <1>5 DEF VarnishVersion
  <2>2. VarnishAdds(16, v) = [CACHING_RULES |-> WithEsi(StoredRules(v))]
    BY DEF VarnishAdds
  <2>3. "CACHING_RULES" \in DOMAIN VarnishAdds(16, v)
    BY <2>2
  <2>4. "CACHING_RULES" \in names
    BY <2>1, <2>3
  <2>5. Step("CACHING_RULES") = 16
    <3> HIDE DEF steps
    <3>1. steps \subseteq Nat
      BY DEF steps, VarnishVersion
    <3>2. \A n \in steps : n # 16 =>
            ~ \A m \in steps : m > n => "CACHING_RULES" \notin DOMAIN VarnishAdds(m, v)
      BY <2>1, <2>3, <3>1
    <3> QED BY <2>1, <2>3, <3>2
  <2>6. added["CACHING_RULES"] = WithEsi(StoredRules(v))
    <3> HIDE DEF Step, names
    <3>1. added["CACHING_RULES"] = VarnishAdds(Step("CACHING_RULES"), v)["CACHING_RULES"]
      BY <2>4
    <3> QED BY <2>2, <2>5, <3>1
  <2> HIDE DEF new, added, kept
  <2>7. /\ "VERSION" \in DOMAIN UpgradeVarnish(v)
        /\ UpgradeVarnish(v).VERSION = VarnishVersion
        /\ UpgradeVarnish(v)["CACHING_RULES"] = added["CACHING_RULES"]
    BY <1>1, <1>2, <1>3, <2>4 DEF ++
  <2> QED BY <1>1, <1>5, <2>6, <2>7
<1>6. CASE ~ (ver < VarnishVersion)
  <2>1. steps = {}
    BY <1>6 DEF VarnishVersion
  <2>2. names = {}
    BY <2>1
  <2> HIDE DEF new, added, kept
  <2>3. /\ "VERSION" \in DOMAIN UpgradeVarnish(v)
        /\ UpgradeVarnish(v).VERSION = VarnishVersion
        /\ "CACHING_RULES" \in DOMAIN UpgradeVarnish(v) =>
             /\ "CACHING_RULES" \in DOMAIN kept
             /\ UpgradeVarnish(v)["CACHING_RULES"] = kept["CACHING_RULES"]
    BY <1>1, <1>2, <1>3, <2>2 DEF ++
  <2> QED BY <1>4, <2>3
<1> QED BY <1>5, <1>6

\* A dictionary that has all the fields of another hides it.
LEMMA OverFull ==
  ASSUME NEW f, NEW g, IsDict(f), DOMAIN g \subseteq DOMAIN f
  PROVE  f ++ g = f
<1>1. f ++ g = [k \in DOMAIN f |-> f[k]]
  BY DEF ++
<1> QED BY <1>1 DEF IsDict

\* An upgrade without a UI configuration, before it is validated.
Base(w, v, u) ==
  [web |-> [s \in DOMAIN InitialConfig[u].web |->
              MergeDicts(InitialConfig[u].web[s], UpgradeWebserver(w)[s])],
   varnish |-> MergeDicts(InitialConfig[u].varnish, UpgradeVarnish(v))]

\* An upgrade patches the saved UI configuration into the converted variables.
LEMMA UpgradeBase ==
  ASSUME NEW w, NEW v, NEW u, v # None, UpgradeConfig(w, v, u) # None
  PROVE  /\ UpgradeWebserver(w) # None /\ UpgradeVarnish(v) # None
         /\ u = None => UpgradeConfig(w, v, u) = Base(w, v, u)
         /\ u # None =>
              LET p == PatchConfig(Base(w, v, u).web, Base(w, v, u).varnish, u)
              IN  UpgradeConfig(w, v, u) = [web |-> p.web, varnish |-> p.varnish]
BY Zenon DEF UpgradeConfig, Base

\* Unreadable variables of Varnish are not converted.
LEMMA LostVarnish ==
  ASSUME NEW w, NEW u
  PROVE  UpgradeConfig(w, None, u) = None
<1>1. UpgradeVarnish(<<>>) = None
  <2>1. Get(<<>>, "VERSION", 1) = 1 /\ Get(<<>>, "CACHING_RULES", None) = None
    BY DEF Get
  <2>2. StoredRules(<<>>) = None
    BY <2>1 DEF StoredRules
  <2>3. 1 < VarnishVersion
    BY DEF VarnishVersion
  <2> QED BY <2>1, <2>2, <2>3 DEF UpgradeVarnish
<1> QED BY <1>1, Zenon DEF UpgradeConfig

\* The converted variables have every option that a domain starts with.
LEMMA BaseCurrent ==
  ASSUME NEW w, NEW v, NEW u \in Patching \cup {None},
         UpgradeWebserver(w) # None, UpgradeVarnish(v) # None,
         Get(w.bp, "VERSION", 0) \in Nat, Get(v, "VERSION", 1) \in Nat,
         "CACHING_RULES" \in DOMAIN v => AreRules(v.CACHING_RULES),
         Get(v, "VERSION", 1) < VarnishVersion /\ StoredRules(v) # None =>
           AreRules(WithEsi(StoredRules(v)))
  PROVE  CurrentWeb(Base(w, v, u).web) /\ CurrentVarnish(Base(w, v, u).varnish)
<1> DEFINE b == Base(w, v, u)
           i == InitialConfig[u]
           nw == UpgradeWebserver(w)
           nv == UpgradeVarnish(v)
<1>1. /\ nw.bp = UpgradeBp(w.bp) /\ nw.co_profiles = UpgradeProfiles(w.co_profiles)
      /\ "VERSION" \in DOMAIN nw.bp /\ nw.bp.VERSION = BpVersion
  BY ConvertedWeb
<1>2. /\ "VERSION" \in DOMAIN nv /\ nv.VERSION = VarnishVersion
      /\ "CACHING_RULES" \in DOMAIN nv => AreRules(nv.CACHING_RULES)
  BY ConvertedVarnish
<1>3. /\ DOMAIN i.web = {"bp", "co_profiles"} /\ i.web.co_profiles = GenericProfiles
      /\ DOMAIN i.web.bp = DOMAIN InitialConfig[None].web.bp
      /\ DOMAIN i.varnish = VarnishRequired
      /\ \A o \in DOMAIN GenericVarnish : i.varnish[o] = GenericVarnish[o]
  BY InitialOptions
<1>4. /\ DOMAIN b.web = {"bp", "co_profiles"}
      /\ b.web.bp = MergeDicts(i.web.bp, nw.bp)
      /\ b.web.co_profiles = MergeDicts(GenericProfiles, nw.co_profiles)
      /\ b.varnish = MergeDicts(i.varnish, nv)
  BY <1>3 DEF Base
<1> HIDE DEF b, i, nw, nv
<1>5. "VERSION" \notin Objects /\ "CACHING_RULES" \notin Objects
  BY DEF Objects
<1>6. b.web.bp.VERSION = BpVersion /\ b.varnish.VERSION = VarnishVersion
  BY <1>1, <1>2, <1>4, <1>5 DEF MergeDicts
<1>7. AreRules(b.varnish.CACHING_RULES)
  <2>1. CASE "CACHING_RULES" \in DOMAIN nv
    BY <1>2, <1>4, <1>5, <2>1 DEF MergeDicts
  <2>2. CASE "CACHING_RULES" \notin DOMAIN nv
    <3>1. "CACHING_RULES" \in DOMAIN GenericVarnish /\ "CACHING_RULES" \in VarnishRequired
      BY InitialOptions DEF GenericVarnish
    <3>2. GenericVarnish.CACHING_RULES = GenericRules
      BY DEF GenericVarnish
    <3>3. b.varnish.CACHING_RULES = GenericRules
      BY <1>3, <1>4, <2>2, <3>1, <3>2 DEF MergeDicts
    <3> QED BY <3>3, StoredAssumption
  <2> QED BY <2>1, <2>2
<1>8. /\ DOMAIN i.web.bp \subseteq DOMAIN b.web.bp
      /\ DOMAIN GenericProfiles \subseteq DOMAIN b.web.co_profiles
      /\ VarnishRequired \subseteq DOMAIN b.varnish
  BY <1>3, <1>4 DEF MergeDicts
<1> QED BY <1>3, <1>4, <1>6, <1>7, <1>8 DEF CurrentWeb, CurrentVarnish, b

\* The entry of one of several dictionaries that are overlaid.
LEMMA GetOver ==
  ASSUME NEW f, NEW g, NEW k, NEW d
  PROVE  Get(f ++ g, k, d) = Get(f, k, Get(g, k, d))
<1>1. CASE k \in DOMAIN f
  BY <1>1 DEF Get, ++
<1>2. CASE k \notin DOMAIN f /\ k \in DOMAIN g
  BY <1>2 DEF Get, ++
<1>3. CASE k \notin DOMAIN f /\ k \notin DOMAIN g
  BY <1>3 DEF Get, ++
<1> QED BY <1>1, <1>2, <1>3

LEMMA GetOverTwo ==
  ASSUME NEW f, NEW g, NEW h, NEW k, NEW d
  PROVE  Get(f ++ g ++ h, k, d) = Get(f, k, Get(g, k, Get(h, k, d)))
<1>1. Get(f ++ g ++ h, k, d) = Get(f ++ g, k, Get(h, k, d))
  BY GetOver
<1>2. Get(f ++ g, k, Get(h, k, d)) = Get(f, k, Get(g, k, Get(h, k, d)))
  BY GetOver
<1> QED BY <1>1, <1>2

\* The value of an option in a patch: that of the first part which has it.
LEMMA GetWebPatch ==
  ASSUME NEW u, NEW k, NEW d, CmdOpts(u).config_bp
  PROVE  Get(WebPatch(u).bp, k, d) =
           Get(ContentBp(u), k, Get(CacheBp(u), k, Get(SecurityBp(u), k,
             Get(DomainsBp(u), k, Get(OptimizersBp(u), k, Get(MiscBp(u), k,
               Get(SslBp(u), k, d)))))))
<1>1. WebPatch(u).bp = ContentBp(u) ++ CacheBp(u) ++ SecurityBp(u) ++ DomainsBp(u)
                         ++ OptimizersBp(u) ++ MiscBp(u) ++ SslBp(u)
  BY DEF WebPatch
<1> DEFINE a == ContentBp(u) ++ CacheBp(u) ++ SecurityBp(u)
           b == a ++ DomainsBp(u) ++ OptimizersBp(u)
           late == Get(MiscBp(u), k, Get(SslBp(u), k, d))
           mid == Get(DomainsBp(u), k, Get(OptimizersBp(u), k, late))
<1>2. Get(b ++ MiscBp(u) ++ SslBp(u), k, d) = Get(b, k, late)
  BY GetOverTwo
<1>3. Get(b, k, late) = Get(a, k, mid)
  BY GetOverTwo
<1>4. Get(a, k, mid) = Get(ContentBp(u), k, Get(CacheBp(u), k, Get(SecurityBp(u), k, mid)))
  BY GetOverTwo
<1> QED BY <1>1, <1>2, <1>3, <1>4, Zenon

LEMMA GetVarnishPatch ==
  ASSUME NEW u, NEW k, NEW d
  PROVE  Get(VarnishPatch(u), k, d) =
           Get(CacheVarnish(u), k, Get(OptimizersVarnish(u), k, Get(MiscVarnish(u), k, d)))
BY GetOverTwo DEF VarnishPatch

\* The values of the options that are objects, and of the levels.
LEMMA PatchedObjects ==
  ASSUME NEW u \in UIs
  PROVE  /\ "acl" \in DOMAIN WebPatch(u).bp =>
              IsDict(WebPatch(u).bp.acl) /\ DOMAIN OpenAcl \subseteq DOMAIN WebPatch(u).bp.acl
         /\ IsDict(VarnishPatch(u).CUSTOM_VCL)
         /\ DOMAIN NoVcl \subseteq DOMAIN VarnishPatch(u).CUSTOM_VCL
         /\ IsDict(VarnishPatch(u).ORIGIN_HEALTH_PROBE)
<1>1. ASSUME "acl" \in DOMAIN WebPatch(u).bp
      PROVE  IsDict(WebPatch(u).bp.acl) /\ DOMAIN OpenAcl \subseteq DOMAIN WebPatch(u).bp.acl
  <2>1. CmdOpts(u).config_bp
    BY <1>1 DEF WebPatch
  <2>2. Get(ContentBp(u), "acl", Get(CacheBp(u), "acl", SecurityBp(u).acl)) = SecurityBp(u).acl
    BY DEF Get, ContentBp, CacheBp
  <2>3. \A d : Get(SecurityBp(u), "acl", d) = SecurityBp(u).acl
    BY DEF Get, SecurityBp
  <2>4. Get(WebPatch(u).bp, "acl", None) = SecurityBp(u).acl
    BY <2>1, <2>2, <2>3, GetWebPatch
  <2>5. WebPatch(u).bp.acl = Get(u.bp, "acl", OpenAcl)
    BY <1>1, <2>4 DEF Get, SecurityBp
  <2>6. IsDict(OpenAcl)
    BY DEF IsDict, OpenAcl
  <2>7. "acl" \in DOMAIN u.bp => IsDict(u.bp.acl) /\ DOMAIN OpenAcl \subseteq DOMAIN u.bp.acl
    BY UIsAssumption
  <2> QED BY <2>5, <2>6, <2>7 DEF Get
<1>2. /\ Get(CacheVarnish(u), "CUSTOM_VCL", None) = CustomVcl(u)
      /\ \A d : Get(CacheVarnish(u), "CUSTOM_VCL", d) = CustomVcl(u)
      /\ \A d : Get(CacheVarnish(u), "ORIGIN_HEALTH_PROBE", d) =
           IF Probing(u) THEN Get(u.top, "origin_health_probe", [enable |-> FALSE]) ELSE NoProbe
  <2> DEFINE rules == IF "caching_rules" \in DOMAIN u.bp
                      THEN [CACHING_RULES |-> u.bp.caching_rules] ELSE <<>>
  <2>1. PICK r : /\ CacheVarnish(u) = r ++ rules
                 /\ {"CUSTOM_VCL", "ORIGIN_HEALTH_PROBE"} \subseteq DOMAIN r
                 /\ r.CUSTOM_VCL = CustomVcl(u)
                 /\ r.ORIGIN_HEALTH_PROBE =
                      IF Probing(u) THEN Get(u.top, "origin_health_probe", [enable |-> FALSE])
                      ELSE NoProbe
    BY DEF CacheVarnish
  <2> HIDE DEF rules
  <2> QED BY <2>1 DEF ++, Get
<1>3. VarnishPatch(u).CUSTOM_VCL = CustomVcl(u)
  <2>1. Get(VarnishPatch(u), "CUSTOM_VCL", None) = CustomVcl(u)
    BY <1>2, GetVarnishPatch
  <2>2. "CUSTOM_VCL" \in DOMAIN VarnishPatch(u)
    BY DEF VarnishPatch, CacheVarnish, ++
  <2> QED BY <2>1, <2>2 DEF Get
<1>4. VarnishPatch(u).ORIGIN_HEALTH_PROBE =
        IF Probing(u) THEN Get(u.top, "origin_health_probe", [enable |-> FALSE]) ELSE NoProbe
  <2>1. Get(VarnishPatch(u), "ORIGIN_HEALTH_PROBE", None) =
          IF Probing(u) THEN Get(u.top, "origin_health_probe", [enable |-> FALSE]) ELSE NoProbe
    BY <1>2, GetVarnishPatch
  <2>2. "ORIGIN_HEALTH_PROBE" \in DOMAIN VarnishPatch(u)
    BY DEF VarnishPatch, CacheVarnish, ++
  <2> QED BY <2>1, <2>2 DEF Get
<1>5. IsDict(CustomVcl(u)) /\ DOMAIN NoVcl \subseteq DOMAIN CustomVcl(u)
  BY DEF CustomVcl, IsDict, ++
<1>6. IsDict(IF Probing(u) THEN Get(u.top, "origin_health_probe", [enable |-> FALSE])
             ELSE NoProbe)
  <2>1. "origin_health_probe" \in DOMAIN u.top => IsDict(u.top.origin_health_probe)
    BY UIsAssumption
  <2>2. IsDict([enable |-> FALSE]) /\ IsDict(NoProbe)
    BY DEF IsDict, NoProbe
  <2> QED BY <2>1, <2>2 DEF Get
<1> QED BY <1>1, <1>3, <1>4, <1>5, <1>6

LEMMA PatchedLevels ==
  ASSUME NEW u, NEW o \in DOMAIN WebPatch(u).co_profiles
  PROVE  o \in CustomLevels => WebPatch(u).co_profiles[o] # "med"
BY DEF WebPatch, ContentProfiles, CustomLevel, CustomLevels

\* Variables of Varnish in the current version are kept by the conversion.
LEMMA CurrentKept ==
  ASSUME NEW v, NEW nv, UpgradeVarnish(v) = nv, Get(v, "VERSION", 1) = VarnishVersion,
         VarnishRequired \subseteq DOMAIN v
  PROVE  /\ VarnishRequired \ {"VERSION"} \subseteq DOMAIN nv
         /\ \A o \in VarnishRequired \ {"VERSION"} : nv[o] = v[o]
<1> DEFINE ver == Get(v, "VERSION", 1)
           steps == ver..(VarnishVersion - 1)
           Step(o) == CHOOSE n \in steps :
                         /\ o \in DOMAIN VarnishAdds(n, v)
                         /\ \A m \in steps : m > n => o \notin DOMAIN VarnishAdds(m, v)
           names == UNION {DOMAIN VarnishAdds(n, v) : n \in steps}
           added == [o \in names |-> VarnishAdds(Step(o), v)[o]]
           kept == Without(v, VarnishDrops(ver))
           new == [VERSION |-> VarnishVersion]
<1>1. ~ (ver < VarnishVersion) /\ steps = {}
  BY DEF VarnishVersion
<1>2. nv = new ++ added ++ kept
  BY <1>1, Zenon DEF UpgradeVarnish
<1>3. DOMAIN new = {"VERSION"}
  OBVIOUS
<1>4. DOMAIN added = {}
  BY <1>1
<1>5. VarnishRequired \cap VarnishDrops(ver) = {}
  BY InitialOptions DEF VarnishDrops, GenericVarnish, VarnishVersion
<1>6. /\ VarnishRequired \subseteq DOMAIN kept
      /\ \A o \in VarnishRequired : kept[o] = v[o]
  BY <1>5 DEF Without
<1> HIDE DEF new, added, kept
<1> QED BY <1>2, <1>3, <1>4, <1>6 DEF ++

\* What was wanted and stored is still there after the merge with the initial
\* configuration, except in objects that miss a field.
LEMMA MergeKeeps ==
  ASSUME NEW dst, NEW src, NEW patch, Changed(src, patch) = {},
         DOMAIN patch \cap DOMAIN dst \subseteq DOMAIN src,
         \A o \in Objects \cap DOMAIN dst \cap DOMAIN src \cap DOMAIN patch :
            IsDict(src[o]) /\ DOMAIN dst[o] \subseteq DOMAIN src[o]
  PROVE  Changed(MergeDicts(dst, src), patch) = {}
<1>1. \A o \in DOMAIN patch : Get(src, o, None) = patch[o]
  BY DEF Changed
<1>2. SUFFICES ASSUME NEW o \in DOMAIN patch
               PROVE  Get(MergeDicts(dst, src), o, None) = Get(src, o, None)
  BY <1>1, <1>2 DEF Changed
<1>3. DOMAIN MergeDicts(dst, src) = DOMAIN dst \cup DOMAIN src
  BY DEF MergeDicts
<1>4. CASE o \in DOMAIN src
  <2>1. MergeDicts(dst, src)[o] = src[o]
    <3>1. CASE o \in Objects /\ o \in DOMAIN dst
      <4>1. MergeDicts(dst, src)[o] = src[o] ++ dst[o]
        BY <1>4, <3>1 DEF MergeDicts
      <4>2. IsDict(src[o]) /\ DOMAIN dst[o] \subseteq DOMAIN src[o]
        BY <1>4, <3>1
      <4> QED BY <4>1, <4>2, OverFull
    <3>2. CASE ~ (o \in Objects /\ o \in DOMAIN dst)
      BY <1>4, <3>2 DEF MergeDicts
    <3> QED BY <3>1, <3>2
  <2> QED BY <1>3, <1>4, <2>1 DEF Get
<1>5. CASE o \notin DOMAIN src
  BY <1>3, <1>5 DEF Get
<1> QED BY <1>4, <1>5

\* An upgrade without a saved UI configuration takes nothing away from the one
\* in force, of what was stored and validated after it.
LEMMA BaseSettled ==
  ASSUME NEW w, NEW v, NEW u \in Patching, CurrentWeb(w), CurrentVarnish(v),
         Settled(w, v, u), DOMAIN v.ORIGIN_HEALTH_PROBE = DOMAIN NoProbe,
         UpgradeWebserver(w) # None, UpgradeVarnish(v) # None
  PROVE  Settled(Base(w, v, None).web, Base(w, v, None).varnish, u)
<1> DEFINE b == Base(w, v, None)
           i == InitialConfig[None]
           nw == UpgradeWebserver(w)
           nv == UpgradeVarnish(v)
           bp == Wanted[u].web.bp
           co == Wanted[u].web.co_profiles
           va == Wanted[u].varnish
<1>1. PICK x \in UIs : Wanted[u] = [web |-> WebPatch(x), varnish |-> VarnishPatch(x)]
  BY AsPatchedWants DEF Patching, Wanted
<1>2. /\ DOMAIN Wanted[u].web = {"bp", "co_profiles"}
      /\ DOMAIN co \subseteq DOMAIN GenericProfiles \ {"VERSION"}
      /\ DOMAIN bp \subseteq (DOMAIN i.web.bp \ {"VERSION"}) \cup {"IP_ADDRESS_ANONYMIZER"}
      /\ DOMAIN va \subseteq VarnishRequired \ {"VERSION"}
  BY <1>1, WebOptions, VarnishOptions
<1>3. /\ "acl" \in DOMAIN bp => IsDict(bp.acl) /\ DOMAIN OpenAcl \subseteq DOMAIN bp.acl
      /\ IsDict(va.CUSTOM_VCL) /\ DOMAIN NoVcl \subseteq DOMAIN va.CUSTOM_VCL
      /\ IsDict(va.ORIGIN_HEALTH_PROBE)
  BY <1>1, PatchedObjects
<1>4. \A o \in DOMAIN co : o \in CustomLevels => co[o] # "med"
  BY <1>1, PatchedLevels
<1>5. /\ DOMAIN i.web = {"bp", "co_profiles"} /\ i.web.co_profiles = GenericProfiles
      /\ i.web.bp.acl = OpenAcl
      /\ DOMAIN i.varnish = VarnishRequired
      /\ i.varnish.CUSTOM_VCL = NoVcl /\ i.varnish.ORIGIN_HEALTH_PROBE = NoProbe
      /\ "IP_ADDRESS_ANONYMIZER" \notin DOMAIN i.web.bp
      /\ "CUSTOM_VCL" \notin DOMAIN i.web.bp /\ "ORIGIN_HEALTH_PROBE" \notin DOMAIN i.web.bp
      /\ "acl" \notin VarnishRequired
  BY InitialOptions DEF GenericBp, GenericVarnish
<1>6. /\ {"bp", "co_profiles"} \subseteq DOMAIN w /\ w.bp.VERSION = BpVersion
      /\ DOMAIN i.web.bp \subseteq DOMAIN w.bp
      /\ DOMAIN GenericProfiles \subseteq DOMAIN w.co_profiles
      /\ VarnishRequired \subseteq DOMAIN v /\ v.VERSION = VarnishVersion
  BY DEF CurrentWeb, CurrentVarnish
<1>7. /\ Changed(w.bp, bp) = {} /\ Changed(w.co_profiles, co) = {} /\ Changed(v, va) = {}
  BY <1>2, <1>6 DEF Settled, Get
<1>8. /\ DOMAIN b.web = {"bp", "co_profiles"}
      /\ b.web.bp = MergeDicts(i.web.bp, nw.bp)
      /\ b.web.co_profiles = MergeDicts(GenericProfiles, nw.co_profiles)
      /\ b.varnish = MergeDicts(i.varnish, nv)
  BY <1>5 DEF Base
<1>9. /\ "VERSION" \in DOMAIN i.web.bp /\ "VERSION" \in VarnishRequired
      /\ "VERSION" \in DOMAIN GenericProfiles
  BY InitialOptions DEF GenericBp, GenericVarnish, GenericProfiles
<1>10. /\ nw = [bp |-> UpgradeBp(w.bp), co_profiles |-> UpgradeProfiles(w.co_profiles)]
       /\ nw.bp = [w.bp EXCEPT !.VERSION = BpVersion]
  <2>1. Get(w.bp, "VERSION", 0) = BpVersion
    BY <1>6, <1>9 DEF Get
  <2>2. UpgradeBp(w.bp) = [w.bp EXCEPT !.VERSION = BpVersion]
    BY <2>1 DEF UpgradeBp, BpVersion
  <2>3. nw = [bp |-> UpgradeBp(w.bp), co_profiles |-> UpgradeProfiles(w.co_profiles)]
    BY DEF UpgradeWebserver
  <2> QED BY <2>2, <2>3
<1> HIDE DEF b, i, nw, nv, bp, co, va
<1>11. Changed(nw.bp, bp) = {} /\ DOMAIN nw.bp = DOMAIN w.bp
       /\ \A o \in DOMAIN w.bp : o # "VERSION" => nw.bp[o] = w.bp[o]
  BY <1>2, <1>7, <1>9, <1>10 DEF Changed, Get
<1>12. Changed(b.web.bp, bp) = {}
  <2>1. \A o \in Objects \cap DOMAIN i.web.bp \cap DOMAIN bp : o = "acl"
    BY <1>5 DEF Objects
  <2>2. "acl" \in DOMAIN bp => bp.acl = nw.bp.acl \/ "acl" \notin DOMAIN nw.bp
    BY <1>11 DEF Changed, Get
  <2>3. DOMAIN bp \cap DOMAIN i.web.bp \subseteq DOMAIN nw.bp
    BY <1>6, <1>11
  <2> QED BY <1>3, <1>5, <1>8, <1>11, <2>1, <2>2, <2>3, MergeKeeps
<1>13. Changed(b.web.co_profiles, co) = {}
  <2>1. nw.co_profiles = UpgradeProfiles(w.co_profiles)
    BY <1>10
  <2>2. DOMAIN nw.co_profiles = DOMAIN w.co_profiles \cup {"VERSION"}
    BY <2>1 DEF UpgradeProfiles
  <2>3. ASSUME NEW o \in DOMAIN co
        PROVE  Get(nw.co_profiles, o, None) = co[o]
    <3>1. o \in DOMAIN w.co_profiles /\ o # "VERSION" /\ w.co_profiles[o] = co[o]
      BY <1>2, <1>6, <1>7 DEF Changed, Get
    <3>2. ~ (o \in CustomLevels /\ w.co_profiles[o] = "med")
      BY <1>4, <3>1
    <3>3. nw.co_profiles[o] = w.co_profiles[o]
      BY <2>1, <3>1, <3>2 DEF UpgradeProfiles
    <3> QED BY <2>2, <3>1, <3>3 DEF Get
  <2>4. Changed(nw.co_profiles, co) = {}
    BY <2>3 DEF Changed
  <2>5. Objects \cap DOMAIN GenericProfiles = {}
    BY DEF Objects, GenericProfiles
  <2>6. DOMAIN co \cap DOMAIN GenericProfiles \subseteq DOMAIN nw.co_profiles
    BY <1>6, <2>2
  <2> QED BY <1>8, <2>4, <2>5, <2>6, MergeKeeps
<1>14. Changed(b.varnish, va) = {}
  <2>1. /\ VarnishRequired \ {"VERSION"} \subseteq DOMAIN nv
        /\ \A o \in VarnishRequired \ {"VERSION"} : nv[o] = v[o]
    <3>1. Get(v, "VERSION", 1) = VarnishVersion
      BY <1>6, <1>9 DEF Get
    <3>2. UpgradeVarnish(v) = nv
      BY DEF nv
    <3> QED BY <1>6, <1>9, <3>1, <3>2, CurrentKept
  <2>2. \A o \in DOMAIN va : o \in DOMAIN nv /\ nv[o] = va[o]
    BY <1>2, <1>6, <1>7, <2>1 DEF Changed, Get
  <2>3. Changed(nv, va) = {}
    BY <2>2 DEF Changed, Get
  <2>4. \A o \in Objects \cap DOMAIN i.varnish : o = "CUSTOM_VCL" \/ o = "ORIGIN_HEALTH_PROBE"
    BY <1>5 DEF Objects
  <2>5. "ORIGIN_HEALTH_PROBE" \in DOMAIN va =>
          DOMAIN nv.ORIGIN_HEALTH_PROBE = DOMAIN i.varnish.ORIGIN_HEALTH_PROBE
    BY <1>2, <1>5, <2>1
  <2>6. DOMAIN va \cap DOMAIN i.varnish \subseteq DOMAIN nv
    BY <2>2
  <2>7. ASSUME NEW o \in Objects \cap DOMAIN i.varnish \cap DOMAIN nv \cap DOMAIN va
        PROVE  IsDict(nv[o]) /\ DOMAIN i.varnish[o] \subseteq DOMAIN nv[o]
    BY <1>3, <1>5, <2>2, <2>4, <2>5
  <2> QED BY <1>8, <2>3, <2>6, <2>7, MergeKeeps
<1>15. /\ \A s \in DOMAIN b.web : Changed(b.web[s], Get(Wanted[u].web, s, <<>>)) = {}
  BY <1>2, <1>8, <1>12, <1>13 DEF Get, bp, co
<1> QED BY <1>14, <1>15 DEF Settled, b, va

\* A domain that is added starts with every option.
LEMMA InitialCurrent ==
  ASSUME NEW u \in Patching
  PROVE  CurrentWeb(InitialConfig[u].web) /\ CurrentVarnish(InitialConfig[u].varnish)
<1> DEFINE i == InitialConfig[u]
<1>1. /\ DOMAIN i.web = {"bp", "co_profiles"} /\ i.web.co_profiles = GenericProfiles
      /\ DOMAIN i.web.bp = DOMAIN InitialConfig[None].web.bp
      /\ i.web.bp.VERSION = BpVersion
      /\ DOMAIN i.varnish = VarnishRequired
      /\ i.varnish.VERSION = VarnishVersion /\ i.varnish.CACHING_RULES = GenericRules
  BY InitialOptions DEF GenericVarnish
<1> HIDE DEF i
<1>2. CurrentWeb(i.web)
  BY <1>1 DEF CurrentWeb
<1>3. CurrentVarnish(i.varnish)
  BY <1>1, StoredAssumption DEF CurrentVarnish
<1> QED BY <1>2, <1>3 DEF i

-----------------------------------------------------------------------------
(* The invariant                                                           *)

\* What can be said of the variables before a conversion.
LEMMA Convertible ==
  ASSUME SInv, web # None, varnish # None
  PROVE  /\ Get(web.bp, "VERSION", 0) \in Nat /\ Get(varnish, "VERSION", 1) \in Nat
         /\ "CACHING_RULES" \in DOMAIN varnish => AreRules(varnish.CACHING_RULES)
         /\ Get(varnish, "VERSION", 1) < VarnishVersion /\ StoredRules(varnish) # None =>
              AreRules(WithEsi(StoredRules(varnish)))
<1>1. CASE \E s \in Stored : web = s.web /\ varnish \in {s.varnish, None}
  <2>1. PICK s \in Stored : web = s.web /\ varnish = s.varnish
    BY <1>1
  <2> QED BY <2>1, StoredAssumption
<1>2. CASE CurrentWeb(web) /\ CurrentVarnish(varnish)
  <2>1. /\ "VERSION" \in DOMAIN InitialConfig[None].web.bp
        /\ "VERSION" \in VarnishRequired
    BY InitialOptions DEF GenericBp, GenericVarnish
  <2>2. /\ Get(web.bp, "VERSION", 0) = BpVersion
        /\ Get(varnish, "VERSION", 1) = VarnishVersion
        /\ AreRules(varnish.CACHING_RULES)
    BY <1>2, <2>1 DEF CurrentWeb, CurrentVarnish, Get
  <2>3. ~ (Get(varnish, "VERSION", 1) < VarnishVersion)
    BY <2>2 DEF VarnishVersion
  <2> QED BY <2>2, <2>3 DEF BpVersion, VarnishVersion
<1> QED BY <1>1, <1>2 DEF SInv

\* What an upgrade stores is settled for the UI configuration in force.
LEMMA UpgradeResult ==
  ASSUME SInv, web # None, saved \in Patching \cup {None},
         NEW new, new = UpgradeConfig(web, varnish, saved), new # None
  PROVE  /\ CurrentWeb(new.web) /\ CurrentVarnish(new.varnish)
         /\ saved # None => Settled(new.web, new.varnish, saved)
         /\ saved = None /\ applied # None => Settled(new.web, new.varnish, applied)
<1> DEFINE b == Base(web, varnish, saved)
           p == PatchConfig(b.web, b.varnish, saved)
<1>1. varnish # None
  BY LostVarnish
<1>2. /\ UpgradeWebserver(web) # None /\ UpgradeVarnish(varnish) # None
      /\ saved = None => new = b
      /\ saved # None => new = [web |-> p.web, varnish |-> p.varnish]
  BY <1>1, UpgradeBase
<1>3. CurrentWeb(b.web) /\ CurrentVarnish(b.varnish)
  BY <1>1, <1>2, Convertible, BaseCurrent
<1>4. CASE saved # None
  <2>1. new.web = p.web /\ new.varnish = p.varnish /\ saved \in Patching
    BY <1>2, <1>4
  <2>2. CurrentWeb(p.web) /\ CurrentVarnish(p.varnish)
    BY <1>3, <2>1, PatchKeepsCurrent
  <2>3. Settled(p.web, p.varnish, saved)
    BY PatchSettles
  <2> QED BY <1>4, <2>1, <2>2, <2>3
<1>5. CASE saved = None
  <2>1. ASSUME applied # None
        PROVE  Settled(b.web, b.varnish, applied)
    <3>1. /\ applied \in Patching /\ CurrentWeb(web) /\ CurrentVarnish(varnish)
          /\ Settled(web, varnish, applied)
          /\ DOMAIN varnish.ORIGIN_HEALTH_PROBE = DOMAIN NoProbe
      BY <1>1, <1>5, <2>1 DEF SInv
    <3> QED BY <1>2, <1>5, <3>1, BaseSettled
  <2> QED BY <1>2, <1>3, <1>5, <2>1
<1> QED BY <1>4, <1>5

\* The invariant holds at first, and one lemma per action keeps it.
LEMMA SInvInit == Init => SInv
BY DEF Init, SInv, Patching

\* What the end of add_or_update_domain stores.
LEMMA StoresWhat ==
  ASSUME NEW op, NEW new, NEW u, Stores(op, new, u)
  PROVE  /\ web' = new.web /\ varnish' = new.varnish /\ applied' = u
         /\ saved' \in {AsPatched(u), Torn} \/ (saved' = saved /\ Changes(new))
BY Zenon DEF Stores

\* What a run that stores, or one that fails, leaves in the history.
LEMMA StoresLast ==
  ASSUME NEW op, NEW new, NEW u, Stores(op, new, u), last'.result = "applied"
  PROVE  last'.op = op /\ last'.bans = new.bans
<1>1. ASSUME Changes(new), Ended(op, "applied", u, new.bans)
      PROVE  last'.op = op /\ last'.bans = new.bans
  BY <1>1 DEF Ended
<1>2. ASSUME Ended(op, "unchanged", u, {})
      PROVE  FALSE
  BY <1>2 DEF Ended
<1>3. ~ Ended(op, "ban-failed", u, {})
  BY DEF Ended
<1>4. \/ Changes(new) /\ Ended(op, "applied", u, new.bans)
      \/ Ended(op, "unchanged", u, {})
      \/ Ended(op, "ban-failed", u, {})
  BY Zenon DEF Stores
<1> QED BY <1>1, <1>2, <1>3, <1>4, Zenon

LEMMA FailsLast ==
  ASSUME NEW op, NEW result, NEW u, Fails(op, result, u)
  PROVE  last'.op = op /\ last'.result = result
BY DEF Fails, Ended

\* The second patch of a new domain changes nothing, so no ban can fail.
LEMMA AddSInv ==
  ASSUME SInv, NEW u \in UIs, Add(u)
  PROVE  SInv'
<1> DEFINE v == AsPatched(u)
           new == PatchConfig(InitialConfig[u].web, InitialConfig[u].varnish, u)
           again == PatchConfig(new.web, new.varnish, v)
<1>1. /\ u \in Patching /\ v \in Patching /\ None \notin Patching /\ Torn # None
      /\ Wanted[v] = Wanted[u]
  BY UIsAssumption, AsPatchedWants DEF Patching
<1>2. CurrentWeb(new.web) /\ CurrentVarnish(new.varnish)
  BY <1>1, InitialCurrent, PatchKeepsCurrent
<1>3. CurrentWeb(again.web) /\ CurrentVarnish(again.varnish)
  BY <1>1, <1>2, PatchKeepsCurrent
<1>4. Settled(again.web, again.varnish, u)
  <2>1. Settled(again.web, again.varnish, v)
    BY PatchSettles
  <2> QED BY <1>1, <2>1 DEF Settled
<1>5. ~ Changes(again)
  <2>1. Settled(new.web, new.varnish, u)
    BY PatchSettles
  <2> HIDE DEF new
  <2> QED BY <1>1, <2>1 DEF Settled, Changes, PatchConfig
<1>6. (\E op, un : Fails("add", op, un)) \/ Stores("add", again, u)
  BY Zenon DEF Add
<1> HIDE DEF new, again, v
<1>7. ASSUME \E op, un : Fails("add", op, un)
      PROVE  SInv'
  BY <1>7 DEF Fails, SInv
<1>8. ASSUME Stores("add", again, u)
      PROVE  SInv'
  <2>1. web' = again.web /\ varnish' = again.varnish /\ applied' = u /\ saved' \in {v, Torn}
    BY <1>5, <1>8, StoresWhat DEF v
  <2> QED BY <1>1, <1>3, <1>4, <2>1 DEF SInv
<1> QED BY <1>6, <1>7, <1>8

\* The bans of an update can only fail after its results were validated.
LEMMA UpdateSInv ==
  ASSUME SInv, NEW u \in UIs, Update(u)
  PROVE  SInv'
<1> DEFINE v == AsPatched(u)
           new == PatchConfig(web, varnish, u)
<1>1. /\ u \in Patching /\ v \in Patching /\ None \notin Patching /\ Torn # None
  BY UIsAssumption DEF Patching
<1>2. \/ \E op, un : Fails("update", op, un)
      \/ /\ web # None /\ varnish # None /\ web.bp.VERSION = BpVersion
         /\ ~ Changes(new) \/ Valid(new.web, new.varnish)
         /\ Stores("update", new, u)
  BY Zenon DEF Update
<1>3. ASSUME web # None, varnish # None, web.bp.VERSION = BpVersion
      PROVE  CurrentWeb(web) /\ CurrentVarnish(varnish)
  BY <1>3, StoredAssumption DEF SInv
<1>4. Settled(new.web, new.varnish, u)
  BY PatchSettles
<1> HIDE DEF v
<1>5. ASSUME \E op, un : Fails("update", op, un)
      PROVE  SInv'
  BY <1>5 DEF Fails, SInv
<1>6. ASSUME web # None, varnish # None, web.bp.VERSION = BpVersion,
             ~ Changes(new) \/ Valid(new.web, new.varnish),
             Stores("update", new, u)
      PROVE  SInv'
  <2>1. CurrentWeb(new.web) /\ CurrentVarnish(new.varnish)
    BY <1>1, <1>3, <1>6, PatchKeepsCurrent
  <2> HIDE DEF new
  <2>2. web' = new.web /\ varnish' = new.varnish /\ applied' = u
    BY <1>6, StoresWhat
  <2>3. saved' \in {v, Torn} \/ (saved' = saved /\ Changes(new))
    BY <1>6, StoresWhat DEF v
  <2>4. saved' = None => DOMAIN new.varnish.ORIGIN_HEALTH_PROBE = DOMAIN NoProbe
    BY <1>1, <1>6, <2>3 DEF Valid, VarnishValid
  <2>5. saved' \in Patching \cup {None, Torn}
    BY <1>1, <2>3 DEF SInv
  <2> QED BY <1>1, <1>4, <2>1, <2>2, <2>4, <2>5 DEF SInv
<1> QED BY <1>2, <1>5, <1>6

\* An upgrade is validated whole, and saves nothing.
LEMMA UpgradeSInv ==
  ASSUME SInv, Upgrade
  PROVE  SInv'
<1> DEFINE new == UpgradeConfig(web, varnish, saved)
<1>1. \/ \E op, un : Fails("upgrade", op, un)
      \/ /\ web # None /\ saved # Torn /\ new # None /\ Valid(new.web, new.varnish)
         /\ web' = new.web /\ varnish' = new.varnish
         /\ applied' = IF saved = None THEN applied ELSE saved
         /\ saved' = saved
  BY Zenon DEF Upgrade
<1> HIDE DEF new
<1>2. ASSUME \E op, un : Fails("upgrade", op, un)
      PROVE  SInv'
  BY <1>2 DEF Fails, SInv
<1>3. ASSUME web # None, saved # Torn, new # None, Valid(new.web, new.varnish),
             web' = new.web, varnish' = new.varnish,
             applied' = (IF saved = None THEN applied ELSE saved), saved' = saved
      PROVE  SInv'
  <2>1. saved \in Patching \cup {None} /\ applied \in Patching \cup {None}
    BY <1>3 DEF SInv
  <2>2. /\ CurrentWeb(new.web) /\ CurrentVarnish(new.varnish)
        /\ saved # None => Settled(new.web, new.varnish, saved)
        /\ saved = None /\ applied # None => Settled(new.web, new.varnish, applied)
    BY <1>3, <2>1, UpgradeResult DEF new
  <2>3. DOMAIN new.varnish.ORIGIN_HEALTH_PROBE = DOMAIN NoProbe
    BY <1>3 DEF Valid, VarnishValid
  <2>4. applied' # None => Settled(new.web, new.varnish, applied')
    BY <1>3, <2>2
  <2>5. saved' \in Patching \cup {None} /\ applied' \in Patching \cup {None}
    BY <1>3, <2>1
  <2> QED BY <1>3, <2>2, <2>3, <2>4, <2>5 DEF SInv
<1> QED BY <1>1, <1>2, <1>3

LEMMA SInvStep ==
  ASSUME SInv, [Next]_vars
  PROVE  SInv'
<1>1. ASSUME LoseVarnish PROVE SInv'
  BY <1>1 DEF LoseVarnish, SInv
<1>2. ASSUME UNCHANGED vars PROVE SInv'
  BY <1>2 DEF vars, SInv
<1> QED BY <1>1, <1>2, AddSInv, UpdateSInv, UpgradeSInv DEF Next

\* So what is stored stays settled, over all runs.
LEMMA StoredInvariant == Spec => []SInv
BY SInvInit, SInvStep, PTL DEF Spec

-----------------------------------------------------------------------------
(* The properties of the runs                                              *)

\* For any UI configurations and any variables left by older releases: the UI
\* configuration that the stored variables come from changes none of them when
\* it is sent again, and bans no URL.
THEOREM RepeatsAreQuiet == Spec => []RepeatIsQuiet
<1>1. SInv => RepeatIsQuiet
  <2> SUFFICES ASSUME SInv, applied # None, varnish # None
               PROVE  LET p == PatchConfig(web, varnish, applied)
                      IN  ~ p.configChanged /\ ~ p.varnishChanged /\ p.bans = {}
    BY DEF RepeatIsQuiet
  <2>1. /\ applied \in Patching /\ CurrentWeb(web) /\ CurrentVarnish(varnish)
        /\ Settled(web, varnish, applied)
    BY DEF SInv
  <2>2. /\ ~ PatchConfig(web, varnish, applied).configChanged
        /\ ~ PatchConfig(web, varnish, applied).varnishChanged
    BY <2>1 DEF Settled, PatchConfig
  <2>3. ASSUME "caching_rules" \in DOMAIN applied.bp
        PROVE  Get(varnish, "CACHING_RULES", <<>>) = applied.bp.caching_rules
    <3>1. /\ "CACHING_RULES" \in DOMAIN Wanted[applied].varnish
          /\ Wanted[applied].varnish.CACHING_RULES = applied.bp.caching_rules
      BY <2>1, <2>3, VarnishOptions DEF Wanted
    <3>2. "CACHING_RULES" \in DOMAIN varnish
      BY <2>1, InitialOptions DEF CurrentVarnish, GenericVarnish
    <3> QED BY <2>1, <3>1, <3>2 DEF Settled, Changed, Get
  <2>4. \A r : BanUrls(r, r) = {}
    BY DEF BanUrls
  <2>5. PatchConfig(web, varnish, applied).bans = {}
    BY <2>3, <2>4 DEF PatchConfig
  <2> QED BY <2>2, <2>5
<1> QED BY <1>1, StoredInvariant, PTL

\* The bans of every update that succeeds, over all runs: the patterns of the
\* rules that differ between what was stored and what is stored.
THEOREM BansCoverAllRules == Spec => BansCoverRules
<1> DEFINE Covers ==
             last'.op = "update" /\ last'.result = "applied"
               /\ UniqueUrls(varnish.CACHING_RULES) /\ UniqueUrls(varnish'.CACHING_RULES) =>
             last'.bans = RuleChanges(varnish.CACHING_RULES, varnish'.CACHING_RULES)
<1>1. ASSUME SInv, Next PROVE Covers
  <2> SUFFICES ASSUME last'.op = "update", last'.result = "applied",
                      UniqueUrls(varnish.CACHING_RULES), UniqueUrls(varnish'.CACHING_RULES)
               PROVE  last'.bans = RuleChanges(varnish.CACHING_RULES, varnish'.CACHING_RULES)
    OBVIOUS
  <2>1. PICK u \in UIs : Update(u)
    <3>1. ~ Upgrade
      BY DEF Upgrade, Fails, Ended
    <3>2. ~ LoseVarnish
      BY DEF LoseVarnish, Ended
    <3>3. ASSUME NEW u \in UIs, Add(u)
          PROVE  FALSE
      <4>1. \/ \E result : Fails("add", result, u)
            \/ \E again : Stores("add", again, u)
        BY <3>3, Zenon DEF Add
      <4> QED BY <4>1, FailsLast, StoresLast
    <3> QED BY <1>1, <3>1, <3>2, <3>3 DEF Next
  <2> DEFINE new == PatchConfig(web, varnish, u)
  <2>2. /\ web # None /\ varnish # None /\ web.bp.VERSION = BpVersion
        /\ Stores("update", new, u)
    <3>1. \/ /\ web # None /\ varnish # None /\ web.bp.VERSION = BpVersion
             /\ Stores("update", new, u)
          \/ Fails("update", "refused", u)
          \/ Fails("update", "raised", u)
          \/ Fails("update", "rejected", u)
      BY <2>1, Zenon DEF Update
    <3>2. "refused" # "applied" /\ "raised" # "applied" /\ "rejected" # "applied"
      OBVIOUS
    <3>3. /\ ~ Fails("update", "refused", u)
          /\ ~ Fails("update", "raised", u)
          /\ ~ Fails("update", "rejected", u)
      BY <3>2, FailsLast
    <3> QED BY <3>1, <3>3, Zenon
  <2>3. CurrentWeb(web) /\ CurrentVarnish(varnish)
    BY <1>1, <2>2, StoredAssumption DEF SInv
  <2>4. u \in Patching
    BY DEF Patching
  <2>5. last'.bans = new.bans /\ varnish' = new.varnish
    BY <2>2, StoresLast, StoresWhat
  <2>6. /\ new.varnish.CACHING_RULES =
             IF "caching_rules" \in DOMAIN u.bp THEN u.bp.caching_rules
             ELSE varnish.CACHING_RULES
        /\ CurrentVarnish(new.varnish)
    BY <2>3, <2>4, PatchKeepsCurrent
  <2>7. new.bans = IF "caching_rules" \in DOMAIN u.bp
                   THEN BanUrls(Get(varnish, "CACHING_RULES", <<>>), u.bp.caching_rules)
                   ELSE {}
    BY DEF PatchConfig
  <2>8. Get(varnish, "CACHING_RULES", <<>>) = varnish.CACHING_RULES
    BY <2>3, InitialOptions DEF CurrentVarnish, GenericVarnish, Get
  <2> HIDE DEF new
  <2> DEFINE old == varnish.CACHING_RULES
             now == varnish'.CACHING_RULES
             S == {old[i] : i \in DOMAIN old} \cup {now[i] : i \in DOMAIN now}
  <2>9. AreRules(old) /\ AreRules(now)
    BY <2>3, <2>5, <2>6 DEF CurrentVarnish
  <2>10. new.bans = BanUrls(old, now)
    <3>1. BanUrls(old, old) = {}
      BY DEF BanUrls
    <3> QED BY <2>5, <2>6, <2>7, <2>8, <3>1
  <2>11. /\ old \in Seq(S) /\ now \in Seq(S)
         /\ \A r \in S : r.body # None
    BY <2>9 DEF AreRules
  <2> HIDE DEF old, now, S
  <2>12. UniqueUrls(old) /\ UniqueUrls(now)
    BY DEF old, now
  <2>13. BanUrls(old, now) = RuleChanges(old, now)
    BY <2>11, <2>12, BansAreChanges
  <2> QED BY <2>5, <2>10, <2>13 DEF old, now
<1>2. SInv /\ [Next]_vars => [Covers]_vars
  BY <1>1
<1>3. Spec => [][Covers]_vars
  BY <1>2, StoredInvariant, PTL DEF Spec
<1> QED BY <1>3 DEF BansCoverRules

\* The entries of dictionaries that are overlaid.
Holds(f, o, x) == o \in DOMAIN f /\ f[o] = x

Lacks(f, o) == o \notin DOMAIN f

LEMMA HoldsOver ==
  ASSUME NEW f, NEW g, NEW o, NEW x, Holds(f, o, x)
  PROVE  Holds(f ++ g, o, x)
BY DEF Holds, ++

LEMMA HoldsUnder ==
  ASSUME NEW f, NEW g, NEW o, NEW x, Lacks(f, o), Holds(g, o, x)
  PROVE  Holds(f ++ g, o, x)
BY DEF Holds, Lacks, ++

LEMMA LacksOver ==
  ASSUME NEW f, NEW g, NEW o, Lacks(f, o), Lacks(g, o)
  PROVE  Lacks(f ++ g, o)
BY DEF Lacks, ++

\* The first of the parts of a patch that has an option decides.
LEMMA WebPatchHolds ==
  ASSUME NEW u, CmdOpts(u).config_bp, NEW o, NEW x,
         Lacks(ContentBp(u), o), Lacks(SecurityBp(u), o), Lacks(DomainsBp(u), o),
         \/ Holds(CacheBp(u), o, x)
         \/ Lacks(CacheBp(u), o) /\ Holds(OptimizersBp(u), o, x)
         \/ Lacks(CacheBp(u), o) /\ Lacks(OptimizersBp(u), o) /\ Holds(MiscBp(u), o, x)
  PROVE  Holds(WebPatch(u).bp, o, x)
<1> DEFINE a == ContentBp(u) ++ CacheBp(u)
           b == a ++ SecurityBp(u)
           c == b ++ DomainsBp(u)
           d == c ++ OptimizersBp(u)
           e == d ++ MiscBp(u)
<1>1. WebPatch(u).bp = e ++ SslBp(u)
  BY DEF WebPatch
<1>2. CASE Holds(CacheBp(u), o, x)
  <2>1. Holds(a, o, x)
    BY <1>2, HoldsUnder
  <2>2. Holds(b, o, x)
    BY <2>1, HoldsOver
  <2>3. Holds(c, o, x)
    BY <2>2, HoldsOver
  <2>4. Holds(d, o, x)
    BY <2>3, HoldsOver
  <2>5. Holds(e, o, x)
    BY <2>4, HoldsOver
  <2> QED BY <1>1, <2>5, HoldsOver
<1>3. CASE Lacks(CacheBp(u), o)
  <2>1. Lacks(a, o)
    BY <1>3, LacksOver
  <2>2. Lacks(b, o)
    BY <2>1, LacksOver
  <2>3. Lacks(c, o)
    BY <2>2, LacksOver
  <2>4. CASE Holds(OptimizersBp(u), o, x)
    <3>1. Holds(d, o, x)
      BY <2>3, <2>4, HoldsUnder
    <3>2. Holds(e, o, x)
      BY <3>1, HoldsOver
    <3> QED BY <1>1, <3>2, HoldsOver
  <2>5. CASE Lacks(OptimizersBp(u), o) /\ Holds(MiscBp(u), o, x)
    <3>1. Lacks(d, o)
      BY <2>3, <2>5, LacksOver
    <3>2. Holds(e, o, x)
      BY <2>5, <3>1, HoldsUnder
    <3> QED BY <1>1, <3>2, HoldsOver
  <2>6. ~ Holds(CacheBp(u), o, x)
    BY <1>3 DEF Holds, Lacks
  <2> QED BY <2>4, <2>5, <2>6
<1> QED BY <1>2, <1>3

LEMMA VarnishPatchHolds ==
  ASSUME NEW u, NEW o, NEW x,
         \/ Holds(CacheVarnish(u), o, x)
         \/ Lacks(CacheVarnish(u), o) /\ Holds(OptimizersVarnish(u), o, x)
         \/ Lacks(CacheVarnish(u), o) /\ Lacks(OptimizersVarnish(u), o)
              /\ Holds(MiscVarnish(u), o, x)
  PROVE  Holds(VarnishPatch(u), o, x)
<1> DEFINE a == CacheVarnish(u) ++ OptimizersVarnish(u)
<1>1. VarnishPatch(u) = a ++ MiscVarnish(u)
  BY DEF VarnishPatch
<1>2. CASE Holds(a, o, x)
  BY <1>1, <1>2, HoldsOver
<1>3. CASE Lacks(a, o) /\ Holds(MiscVarnish(u), o, x)
  BY <1>1, <1>3, HoldsUnder
<1>4. Holds(a, o, x) \/ (Lacks(a, o) /\ Holds(MiscVarnish(u), o, x))
  BY HoldsOver, HoldsUnder, LacksOver
<1> QED BY <1>2, <1>3, <1>4

\* The values of the options that both servers have, in the two patches.
LEMMA SharedInWeb ==
  ASSUME NEW u, CmdOpts(u).config_bp
  PROVE  /\ Holds(WebPatch(u).bp, "ENABLE_VARNISH", u.bp.enable_cache)
         /\ Holds(WebPatch(u).bp, "ENABLE_VARNISH_GEOIP_HEADERS", GeoIpHeaders(u))
         /\ Holds(WebPatch(u).bp, "DEBUG_MODE", CmdOpts(u).debug)
         /\ Holds(WebPatch(u).bp, "BYPASS_CO_LOCATIONS", Get(u.bp, "co_bypass_locations", {}))
         /\ ContentOptimizers(u) # {} =>
              /\ Holds(WebPatch(u).bp, "CONTENT_OPTIMIZERS_HTTP",
                       UrlsOf(CmdOpts(u).http, HttpScheme(u), ContentOptimizers(u)))
              /\ Holds(WebPatch(u).bp, "CONTENT_OPTIMIZERS_HTTPS",
                       UrlsOf(CmdOpts(u).https, HttpsScheme(u), ContentOptimizers(u)))
<1> DEFINE Shared == {"ENABLE_VARNISH", "ENABLE_VARNISH_GEOIP_HEADERS", "DEBUG_MODE",
                      "BYPASS_CO_LOCATIONS", "CONTENT_OPTIMIZERS_HTTP",
                      "CONTENT_OPTIMIZERS_HTTPS"}
<1>1. \A o \in Shared : /\ Lacks(ContentBp(u), o) /\ Lacks(SecurityBp(u), o)
                        /\ Lacks(DomainsBp(u), o)
  BY DEF Lacks, ContentBp, SecurityBp, DomainsBp
<1>2. /\ Holds(CacheBp(u), "ENABLE_VARNISH", u.bp.enable_cache)
      /\ Holds(CacheBp(u), "ENABLE_VARNISH_GEOIP_HEADERS", GeoIpHeaders(u))
      /\ Lacks(CacheBp(u), "DEBUG_MODE") /\ Lacks(CacheBp(u), "BYPASS_CO_LOCATIONS")
      /\ Lacks(CacheBp(u), "CONTENT_OPTIMIZERS_HTTP")
      /\ Lacks(CacheBp(u), "CONTENT_OPTIMIZERS_HTTPS")
  BY DEF Holds, Lacks, CacheBp
<1>3. /\ Lacks(OptimizersBp(u), "DEBUG_MODE") /\ Lacks(OptimizersBp(u), "BYPASS_CO_LOCATIONS")
      /\ ContentOptimizers(u) # {} =>
           /\ Holds(OptimizersBp(u), "CONTENT_OPTIMIZERS_HTTP",
                    UrlsOf(CmdOpts(u).http, HttpScheme(u), ContentOptimizers(u)))
           /\ Holds(OptimizersBp(u), "CONTENT_OPTIMIZERS_HTTPS",
                    UrlsOf(CmdOpts(u).https, HttpsScheme(u), ContentOptimizers(u)))
  BY DEF Holds, Lacks, OptimizersBp
<1>4. /\ Holds(MiscBp(u), "DEBUG_MODE", CmdOpts(u).debug)
      /\ Holds(MiscBp(u), "BYPASS_CO_LOCATIONS", Get(u.bp, "co_bypass_locations", {}))
  <2>1. MiscBp(u).DEBUG_MODE = CmdOpts(u).debug
    BY Zenon DEF MiscBp
  <2>2. MiscBp(u).BYPASS_CO_LOCATIONS = Get(u.bp, "co_bypass_locations", {})
    BY Zenon DEF MiscBp
  <2>3. {"DEBUG_MODE", "BYPASS_CO_LOCATIONS"} \subseteq DOMAIN MiscBp(u)
    BY DEF MiscBp
  <2> QED BY <2>1, <2>2, <2>3 DEF Holds
<1> QED BY <1>1, <1>2, <1>3, <1>4, WebPatchHolds

LEMMA SharedInVarnish ==
  ASSUME NEW u
  PROVE  /\ Holds(VarnishPatch(u), "ENABLE_CACHE", u.bp.enable_cache)
         /\ Holds(VarnishPatch(u), "ENABLE_GEOIP_HEADERS", GeoIpHeaders(u))
         /\ Holds(VarnishPatch(u), "DEBUG_MODE", CmdOpts(u).debug)
         /\ Holds(VarnishPatch(u), "BYPASS_CO_LOCATIONS", Get(u.bp, "co_bypass_locations", {}))
         /\ ContentOptimizers(u) # {} =>
              /\ Holds(VarnishPatch(u), "CONTENT_OPTIMIZERS_HTTP",
                       IF CmdOpts(u).http THEN ContentOptimizers(u) ELSE {})
              /\ Holds(VarnishPatch(u), "CONTENT_OPTIMIZERS_HTTPS",
                       IF CmdOpts(u).https THEN ContentOptimizers(u) ELSE {})
<1>1. /\ Holds(CacheVarnish(u), "ENABLE_CACHE", u.bp.enable_cache)
      /\ Holds(CacheVarnish(u), "ENABLE_GEOIP_HEADERS", GeoIpHeaders(u))
  <2> DEFINE rules == IF "caching_rules" \in DOMAIN u.bp
                      THEN [CACHING_RULES |-> u.bp.caching_rules] ELSE <<>>
  <2>1. \E r : CacheVarnish(u) = r ++ rules /\ Holds(r, "ENABLE_CACHE", u.bp.enable_cache)
    BY DEF CacheVarnish, Holds
  <2>2. \E r : /\ CacheVarnish(u) = r ++ rules
               /\ Holds(r, "ENABLE_GEOIP_HEADERS", GeoIpHeaders(u))
    BY DEF CacheVarnish, Holds
  <2> HIDE DEF rules
  <2> QED BY <2>1, <2>2, HoldsOver
<1>2. /\ Lacks(CacheVarnish(u), "DEBUG_MODE") /\ Lacks(CacheVarnish(u), "BYPASS_CO_LOCATIONS")
      /\ Lacks(CacheVarnish(u), "CONTENT_OPTIMIZERS_HTTP")
      /\ Lacks(CacheVarnish(u), "CONTENT_OPTIMIZERS_HTTPS")
  BY DEF CacheVarnish, Lacks, ++
<1>3. /\ Lacks(OptimizersVarnish(u), "DEBUG_MODE")
      /\ Lacks(OptimizersVarnish(u), "BYPASS_CO_LOCATIONS")
      /\ ContentOptimizers(u) # {} =>
           /\ Holds(OptimizersVarnish(u), "CONTENT_OPTIMIZERS_HTTP",
                    IF CmdOpts(u).http THEN ContentOptimizers(u) ELSE {})
           /\ Holds(OptimizersVarnish(u), "CONTENT_OPTIMIZERS_HTTPS",
                    IF CmdOpts(u).https THEN ContentOptimizers(u) ELSE {})
  BY DEF Holds, Lacks, OptimizersVarnish
<1>4. /\ Holds(MiscVarnish(u), "DEBUG_MODE", CmdOpts(u).debug)
      /\ Holds(MiscVarnish(u), "BYPASS_CO_LOCATIONS", Get(u.bp, "co_bypass_locations", {}))
  BY DEF Holds, MiscVarnish
<1> QED BY <1>1, <1>2, <1>3, <1>4, VarnishPatchHolds

\* What was wanted is what is stored.
LEMMA HeldIsStored ==
  ASSUME NEW stored, NEW patch, NEW o \in DOMAIN stored, NEW x,
         Changed(stored, patch) = {}, Holds(patch, o, x)
  PROVE  stored[o] = x
BY DEF Changed, Holds, Get

\* The hosts of the URLs that are made of host names.
LEMMA HostsOfUrls ==
  ASSUME NEW enabled, NEW scheme, NEW hosts
  PROVE  {e[2] : e \in UrlsOf(enabled, scheme, hosts)} = IF enabled THEN hosts ELSE {}
<1>1. CASE enabled
  <2>1. UrlsOf(enabled, scheme, hosts) = {<<scheme, h>> : h \in hosts}
    BY <1>1 DEF UrlsOf
  <2>2. \A h : <<scheme, h>>[2] = h
    OBVIOUS
  <2>3. \A h \in hosts : h \in {e[2] : e \in {<<scheme, g>> : g \in hosts}}
    <3> TAKE h \in hosts
    <3>1. <<scheme, h>> \in {<<scheme, g>> : g \in hosts}
      OBVIOUS
    <3>2. <<scheme, h>>[2] = h
      BY <2>2
    <3> HIDE <2>2
    <3> QED BY <3>1, <3>2, Zenon
  <2>4. \A e \in {<<scheme, g>> : g \in hosts} : e[2] \in hosts
    BY <2>2
  <2> QED BY <1>1, <2>1, <2>3, <2>4
<1>2. CASE ~ enabled
  BY <1>2 DEF UrlsOf
<1> QED BY <1>1, <1>2

\* Whatever was stored and whatever was sent before: caching, GeoIP headers,
\* debugging, bypassed locations and the optimizers are the same in the
\* variables of Nginx and of Varnish, whose patches are computed apart.
THEOREM ServersAlwaysAgree == Spec => []ServersAgree
<1>1. SInv => ServersAgree
  <2> SUFFICES ASSUME SInv, applied # None, varnish # None, CmdOpts(applied).config_bp
               PROVE  LET bp == web.bp
                          Hosts(urls) == {e[2] : e \in urls}
                      IN  /\ bp.ENABLE_VARNISH = varnish.ENABLE_CACHE
                          /\ bp.ENABLE_VARNISH_GEOIP_HEADERS = varnish.ENABLE_GEOIP_HEADERS
                          /\ bp.DEBUG_MODE = varnish.DEBUG_MODE
                          /\ bp.BYPASS_CO_LOCATIONS = varnish.BYPASS_CO_LOCATIONS
                          /\ ContentOptimizers(applied) # {} =>
                               /\ Hosts(bp.CONTENT_OPTIMIZERS_HTTP)
                                    = varnish.CONTENT_OPTIMIZERS_HTTP
                               /\ Hosts(bp.CONTENT_OPTIMIZERS_HTTPS)
                                    = varnish.CONTENT_OPTIMIZERS_HTTPS
    BY DEF ServersAgree
  <2> DEFINE wp == WebPatch(applied).bp
             vp == VarnishPatch(applied)
             Shared == {"DEBUG_MODE", "BYPASS_CO_LOCATIONS", "CONTENT_OPTIMIZERS_HTTP",
                        "CONTENT_OPTIMIZERS_HTTPS"}
  <2>1. /\ applied \in Patching /\ CurrentWeb(web) /\ CurrentVarnish(varnish)
        /\ Settled(web, varnish, applied)
    BY DEF SInv
  <2>2. /\ Wanted[applied].web.bp = wp /\ Wanted[applied].varnish = vp
        /\ DOMAIN Wanted[applied].web = {"bp", "co_profiles"}
    BY <2>1, WebOptions DEF Wanted
  <2>3. Changed(web.bp, wp) = {} /\ Changed(varnish, vp) = {}
    BY <2>1, <2>2 DEF Settled, CurrentWeb, Get
  <2>4. /\ Shared \cup {"ENABLE_VARNISH", "ENABLE_VARNISH_GEOIP_HEADERS"} \subseteq DOMAIN web.bp
        /\ Shared \cup {"ENABLE_CACHE", "ENABLE_GEOIP_HEADERS"} \subseteq DOMAIN varnish
    BY <2>1, InitialOptions DEF CurrentWeb, CurrentVarnish, GenericBp, GenericVarnish
  <2>5. /\ web.bp.ENABLE_VARNISH = applied.bp.enable_cache
        /\ web.bp.ENABLE_VARNISH_GEOIP_HEADERS = GeoIpHeaders(applied)
        /\ web.bp.DEBUG_MODE = CmdOpts(applied).debug
        /\ web.bp.BYPASS_CO_LOCATIONS = Get(applied.bp, "co_bypass_locations", {})
    <3>1. /\ Holds(wp, "ENABLE_VARNISH", applied.bp.enable_cache)
          /\ Holds(wp, "ENABLE_VARNISH_GEOIP_HEADERS", GeoIpHeaders(applied))
          /\ Holds(wp, "DEBUG_MODE", CmdOpts(applied).debug)
          /\ Holds(wp, "BYPASS_CO_LOCATIONS", Get(applied.bp, "co_bypass_locations", {}))
      BY SharedInWeb
    <3> HIDE DEF wp
    <3> QED BY <2>3, <2>4, <3>1, HeldIsStored
  <2>6. /\ varnish.ENABLE_CACHE = applied.bp.enable_cache
        /\ varnish.ENABLE_GEOIP_HEADERS = GeoIpHeaders(applied)
        /\ varnish.DEBUG_MODE = CmdOpts(applied).debug
        /\ varnish.BYPASS_CO_LOCATIONS = Get(applied.bp, "co_bypass_locations", {})
    BY <2>3, <2>4, SharedInVarnish, HeldIsStored
  <2>7. ASSUME ContentOptimizers(applied) # {}
        PROVE  /\ {e[2] : e \in web.bp.CONTENT_OPTIMIZERS_HTTP}
                    = varnish.CONTENT_OPTIMIZERS_HTTP
               /\ {e[2] : e \in web.bp.CONTENT_OPTIMIZERS_HTTPS}
                    = varnish.CONTENT_OPTIMIZERS_HTTPS
    <3> DEFINE cos == ContentOptimizers(applied)
               opts == CmdOpts(applied)
    <3>0. /\ Holds(wp, "CONTENT_OPTIMIZERS_HTTP", UrlsOf(opts.http, HttpScheme(applied), cos))
          /\ Holds(wp, "CONTENT_OPTIMIZERS_HTTPS", UrlsOf(opts.https, HttpsScheme(applied), cos))
          /\ Holds(vp, "CONTENT_OPTIMIZERS_HTTP", IF opts.http THEN cos ELSE {})
          /\ Holds(vp, "CONTENT_OPTIMIZERS_HTTPS", IF opts.https THEN cos ELSE {})
      BY <2>7, SharedInWeb, SharedInVarnish
    <3> HIDE DEF wp, vp, cos, opts
    <3>1. /\ web.bp.CONTENT_OPTIMIZERS_HTTP = UrlsOf(opts.http, HttpScheme(applied), cos)
          /\ web.bp.CONTENT_OPTIMIZERS_HTTPS = UrlsOf(opts.https, HttpsScheme(applied), cos)
      BY <2>3, <2>4, <3>0, HeldIsStored
    <3>2. /\ varnish.CONTENT_OPTIMIZERS_HTTP = IF opts.http THEN cos ELSE {}
          /\ varnish.CONTENT_OPTIMIZERS_HTTPS = IF opts.https THEN cos ELSE {}
      BY <2>3, <2>4, <3>0, HeldIsStored
    <3>3. /\ {e[2] : e \in UrlsOf(opts.http, HttpScheme(applied), cos)} =
               IF opts.http THEN cos ELSE {}
          /\ {e[2] : e \in UrlsOf(opts.https, HttpsScheme(applied), cos)} =
               IF opts.https THEN cos ELSE {}
      BY HostsOfUrls
    <3> QED BY <3>1, <3>2, <3>3, Zenon
  <2> QED BY <2>5, <2>6, <2>7
<1> QED BY <1>1, StoredInvariant, PTL
=============================================================================
