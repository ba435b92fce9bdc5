----------------------------- MODULE CookieEngine -----------------------------
(***************************************************************************)
(* The redirect chain and the cookie engine of the navigation core         *)
(* (NavigationController in browser-core, with the decision of             *)
(* browser-privacy, the single hop of browser-network and the persisted    *)
(* policies of browser-storage).                                           *)
(*                                                                         *)
(* A load drives a chain of hops.  Each hop sends the cookies the jar      *)
(* holds for its site and offers cookies back; each offer is classified    *)
(* against the host the user navigated to, decided under the policy in     *)
(* force, and stored or refused before the next hop.  Between loads the    *)
(* user changes policies, which also prune the jar and are written to a    *)
(* store that may fail.  The controller is inside the load task while a    *)
(* chain runs, so policies never change under a chain.                     *)
(*                                                                         *)
(* A host is its registrable domain (a site), NoSite if it has none: a     *)
(* public suffix, an address, localhost.  A cookie's value is abstracted   *)
(* to how it came about.  The jar holds a cookie per site and per name and *)
(* path.  Cookies carry no expiry instant, so remove_expired drops none.   *)
(***************************************************************************)
EXTENDS Naturals

CONSTANTS
  Sites,             \* registrable domains
  NoSite,            \* a host without a registrable domain
  Names,             \* (name, path) pairs of cookies
  None,              \* Rust's Option::None
  Declared,          \* hosts that servers name in a Domain attribute
  DefaultPolicies,   \* policies the user picks for a scope in the settings panel
  FirstPartyWord,    \* [cookies] first_party of config.toml
  ThirdPartyWord,    \* [cookies] third_party of config.toml
  AnyCase,           \* whether users type sites in other than lower case
  StoreFails,        \* whether the database can fail to open, to read or to write
  MaxRedirectCount,  \* MAX_REDIRECT_COUNT, 10 in the code
  MaxLines,          \* bound: Set-Cookie lines offered in one chain
  MaxLoads,          \* bound: loads
  MaxSessions        \* bound: process starts

Policies == {"Allow", "Session", "Ask", "Reject"}
Scopes == {"FirstParty", "ThirdParty"}
Keys == Sites \cup Scopes
Hosts == Sites \cup {NoSite}
Schemes == {"http", "https", "file"}

ASSUME SitesAssumption ==
  /\ Sites \cap Scopes = {}
  /\ NoSite \notin Sites
  /\ None \notin Nat \cup Policies
ASSUME DeclaredAssumption == Declared \subseteq Hosts
ASSUME PolicyAssumption ==
  /\ DefaultPolicies \subseteq Policies
  /\ FirstPartyWord \in Policies /\ ThirdPartyWord \in Policies
ASSUME SwitchAssumption == AnyCase \in BOOLEAN /\ StoreFails \in BOOLEAN
ASSUME CountAssumption ==
  MaxRedirectCount \in Nat /\ MaxLines \in Nat /\ MaxLoads \in Nat /\ MaxSessions \in Nat

VARIABLES
  live,       \* default_cookie_policy by scope, and site_exceptions by site
  jar,        \* CookieJar.by_domain
  listed,     \* the sites with an accepted CookieRecord; refusals are left out
  store,      \* the database that is wired: "disk", "memory" or "none"
  unread,     \* the scopes whose row this start could not read
  saved,      \* the rows of the database on disk, None for a missing one
  confirmed,  \* the policy the user was last told is set with the database on disk,
              \* None for nothing or a failure
  chain,      \* the load in flight (run_hops), None between loads
  sent,       \* what the last request of the chain carried
  loads,      \* how many loads were started
  page,       \* the load that produced current_page
  session     \* how many times the process was started

policy == <<live, store, unread, saved, confirmed, session>>
vars == <<live, jar, listed, store, unread, saved, confirmed, chain, sent, loads, page,
          session>>

\* What a stored cookie remembers here: which site's response set it, whether it is
\* Secure, whether it came over https, and the party its setter was in that chain.
Cookie == [setter: Hosts, secure: BOOLEAN, encrypted: BOOLEAN, party: Scopes]

Chain == [top: Hosts, host: Hosts, scheme: Schemes, body: BOOLEAN, hops: 0..MaxRedirectCount,
          phase: {"Request", "Redirect", "Final"}, lines: 0..MaxLines]

Request == [host: Hosts, scheme: Schemes, body: BOOLEAN, hops: 0..MaxRedirectCount,
            cookies: SUBSET Cookie]

ASSUME ChainAssumption == None \notin Chain

EmptyJar == [s \in Sites |-> [n \in Names |-> None]]

HoldsNothing(s) == jar[s] = [n \in Names |-> None]

TypeOK ==
  /\ live \in [Keys -> Policies \cup {None}]
  /\ \A scope \in Scopes : live[scope] # None
  /\ jar \in [Sites -> [Names -> Cookie \cup {None}]]
  /\ listed \subseteq Hosts
  /\ store \in {"disk", "memory", "none"}
  /\ unread \subseteq Scopes
  /\ saved \in [Keys -> Policies \cup {None}]
  /\ confirmed \in [Keys -> Policies \cup {None}]
  /\ chain \in Chain \cup {None}
  /\ sent \in Request \cup {None}
  /\ loads \in 0..MaxLoads
  /\ page \in 0..MaxLoads \cup {None}
  /\ session \in 1..MaxSessions \cup {1}

-----------------------------------------------------------------------------
(* Startup (build_terminal_controller).                                    *)

ConfigWord == [FirstParty |-> FirstPartyWord, ThirdParty |-> ThirdPartyWord]

\* A scope falls back to config.toml, a site to having no exception.
ResolvedPolicies(rows) ==
  [k \in Keys |->
     IF rows[k] # None THEN rows[k]
     ELSE IF k \in Scopes THEN ConfigWord[k] ELSE None]

NoRows == [k \in Keys |-> None]

\* open_config_and_site_policies.  On disk, with every exception read and each row of a
\* scope read or taken as absent; without a path for the file, in memory until the process
\* ends; and not at all when a database does not open or its exceptions cannot be read.
OpenStore(rows) ==
  \/ /\ store' = "disk"
     /\ unread' \in (IF StoreFails THEN SUBSET Scopes ELSE {{}})
     /\ live' = ResolvedPolicies([k \in Keys |-> IF k \in unread' THEN None ELSE rows[k]])
  \/ /\ StoreFails
     /\ store' \in {"memory", "none"} /\ unread' = {}
     /\ live' = ResolvedPolicies(NoRows)

Init ==
  /\ jar = EmptyJar /\ listed = {}
  /\ saved = NoRows /\ confirmed = NoRows
  /\ chain = None /\ sent = None
  /\ loads = 0 /\ page = None /\ session = 1
  /\ store \in (IF StoreFails THEN {"disk", "memory", "none"} ELSE {"disk"})
  /\ unread = {}
  /\ live = ResolvedPolicies(NoRows)

\* The process ends, at any point, and is started again.
Restart ==
  /\ session < MaxSessions
  /\ session' = session + 1
  /\ OpenStore(saved)
  /\ jar' = EmptyJar /\ listed' = {}
  /\ chain' = None /\ sent' = None /\ page' = None
  /\ UNCHANGED <<saved, confirmed, loads>>

-----------------------------------------------------------------------------
(* One chain of hops (run_hops).                                           *)

\* load_with_progress, or submit_with_progress with the fields of a form as body.
StartLoad ==
  /\ chain = None
  /\ loads < MaxLoads
  /\ loads' = loads + 1
  /\ \E host \in Hosts, scheme \in Schemes, body \in BOOLEAN :
       /\ scheme = "file" => host = NoSite
       /\ chain' = [top |-> host, host |-> host, scheme |-> scheme, body |-> body,
                    hops |-> 0, phase |-> "Request", lines |-> 0]
  /\ UNCHANGED <<policy, jar, listed, sent, page>>

\* Mutant: the cookies of the site asked for go along to every hop.
CookieHeaderOfTop(host, scheme) ==
  IF chain.top \in Sites
  THEN {c \in {jar[chain.top][n] : n \in Names} \ {None} : c.secure => scheme = "https"}
  ELSE {}

\* Mutant: Secure cookies go out over http, too.
CookieHeaderInClear(host, scheme) ==
  IF host \in Sites THEN {jar[host][n] : n \in Names} \ {None} ELSE {}

\* cookie_header_for: the cookies of the request's site, Secure ones over https only.
CookieHeader(host, scheme) ==
  IF host \in Sites
  THEN {c \in {jar[host][n] : n \in Names} \ {None} : c.secure => scheme = "https"}
  ELSE {}

SendRequest ==
  sent' = [host |-> chain.host, scheme |-> chain.scheme, body |-> chain.body,
           hops |-> chain.hops, cookies |-> CookieHeader(chain.host, chain.scheme)]

Running == chain # None

EndChain == chain' = None /\ sent' = None

\* fetch_hop answers: a redirect, or a document.  A local file never redirects, and a
\* form is never submitted to one.
HopAnswers ==
  /\ Running /\ chain.phase = "Request"
  /\ chain.scheme = "file" => ~chain.body
  /\ SendRequest
  /\ \E answer \in IF chain.scheme = "file" THEN {"Final"} ELSE {"Redirect", "Final"} :
       chain' = [chain EXCEPT !.phase = answer]
  /\ UNCHANGED <<policy, jar, listed, loads, page>>

\* A timeout, a refused connection, an answer that is too large: nothing is processed,
\* and what was sent is what a hop that answers is sent.
HopFails ==
  /\ Running /\ chain.phase = "Request"
  /\ EndChain
  /\ UNCHANGED <<policy, jar, listed, loads, page>>

\* Mutant: hops are not counted.
FollowRedirectUncounted ==
  /\ Running /\ chain.phase = "Redirect"
  /\ \E host \in Hosts, scheme \in {"http", "https"} :
       /\ chain.scheme = "https" => scheme = "https"
       /\ chain' = [chain EXCEPT !.host = host, !.scheme = scheme, !.phase = "Request",
                                 !.body = FALSE]
  /\ UNCHANGED <<policy, jar, listed, sent, loads, page>>

\* resolve_redirect accepts the target; every hop after the first is a plain GET.
FollowRedirect ==
  /\ Running /\ chain.phase = "Redirect"
  /\ chain.hops < MaxRedirectCount
  /\ \E host \in Hosts, scheme \in {"http", "https"} :
       /\ chain.scheme = "https" => scheme = "https"
       /\ chain' = [chain EXCEPT !.host = host, !.scheme = scheme, !.phase = "Request",
                                 !.hops = @ + 1, !.body = FALSE]
  /\ UNCHANGED <<policy, jar, listed, sent, loads, page>>

\* Too many redirects, or a target that does not resolve or is a downgrade.
AbandonRedirect ==
  /\ Running /\ chain.phase = "Redirect"
  /\ EndChain
  /\ UNCHANGED <<policy, jar, listed, loads, page>>

\* finish_load with a document that parses.
FinishLoad ==
  /\ Running /\ chain.phase = "Final"
  /\ EndChain
  /\ page' = loads
  /\ UNCHANGED <<policy, jar, listed, loads>>

\* parse_html_with_base refuses the document: the held page stays.
FinishFails ==
  /\ Running /\ chain.phase = "Final"
  /\ EndChain
  /\ UNCHANGED <<policy, jar, listed, loads, page>>
-----------------------------------------------------------------------------
(* Set-Cookie lines (process_one_set_cookie).                              *)

\* classify, for a host that is a site.
Scope(cookieHost, top) == IF cookieHost = top THEN "FirstParty" ELSE "ThirdParty"

\* Mutant: the scope is taken against the hop and not against the host asked for.
PolicyForHop(cookieHost) ==
  IF live[cookieHost] # None THEN live[cookieHost]
  ELSE live[Scope(cookieHost, chain.host)]

\* resolve_policy: the exception of the cookie's site, else the default of its scope.
PolicyFor(cookieHost) ==
  IF live[cookieHost] # None THEN live[cookieHost]
  ELSE live[Scope(cookieHost, chain.top)]

\* decide.  That Session cookies end with the session is true of every cookie held.
Accepts(cookieHost, secure) ==
  /\ PolicyFor(cookieHost) \notin {"Reject", "Ask"}
  /\ secure => chain.scheme = "https"

\* CookieJar.store: under the site of the hop's own host, dropped if that is none.
StoreCookie(host, cookieHost, name, cookie) ==
  jar' = IF host \in Sites THEN [jar EXCEPT ![host][name] = cookie] ELSE jar

\* One line of the response that was just read.
Offered ==
  /\ Running /\ chain.phase \in {"Redirect", "Final"} /\ chain.scheme # "file"
  /\ chain.lines < MaxLines
  /\ chain' = [chain EXCEPT !.lines = @ + 1]
  /\ UNCHANGED <<policy, sent, loads, page>>

CookieHosts == Declared \cup {chain.host}

AcceptCookie ==
  /\ Offered
  /\ \E cookieHost \in CookieHosts \cap Sites, name \in Names, secure \in BOOLEAN :
       /\ Accepts(cookieHost, secure)
       /\ StoreCookie(chain.host, cookieHost, name,
                      [setter |-> chain.host, secure |-> secure,
                       encrypted |-> chain.scheme = "https",
                       party |-> Scope(chain.host, chain.top)])
  /\ listed' = listed \cup {chain.host}

\* Malformed, on a public suffix, or refused by the decision.
RefuseCookie ==
  /\ Offered
  /\ UNCHANGED <<jar, listed>>

-----------------------------------------------------------------------------
(* Policies, between loads: the controller is at home.                     *)

\* Mutant: only what tightens is written, and everything is confirmed.
WriteOnlyRejections(k, p) ==
  IF store # "disk" THEN UNCHANGED <<saved, confirmed>>
  ELSE /\ saved' = IF p = "Reject" THEN [saved EXCEPT ![k] = p] ELSE saved
       /\ confirmed' = [confirmed EXCEPT ![k] = p]

\* write_through_site_policy and persist_setting, and what the user is told: a failed
\* write is, while a change without a store, or with one in memory, counts as made.
WriteThrough(k, p) ==
  \/ store # "disk" /\ UNCHANGED <<saved, confirmed>>
  \/ /\ store = "disk"
     /\ saved' = [saved EXCEPT ![k] = p]
     /\ confirmed' = [confirmed EXCEPT ![k] = p]
  \/ /\ store = "disk" /\ StoreFails
     /\ UNCHANGED saved
     /\ confirmed' = [confirmed EXCEPT ![k] = None]

\* Mutant: rejecting a site only affects what it offers from now on.
ForgetNoSite(s, p) == jar

\* set_site_cookie_policy: a rejected site loses its cookies.
ForgetSite(s, p) ==
  IF p = "Reject" THEN [jar EXCEPT ![s] = EmptyJar[s]] ELSE jar

\* /cookies allow-session and /cookies reject.
SetSitePolicy ==
  \E s \in Sites, p \in {"Session", "Reject"} :
    /\ chain = None
    /\ live' = [live EXCEPT ![s] = p]
    /\ jar' = ForgetSite(s, p)
    /\ WriteThrough(s, p)
    /\ UNCHANGED <<listed, store, unread, chain, sent, loads, page, session>>

\* The same with other letters: the exception is filed under a key that no host of an
\* address has, so nothing but the answer can be seen of it.
SetSitePolicyOtherCase ==
  \E s \in Sites, p \in {"Session", "Reject"} :
    /\ AnyCase
    /\ chain = None
    /\ confirmed' = IF store = "disk" THEN [confirmed EXCEPT ![s] = p] ELSE confirmed
    /\ UNCHANGED <<live, jar, listed, store, unread, saved, chain, sent, loads, page,
                   session>>

\* Mutant: a third-party rejection prunes, a first-party one does not.
KeptAfterSwapped(scope, p) ==
  IF scope = "ThirdParty" /\ p = "Reject"
  THEN {s \in Sites : live[s] \notin {None, "Reject"}}
  ELSE Sites

\* drop_cookies_without_permitting_exception, when the first-party default tightens.
KeptAfter(scope, p) ==
  IF scope = "FirstParty" /\ p = "Reject"
  THEN {s \in Sites : live[s] \notin {None, "Reject"}}
  ELSE Sites

\* The cookie rows of the settings panel (set_global_cookie_policy).
SetGlobalPolicy ==
  \E scope \in Scopes, p \in DefaultPolicies :
    /\ chain = None
    /\ live' = [live EXCEPT ![scope] = p]
    /\ jar' = [s \in Sites |-> IF s \in KeptAfter(scope, p) THEN jar[s] ELSE EmptyJar[s]]
    /\ WriteThrough(scope, p)
    /\ UNCHANGED <<listed, store, unread, chain, sent, loads, page, session>>

\* Mutant: the list is emptied and the jar is not.
ClearRecordsOnly ==
  /\ chain = None
  /\ listed' = {} /\ jar' = jar
  /\ UNCHANGED <<policy, chain, sent, loads, page>>

\* /cookies clear.
ClearCookies ==
  /\ chain = None
  /\ listed' = {} /\ jar' = EmptyJar
  /\ UNCHANGED <<policy, chain, sent, loads, page>>

-----------------------------------------------------------------------------
ChainStep ==
  \/ HopAnswers \/ HopFails \/ FollowRedirect \/ AbandonRedirect
  \/ FinishLoad \/ FinishFails

CookieOffer == AcceptCookie \/ RefuseCookie

PolicyChange ==
  SetSitePolicy \/ SetSitePolicyOtherCase \/ SetGlobalPolicy \/ ClearCookies

Next == StartLoad \/ ChainStep \/ CookieOffer \/ PolicyChange \/ Restart

(***************************************************************************)
(* The task goes on: each request ends within thirty seconds, and the      *)
(* headers of a response, hence its Set-Cookie lines, are bounded.         *)
(***************************************************************************)
Spec == Init /\ [][Next]_vars /\ WF_vars(ChainStep)

-----------------------------------------------------------------------------
(* Properties.                                                             *)

\* A cookie goes back to the site whose response set it and to no other, whatever hosts
\* a chain runs through and whatever its Domain attribute says.
CookiesReturnToTheirSetter ==
  sent # None => \A c \in sent.cookies : c.setter = sent.host

\* What is sent marked Secure was set over https and is sent over https: its value was
\* never on the wire in clear.
SecureStaysEncrypted ==
  sent # None =>
    \A c \in sent.cookies : c.secure => c.encrypted /\ sent.scheme = "https"

\* The fields of a form reach the form's action only, not what it redirects to.
BodyGoesToTheAction == sent # None /\ sent.body => sent.hops = 0

\* "Rejecting a site takes effect at once", and stays in effect: no cookie is held for a
\* site whose exception is Reject.
RejectedSiteHoldsNothing ==
  \A s \in Sites : live[s] = "Reject" => HoldsNothing(s)

\* Under a first-party default of Reject, a site without an exception holds nothing it
\* set as a first party: "a held cookie for a domain no exception permits is now
\* forbidden and is removed immediately".
TightenedDefaultForgets ==
  \A s \in Sites, n \in Names :
    live["FirstParty"] = "Reject" /\ live[s] = None /\ jar[s][n] # None =>
      jar[s][n].party = "ThirdParty"

\* A cookie enters the jar only under a policy that permits the site it is held for, in
\* the party that site is in this chain: "a cookie set on a redirect target is still
\* classified against the site the user navigated to".
CookiesEnterAsPermitted ==
  [][\A s \in Sites, n \in Names :
       jar'[s][n] \notin {jar[s][n], None} =>
         (IF live[s] # None THEN live[s] ELSE live[jar'[s][n].party]) \in {"Allow", "Session"}]_vars

\* /cookies hides nothing: every site that holds a cookie has an accepted record.
HeldCookiesAreListed ==
  \A s \in Sites : HoldsNothing(s) \/ s \in listed

\* The policy the user was last told is set, for a site typed as its address spells it
\* and with the database on disk, is in force after every later start that has that
\* database and can read the row, whatever the sessions in between had to do without.  (A
\* site typed in another case is confirmed under a key that nothing looks up:
\* SetSitePolicyOtherCase, which the run leaves out by AnyCase.)
ConfirmedPoliciesSurvive ==
  [][session' # session /\ store' = "disk" =>
       \A k \in Keys \ unread' : confirmed[k] # None => live'[k] = confirmed[k]]_vars

Task == INSTANCE LoadTask WITH active <- chain # None, started <- loads

\* The chain keeps the contract of a load: it ends, and only its success changes the page.
ImplementsLoadTask == Task!Spec
=============================================================================
