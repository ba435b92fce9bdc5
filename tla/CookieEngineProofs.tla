-------------------------- MODULE CookieEngineProofs --------------------------
(***************************************************************************)
(* Proofs about CookieEngine, for every set of sites and cookies, every    *)
(* redirect limit, and any number of loads, lines and restarts.            *)
(***************************************************************************)
EXTENDS CookieEngine, TLAPS

-----------------------------------------------------------------------------
(* Types.                                                                  *)

\* The policies in force after a start are policies, whatever rows were found.
LEMMA ResolvedType ==
  ASSUME NEW rows \in [Keys -> Policies \cup {None}]
  PROVE  /\ ResolvedPolicies(rows) \in [Keys -> Policies \cup {None}]
         /\ \A scope \in Scopes : ResolvedPolicies(rows)[scope] # None
<1>1. /\ ConfigWord["FirstParty"] \in Policies
      /\ ConfigWord["ThirdParty"] \in Policies
  BY PolicyAssumption DEF ConfigWord
<1>2. \A scope \in Scopes : ConfigWord[scope] \in Policies
  BY <1>1 DEF Scopes
<1> QED
  BY <1>2, SitesAssumption DEF ResolvedPolicies, Keys

\* Opening the store, or failing to, leaves typed policies in force.
LEMMA OpenStoreType ==
  ASSUME NEW rows \in [Keys -> Policies \cup {None}], OpenStore(rows)
  PROVE  /\ live' \in [Keys -> Policies \cup {None}]
         /\ \A scope \in Scopes : live'[scope] # None
         /\ store' \in {"disk", "memory", "none"}
         /\ unread' \subseteq Scopes
<1>1. NoRows \in [Keys -> Policies \cup {None}]
  BY DEF NoRows
<1> QED
  BY <1>1, ResolvedType DEF OpenStore

\* A process starts well typed.
LEMMA TypeInit == Init => TypeOK
<1> SUFFICES ASSUME Init PROVE TypeOK
  OBVIOUS
<1>1. NoRows \in [Keys -> Policies \cup {None}]
  BY DEF NoRows
<1>2. /\ live \in [Keys -> Policies \cup {None}]
      /\ \A scope \in Scopes : live[scope] # None
  BY <1>1, ResolvedType DEF Init
<1>3. jar \in [Sites -> [Names -> Cookie \cup {None}]]
  BY DEF Init, EmptyJar
<1> QED
  BY <1>1, <1>2, <1>3, CountAssumption DEF Init, TypeOK

\* A write, made, failed or not possible, keeps the rows and the answers typed.
LEMMA WriteThroughType ==
  ASSUME TypeOK, NEW k \in Keys, NEW p \in Policies, WriteThrough(k, p)
  PROVE  /\ saved' \in [Keys -> Policies \cup {None}]
         /\ confirmed' \in [Keys -> Policies \cup {None}]
  BY DEF WriteThrough, TypeOK

\* Every step keeps the variables in their types.
LEMMA TypeStep ==
  ASSUME TypeOK, [Next]_vars
  PROVE  TypeOK'
<1> USE SitesAssumption, CountAssumption
<1>1. CASE StartLoad
  <2>1. chain' \in Chain
    BY <1>1 DEF StartLoad, Chain
  <2> QED
    BY <1>1, <2>1 DEF StartLoad, policy, TypeOK
<1>2. CASE HopAnswers
  <2>1. chain \in Chain
    BY <1>2 DEF HopAnswers, Running, TypeOK
  <2>2. CookieHeader(chain.host, chain.scheme) \subseteq Cookie
    BY DEF CookieHeader, TypeOK
  <2>3. sent' \in Request
    BY <1>2, <2>1, <2>2 DEF HopAnswers, SendRequest, Request, Chain
  <2>4. chain' \in Chain
    BY <1>2, <2>1 DEF HopAnswers, Chain
  <2> QED
    BY <1>2, <2>3, <2>4 DEF HopAnswers, policy, TypeOK
<1>3. CASE HopFails
  BY <1>3 DEF HopFails, EndChain, policy, TypeOK
<1>4. CASE FollowRedirect
  <2>1. chain \in Chain
    BY <1>4 DEF FollowRedirect, Running, TypeOK
  <2>2. PICK host \in Hosts, scheme \in {"http", "https"} :
          chain' = [chain EXCEPT !.host = host, !.scheme = scheme, !.phase = "Request",
                                 !.hops = @ + 1, !.body = FALSE]
    BY <1>4 DEF FollowRedirect
  <2>3. chain.hops + 1 \in 0..MaxRedirectCount
    BY <1>4, <2>1 DEF FollowRedirect, Chain
  <2>4. chain' \in Chain
    BY <2>1, <2>2, <2>3 DEF Chain, Schemes
  <2> QED
    BY <1>4, <2>4 DEF FollowRedirect, policy, TypeOK
<1>5. CASE AbandonRedirect
  BY <1>5 DEF AbandonRedirect, EndChain, policy, TypeOK
<1>6. CASE FinishLoad
  BY <1>6 DEF FinishLoad, EndChain, policy, TypeOK
<1>7. CASE FinishFails
  BY <1>7 DEF FinishFails, EndChain, policy, TypeOK
<1>8. ASSUME Offered
      PROVE  chain \in Chain /\ chain' \in Chain
  <2>1. chain \in Chain
    BY <1>8 DEF Offered, Running, TypeOK
  <2>2. chain.lines + 1 \in 0..MaxLines
    BY <1>8, <2>1 DEF Offered, Chain
  <2> QED
    BY <1>8, <2>1, <2>2 DEF Offered, Chain
<1>9. CASE AcceptCookie
  <2>1. chain \in Chain /\ chain' \in Chain
    BY <1>8, <1>9 DEF AcceptCookie
  <2>2. PICK cookieHost \in CookieHosts \cap Sites, name \in Names, secure \in BOOLEAN :
          StoreCookie(chain.host, cookieHost, name,
                      [setter |-> chain.host, secure |-> secure,
                       encrypted |-> chain.scheme = "https",
                       party |-> Scope(chain.host, chain.top)])
    BY <1>9 DEF AcceptCookie
  <2>3. [setter |-> chain.host, secure |-> secure, encrypted |-> chain.scheme = "https",
         party |-> Scope(chain.host, chain.top)] \in Cookie
    BY <2>1 DEF Cookie, Chain, Scope, Scopes
  <2>4. jar' \in [Sites -> [Names -> Cookie \cup {None}]]
    BY <2>2, <2>3 DEF StoreCookie, TypeOK
  <2>5. listed' \subseteq Hosts
    BY <1>9, <2>1 DEF AcceptCookie, Chain, TypeOK
  <2> QED
    BY <1>9, <2>1, <2>4, <2>5 DEF AcceptCookie, Offered, policy, TypeOK
<1>10. CASE RefuseCookie
  BY <1>8, <1>10 DEF RefuseCookie, Offered, policy, TypeOK
<1>11. CASE SetSitePolicy
  <2>1. PICK s \in Sites, p \in {"Session", "Reject"} :
          /\ live' = [live EXCEPT ![s] = p]
          /\ jar' = ForgetSite(s, p)
          /\ WriteThrough(s, p)
    BY <1>11 DEF SetSitePolicy
  <2>2. p \in Policies /\ s \in Keys /\ s \notin Scopes
    BY DEF Policies, Keys
  <2>3. jar' \in [Sites -> [Names -> Cookie \cup {None}]]
    BY <2>1 DEF ForgetSite, EmptyJar, TypeOK
  <2>4. /\ saved' \in [Keys -> Policies \cup {None}]
        /\ confirmed' \in [Keys -> Policies \cup {None}]
    BY <2>1, <2>2, WriteThroughType
  <2>5. /\ live' \in [Keys -> Policies \cup {None}]
        /\ \A other \in Scopes : live'[other] # None
    BY <2>1, <2>2 DEF TypeOK, Keys
  <2> QED
    BY <1>11, <2>3, <2>4, <2>5 DEF SetSitePolicy, TypeOK
<1>12. CASE SetSitePolicyOtherCase
  <2>1. PICK s \in Sites, p \in {"Session", "Reject"} :
          confirmed' = IF store = "disk" THEN [confirmed EXCEPT ![s] = p] ELSE confirmed
    BY <1>12 DEF SetSitePolicyOtherCase
  <2> QED
    BY <1>12, <2>1 DEF SetSitePolicyOtherCase, TypeOK, Policies
<1>13. CASE SetGlobalPolicy
  <2>1. PICK scope \in Scopes, p \in DefaultPolicies :
          /\ live' = [live EXCEPT ![scope] = p]
          /\ jar' = [s \in Sites |->
                       IF s \in KeptAfter(scope, p) THEN jar[s] ELSE EmptyJar[s]]
          /\ WriteThrough(scope, p)
    BY <1>13 DEF SetGlobalPolicy
  <2>2. p \in Policies /\ scope \in Keys
    BY PolicyAssumption DEF Keys
  <2>3. jar' \in [Sites -> [Names -> Cookie \cup {None}]]
    BY <2>1 DEF EmptyJar, TypeOK
  <2>4. /\ saved' \in [Keys -> Policies \cup {None}]
        /\ confirmed' \in [Keys -> Policies \cup {None}]
    BY <2>1, <2>2, WriteThroughType
  <2>5. /\ live' \in [Keys -> Policies \cup {None}]
        /\ \A other \in Scopes : live'[other] # None
    BY <2>1, <2>2 DEF TypeOK, Keys
  <2> QED
    BY <1>13, <2>3, <2>4, <2>5 DEF SetGlobalPolicy, TypeOK
<1>14. CASE ClearCookies
  <2>1. jar' \in [Sites -> [Names -> Cookie \cup {None}]]
    BY <1>14 DEF ClearCookies, EmptyJar
  <2> QED
    BY <1>14, <2>1 DEF ClearCookies, policy, TypeOK
<1>15. CASE Restart
  <2>1. jar' \in [Sites -> [Names -> Cookie \cup {None}]]
    BY <1>15 DEF Restart, EmptyJar
  <2>2. session' \in 1..MaxSessions
    BY <1>15 DEF Restart, TypeOK
  <2> QED
    BY <1>15, <2>1, <2>2, OpenStoreType DEF Restart, TypeOK
<1>16. CASE UNCHANGED vars
  BY <1>16 DEF vars, TypeOK
<1> QED
  BY <1>1, <1>2, <1>3, <1>4, <1>5, <1>6, <1>7, <1>9, <1>10, <1>11, <1>12, <1>13, <1>14,
     <1>15, <1>16
  DEF Next, ChainStep, CookieOffer, PolicyChange

\* TypeOK holds in every state of every session; above all, a scope is never left
\* without a policy, whatever the database and config.toml hold.
THEOREM TypeCorrect == Spec => []TypeOK
<1>1. TypeOK /\ [Next]_vars => TypeOK'
  BY TypeStep
<1> QED
  BY <1>1, TypeInit, PTL DEF Spec

-----------------------------------------------------------------------------
(***************************************************************************)
(* What the jar holds, whatever servers and users do: each cookie under    *)
(* the site that set it, a Secure one only if it came over https, and no   *)
(* site without a record.                                                  *)
(***************************************************************************)
JarInv ==
  \A s \in Sites, n \in Names :
    LET held == jar[s][n]
    IN  held # None => held.setter = s /\ (held.secure => held.encrypted) /\ s \in listed

\* What is on the wire: cookies of the host it goes to, Secure ones over https, and the
\* body of a form on the first hop only.
WireInv ==
  /\ CookiesReturnToTheirSetter
  /\ SecureStaysEncrypted
  /\ BodyGoesToTheAction
  /\ chain # None /\ chain.body => chain.hops = 0

\* Between answers the jar and the records stay as they were.
LEMMA SameJar ==
  ASSUME JarInv, UNCHANGED <<jar, listed>>
  PROVE  JarInv'
  BY DEF JarInv

\* A jar that only lost cookies is as good as it was.
LEMMA SmallerJar ==
  ASSUME JarInv, UNCHANGED listed,
         \A s \in Sites, n \in Names : jar'[s][n] \in {jar[s][n], None}
  PROVE  JarInv'
<1> SUFFICES ASSUME NEW s \in Sites, NEW n \in Names, jar'[s][n] # None
             PROVE  /\ jar'[s][n].setter = s /\ s \in listed'
                    /\ jar'[s][n].secure => jar'[s][n].encrypted
  BY DEF JarInv
<1>1. jar'[s][n] = jar[s][n]
  OBVIOUS
<1> QED
  BY <1>1 DEF JarInv

\* Clearing the cookies of a site, or of all that are not kept, only loses cookies.
LEMMA PruneFacts ==
  ASSUME TypeOK
  PROVE  /\ \A site \in Sites, p \in Policies, s \in Sites, n \in Names :
              ForgetSite(site, p)[s][n] \in {jar[s][n], None}
         /\ SetGlobalPolicy =>
              \A s \in Sites, n \in Names : jar'[s][n] \in {jar[s][n], None}
<1>1. ASSUME NEW site \in Sites, NEW p \in Policies, NEW s \in Sites, NEW n \in Names
      PROVE  ForgetSite(site, p)[s][n] \in {jar[s][n], None}
  BY <1>1 DEF ForgetSite, EmptyJar, TypeOK
<1>2. ASSUME SetGlobalPolicy, NEW s \in Sites, NEW n \in Names
      PROVE  jar'[s][n] \in {jar[s][n], None}
  BY <1>2 DEF SetGlobalPolicy, EmptyJar, TypeOK
<1> QED
  BY <1>1, <1>2

\* An empty jar has nothing wrong with it.
LEMMA EmptyJarFacts ==
  ASSUME jar' = EmptyJar
  PROVE  JarInv'
  BY DEF EmptyJar, JarInv

\* An accepted cookie is filed under the host that answered.
LEMMA AcceptedCookie ==
  ASSUME TypeOK, AcceptCookie
  PROVE  \E cookieHost \in CookieHosts \cap Sites, name \in Names, cookie \in Cookie :
           /\ cookie.setter = chain.host
           /\ cookie.party = Scope(chain.host, chain.top)
           /\ cookie.secure => cookie.encrypted
           /\ PolicyFor(cookieHost) \notin {"Reject", "Ask"}
           /\ jar' = IF chain.host \in Sites
                     THEN [jar EXCEPT ![chain.host][name] = cookie] ELSE jar
           /\ listed' = listed \cup {chain.host}
           /\ UNCHANGED live
<1>1. chain \in Chain
  BY DEF AcceptCookie, Offered, Running, TypeOK
<1>2. PICK cookieHost \in CookieHosts \cap Sites, name \in Names, secure \in BOOLEAN :
        /\ Accepts(cookieHost, secure)
        /\ StoreCookie(chain.host, cookieHost, name,
                       [setter |-> chain.host, secure |-> secure,
                        encrypted |-> chain.scheme = "https",
                        party |-> Scope(chain.host, chain.top)])
  BY DEF AcceptCookie
<1> DEFINE cookie == [setter |-> chain.host, secure |-> secure,
                      encrypted |-> chain.scheme = "https",
                      party |-> Scope(chain.host, chain.top)]
<1>3. cookie \in Cookie
  BY <1>1 DEF Cookie, Chain, Scope, Scopes
<1>4. cookie.secure => cookie.encrypted
  BY <1>2 DEF Accepts
<1>5. jar' = IF chain.host \in Sites
             THEN [jar EXCEPT ![chain.host][name] = cookie] ELSE jar
  BY <1>2 DEF StoreCookie
<1>6. cookie.setter = chain.host /\ cookie.party = Scope(chain.host, chain.top)
  OBVIOUS
<1>7. PolicyFor(cookieHost) \notin {"Reject", "Ask"}
  BY <1>2 DEF Accepts
<1>8. listed' = listed \cup {chain.host} /\ UNCHANGED live
  BY DEF AcceptCookie, Offered, policy
<1> HIDE DEF cookie
<1> QED
  BY <1>3, <1>4, <1>5, <1>6, <1>7, <1>8

\* Every step keeps the jar in order.
LEMMA JarStep ==
  ASSUME TypeOK, JarInv, [Next]_vars
  PROVE  JarInv'
<1>1. CASE AcceptCookie
  <2>1. PICK cookie \in Cookie, name \in Names :
          /\ cookie.setter = chain.host
          /\ cookie.secure => cookie.encrypted
          /\ jar' = IF chain.host \in Sites
                    THEN [jar EXCEPT ![chain.host][name] = cookie] ELSE jar
          /\ listed' = listed \cup {chain.host}
    BY <1>1, AcceptedCookie
  <2> SUFFICES ASSUME NEW s \in Sites, NEW n \in Names, jar'[s][n] # None
               PROVE  /\ jar'[s][n].setter = s /\ s \in listed'
                      /\ jar'[s][n].secure => jar'[s][n].encrypted
    BY DEF JarInv
  <2>2. CASE s = chain.host /\ n = name
    <3>1. jar'[s][n] = cookie
      BY <2>1, <2>2 DEF TypeOK
    <3> QED
      BY <2>1, <2>2, <3>1
  <2>3. CASE ~(s = chain.host /\ n = name)
    <3>1. jar'[s][n] = jar[s][n]
      BY <2>1, <2>3 DEF TypeOK
    <3> QED
      BY <2>1, <3>1 DEF JarInv
  <2> QED
    BY <2>2, <2>3
<1>2. CASE SetSitePolicy
  <2>1. PICK site \in Sites, p \in {"Session", "Reject"} : jar' = ForgetSite(site, p)
    BY <1>2 DEF SetSitePolicy
  <2>2. p \in Policies
    BY DEF Policies
  <2>3. \A s \in Sites, n \in Names : jar'[s][n] \in {jar[s][n], None}
    BY <2>1, <2>2, PruneFacts
  <2> QED
    BY <1>2, <2>3, SmallerJar DEF SetSitePolicy
<1>3. CASE SetGlobalPolicy
  <2>1. \A s \in Sites, n \in Names : jar'[s][n] \in {jar[s][n], None}
    BY <1>3, PruneFacts
  <2> QED
    BY <1>3, <2>1, SmallerJar DEF SetGlobalPolicy
<1>4. CASE ClearCookies
  BY <1>4, EmptyJarFacts DEF ClearCookies
<1>5. CASE Restart
  BY <1>5, EmptyJarFacts DEF Restart
<1>6. CASE UNCHANGED <<jar, listed>>
  BY <1>6, SameJar
<1> QED
  BY <1>1, <1>2, <1>3, <1>4, <1>5, <1>6
  DEF Next, ChainStep, CookieOffer, PolicyChange, StartLoad, HopAnswers, HopFails,
      FollowRedirect, AbandonRedirect, FinishLoad, FinishFails, RefuseCookie,
      SetSitePolicyOtherCase, vars

\* What a request carries comes out of the jar, under the site it goes to.
LEMMA WireStep ==
  ASSUME TypeOK, JarInv, WireInv, [Next]_vars
  PROVE  WireInv'
<1> USE DEF CookiesReturnToTheirSetter, SecureStaysEncrypted, BodyGoesToTheAction
<1>1. CASE HopAnswers
  <2>1. chain \in Chain
    BY <1>1 DEF HopAnswers, Running, TypeOK
  <2>2. /\ sent' = [host |-> chain.host, scheme |-> chain.scheme, body |-> chain.body,
                    hops |-> chain.hops,
                    cookies |-> CookieHeader(chain.host, chain.scheme)]
        /\ chain'.body = chain.body /\ chain'.hops = chain.hops
    BY <1>1, <2>1 DEF HopAnswers, SendRequest, Chain
  <2>3. \A c \in CookieHeader(chain.host, chain.scheme) :
          c.setter = chain.host /\ (c.secure => c.encrypted /\ chain.scheme = "https")
    BY DEF CookieHeader, JarInv
  <2>4. chain.body => chain.hops = 0
    BY <1>1 DEF HopAnswers, Running, WireInv
  <2> QED
    BY <2>2, <2>3, <2>4 DEF WireInv
<1>2. CASE StartLoad
  <2>1. chain'.hops = 0 /\ sent' = sent
    BY <1>2 DEF StartLoad
  <2> QED
    BY <2>1 DEF WireInv
<1>3. CASE FollowRedirect
  <2>1. chain \in Chain
    BY <1>3 DEF FollowRedirect, Running, TypeOK
  <2>2. chain'.body = FALSE /\ sent' = sent
    BY <1>3, <2>1 DEF FollowRedirect, Chain
  <2> QED
    BY <2>2 DEF WireInv
<1>4. CASE Offered
  <2>1. chain \in Chain /\ chain # None
    BY <1>4 DEF Offered, Running, TypeOK
  <2>2. chain'.body = chain.body /\ chain'.hops = chain.hops /\ sent' = sent
    BY <1>4, <2>1 DEF Offered, Chain
  <2> QED
    BY <2>1, <2>2 DEF WireInv
<1>5. CASE EndChain \/ Restart
  BY <1>5 DEF EndChain, Restart, WireInv
<1>6. CASE UNCHANGED <<chain, sent>>
  BY <1>6 DEF WireInv
<1> QED
  BY <1>1, <1>2, <1>3, <1>4, <1>5, <1>6
  DEF Next, ChainStep, CookieOffer, PolicyChange, HopFails, AbandonRedirect, FinishLoad,
      FinishFails, AcceptCookie, RefuseCookie, SetSitePolicy, SetSitePolicyOtherCase,
      SetGlobalPolicy, ClearCookies, vars

\* The jar and the wire are in order in every state of every session.
LEMMA TrafficCorrect == Spec => [](TypeOK /\ JarInv /\ WireInv)
<1>1. Init => TypeOK /\ JarInv /\ WireInv
  <2>1. Init => JarInv
    BY DEF Init, EmptyJar, JarInv
  <2>2. Init => WireInv
    BY DEF Init, WireInv, CookiesReturnToTheirSetter, SecureStaysEncrypted,
           BodyGoesToTheAction
  <2> QED
    BY <2>1, <2>2, TypeInit
<1>2. TypeOK /\ JarInv /\ WireInv /\ [Next]_vars => (TypeOK /\ JarInv /\ WireInv)'
  BY TypeStep, JarStep, WireStep
<1> QED
  BY <1>1, <1>2, PTL DEF Spec

\* cookie_header_for never hands a cookie to a site other than the one that set it.
THEOREM SettersCorrect == Spec => []CookiesReturnToTheirSetter
  BY TrafficCorrect, PTL DEF WireInv

\* A Secure cookie is accepted over https only and sent over https only.
THEOREM SecureCorrect == Spec => []SecureStaysEncrypted
  BY TrafficCorrect, PTL DEF WireInv

\* Every hop after the first is a GET without a body.
THEOREM BodyCorrect == Spec => []BodyGoesToTheAction
  BY TrafficCorrect, PTL DEF WireInv

\* A site that holds a cookie is on the list of /cookies, until both are cleared.
THEOREM ListCorrect == Spec => []HeldCookiesAreListed
<1>1. ASSUME TypeOK, JarInv, NEW s \in Sites, s \notin listed
      PROVE  HoldsNothing(s)
  <2>1. \A n \in Names : jar[s][n] = None
    BY <1>1 DEF JarInv
  <2>2. jar[s] \in [Names -> Cookie \cup {None}]
    BY <1>1 DEF TypeOK
  <2> QED
    BY <2>1, <2>2 DEF HoldsNothing
<1>2. TypeOK /\ JarInv => HeldCookiesAreListed
  BY <1>1 DEF HeldCookiesAreListed
<1> QED
  BY <1>2, TrafficCorrect, PTL

-----------------------------------------------------------------------------
(***************************************************************************)
(* Policies.  resolve_policy looks up the site named by the Domain         *)
(* attribute, and the jar files the cookie under the hop's own site; what  *)
(* follows is true as long as no server declares a site other than its     *)
(* own, which Declared \cap Sites = {} says.                               *)
(***************************************************************************)
NoForeignDomains == Declared \cap Sites = {}

PolicyInv == RejectedSiteHoldsNothing /\ TightenedDefaultForgets

\* Without foreign domains an accepted cookie is filed under the site whose policy
\* permitted it.
LEMMA PermittedCookie ==
  ASSUME TypeOK, NoForeignDomains, AcceptCookie
  PROVE  \E name \in Names, cookie \in Cookie :
           /\ chain.host \in Sites
           /\ cookie.party = Scope(chain.host, chain.top)
           /\ PolicyFor(chain.host) \notin {"Reject", "Ask"}
           /\ jar' = [jar EXCEPT ![chain.host][name] = cookie]
           /\ UNCHANGED live
<1>1. \A cookieHost \in CookieHosts \cap Sites : cookieHost = chain.host
  BY DEF CookieHosts, NoForeignDomains
<1> QED
  BY <1>1, AcceptedCookie

\* A cookie is permitted by Allow or Session: the site's exception, or its scope's default.
LEMMA PermitFacts ==
  ASSUME TypeOK, NEW s \in Sites, PolicyFor(s) \notin {"Reject", "Ask"}
  PROVE  /\ live[s] # "Reject"
         /\ live[s] = None => live[Scope(s, chain.top)] \in {"Allow", "Session"}
         /\ live[s] # None => live[s] \in {"Allow", "Session"}
<1>1. live[s] \in Policies \cup {None}
  BY DEF TypeOK, Keys
<1>2. Scope(s, chain.top) \in Scopes
  BY DEF Scope, Scopes
<1>3. live[Scope(s, chain.top)] \in Policies
  BY <1>2 DEF TypeOK, Keys
<1>4. None # "Reject"
  BY SitesAssumption DEF Policies
<1> QED
  BY <1>1, <1>3, <1>4 DEF PolicyFor, Policies

\* Pruning leaves a site that holds nothing with nothing.
LEMMA HeldBefore ==
  ASSUME TypeOK, NEW s \in Sites, jar'[s] \in {jar[s], EmptyJar[s]}, HoldsNothing(s)
  PROVE  HoldsNothing(s)'
  BY DEF HoldsNothing, EmptyJar

\* Every step keeps the jar within the policies in force.
LEMMA PolicyStep ==
  ASSUME TypeOK, NoForeignDomains, PolicyInv, [Next]_vars
  PROVE  PolicyInv'
<1> USE SitesAssumption
<1> USE DEF RejectedSiteHoldsNothing, TightenedDefaultForgets
<1>1. CASE AcceptCookie
  <2>1. PICK name \in Names, cookie \in Cookie :
          /\ chain.host \in Sites
          /\ cookie.party = Scope(chain.host, chain.top)
          /\ PolicyFor(chain.host) \notin {"Reject", "Ask"}
          /\ jar' = [jar EXCEPT ![chain.host][name] = cookie]
          /\ UNCHANGED live
    BY <1>1, PermittedCookie
  <2>2. /\ live[chain.host] # "Reject"
        /\ live[chain.host] = None =>
             live[Scope(chain.host, chain.top)] \in {"Allow", "Session"}
    BY <2>1, PermitFacts
  <2>3. ASSUME NEW s \in Sites, live'[s] = "Reject" PROVE HoldsNothing(s)'
    <3>1. s # chain.host /\ live[s] = "Reject"
      BY <2>1, <2>2, <2>3
    <3>2. jar'[s] = jar[s]
      BY <2>1, <3>1 DEF TypeOK
    <3> QED
      BY <3>1, <3>2 DEF PolicyInv, HoldsNothing
  <2>4. ASSUME NEW s \in Sites, NEW n \in Names,
               live'["FirstParty"] = "Reject", live'[s] = None, jar'[s][n] # None
        PROVE  jar'[s][n].party = "ThirdParty"
    <3>1. CASE s = chain.host /\ n = name
      <4>1. jar'[s][n] = cookie
        BY <2>1, <3>1 DEF TypeOK
      <4>2. Scope(chain.host, chain.top) # "FirstParty"
        BY <2>1, <2>2, <2>4, <3>1
      <4> QED
        BY <2>1, <4>1, <4>2 DEF Scope
    <3>2. CASE ~(s = chain.host /\ n = name)
      <4>1. jar'[s][n] = jar[s][n]
        BY <2>1, <3>2 DEF TypeOK
      <4> QED
        BY <2>1, <2>4, <4>1 DEF PolicyInv
    <3> QED
      BY <3>1, <3>2
  <2> QED
    BY <2>3, <2>4 DEF PolicyInv
<1>2. CASE SetSitePolicy
  <2>1. PICK site \in Sites, p \in {"Session", "Reject"} :
          live' = [live EXCEPT ![site] = p] /\ jar' = ForgetSite(site, p)
    BY <1>2 DEF SetSitePolicy
  <2>2. /\ live'[site] = p /\ p # None
        /\ \A s \in Sites : s # site => live'[s] = live[s]
        /\ live'["FirstParty"] = live["FirstParty"]
    BY <2>1 DEF TypeOK, Keys, Scopes, Policies
  <2>3. /\ \A s \in Sites : s # site => jar'[s] = jar[s]
        /\ p = "Reject" => jar'[site] = EmptyJar[site]
    BY <2>1 DEF ForgetSite, TypeOK
  <2>4. ASSUME NEW s \in Sites, live'[s] = "Reject" PROVE HoldsNothing(s)'
    BY <2>2, <2>3, <2>4 DEF PolicyInv, HoldsNothing, EmptyJar
  <2>5. ASSUME NEW s \in Sites, NEW n \in Names,
               live'["FirstParty"] = "Reject", live'[s] = None, jar'[s][n] # None
        PROVE  jar'[s][n].party = "ThirdParty"
    BY <2>2, <2>3, <2>5 DEF PolicyInv
  <2> QED
    BY <2>4, <2>5 DEF PolicyInv
<1>3. CASE SetGlobalPolicy
  <2>1. PICK scope \in Scopes, p \in DefaultPolicies :
          /\ live' = [live EXCEPT ![scope] = p]
          /\ jar' = [s \in Sites |->
                       IF s \in KeptAfter(scope, p) THEN jar[s] ELSE EmptyJar[s]]
    BY <1>3 DEF SetGlobalPolicy
  <2>2. /\ \A s \in Sites : live'[s] = live[s]
        /\ scope = "FirstParty" => live'["FirstParty"] = p
        /\ scope # "FirstParty" => live'["FirstParty"] = live["FirstParty"]
    BY <2>1 DEF TypeOK, Keys, Scopes
  <2>3. \A s \in Sites : jar'[s] \in {jar[s], EmptyJar[s]}
    BY <2>1
  <2>4. ASSUME NEW s \in Sites, live'[s] = "Reject" PROVE HoldsNothing(s)'
    BY <2>2, <2>3, <2>4, HeldBefore DEF PolicyInv
  <2>5. ASSUME NEW s \in Sites, NEW n \in Names,
               live'["FirstParty"] = "Reject", live'[s] = None, jar'[s][n] # None
        PROVE  jar'[s][n].party = "ThirdParty"
    <3>1. jar'[s] # EmptyJar[s]
      BY <2>5 DEF EmptyJar
    <3>2. jar'[s] = jar[s] /\ s \in KeptAfter(scope, p)
      BY <2>1, <3>1
    <3>3. ~(scope = "FirstParty" /\ p = "Reject")
      BY <2>2, <2>5, <3>2 DEF KeptAfter
    <3>4. live["FirstParty"] = "Reject" /\ live[s] = None
      BY <2>2, <2>5, <3>3
    <3> QED
      BY <2>5, <3>2, <3>4 DEF PolicyInv
  <2> QED
    BY <2>4, <2>5 DEF PolicyInv
<1>4. ASSUME jar' = EmptyJar PROVE PolicyInv'
  BY <1>4 DEF PolicyInv, EmptyJar, HoldsNothing
<1>5. CASE UNCHANGED <<live, jar>>
  BY <1>5 DEF PolicyInv, HoldsNothing
<1> QED
  BY <1>1, <1>2, <1>3, <1>4, <1>5
  DEF Next, ChainStep, CookieOffer, PolicyChange, StartLoad, HopAnswers, HopFails,
      FollowRedirect, AbandonRedirect, FinishLoad, FinishFails, RefuseCookie, Offered,
      SetSitePolicyOtherCase, ClearCookies, Restart, policy, vars

\* The jar is within the policies in force in every state of every session.
LEMMA PolicyCorrect ==
  ASSUME NoForeignDomains PROVE Spec => [](TypeOK /\ PolicyInv)
<1>1. Init => PolicyInv
  BY DEF Init, PolicyInv, RejectedSiteHoldsNothing, TightenedDefaultForgets, HoldsNothing,
         EmptyJar
<1>2. TypeOK /\ PolicyInv /\ [Next]_vars => (TypeOK /\ PolicyInv)'
  BY TypeStep, PolicyStep
<1> QED
  BY <1>1, <1>2, TypeInit, PTL DEF Spec

\* As long as servers declare no foreign domain, a rejected site holds no cookie: not
\* after the rejection, not after the next load, not after a restart.
THEOREM RejectionCorrect ==
  ASSUME NoForeignDomains PROVE Spec => []RejectedSiteHoldsNothing
  BY PolicyCorrect, PTL DEF PolicyInv

\* Likewise, with a first-party default of Reject nothing is left that a site without an
\* exception set as a first party.
THEOREM TighteningCorrect ==
  ASSUME NoForeignDomains PROVE Spec => []TightenedDefaultForgets
  BY PolicyCorrect, PTL DEF PolicyInv

\* Likewise, a cookie only enters the jar under a policy that permits the site it is held
\* for, in the party that site is in the chain.
THEOREM EntryCorrect ==
  ASSUME NoForeignDomains PROVE Spec => CookiesEnterAsPermitted
<1> DEFINE Entry ==
      \A s \in Sites, n \in Names :
        jar'[s][n] \notin {jar[s][n], None} =>
          (IF live[s] # None THEN live[s] ELSE live[jar'[s][n].party])
            \in {"Allow", "Session"}
<1>1. ASSUME TypeOK, [Next]_vars PROVE Entry
  <2> SUFFICES ASSUME NEW s \in Sites, NEW n \in Names, jar'[s][n] \notin {jar[s][n], None}
               PROVE  (IF live[s] # None THEN live[s] ELSE live[jar'[s][n].party])
                        \in {"Allow", "Session"}
    OBVIOUS
  <2>1. CASE AcceptCookie
    <3>1. PICK name \in Names, cookie \in Cookie :
            /\ chain.host \in Sites
            /\ cookie.party = Scope(chain.host, chain.top)
            /\ PolicyFor(chain.host) \notin {"Reject", "Ask"}
            /\ jar' = [jar EXCEPT ![chain.host][name] = cookie]
      BY <1>1, <2>1, PermittedCookie
    <3>2. s = chain.host /\ n = name /\ jar'[s][n] = cookie
      BY <1>1, <3>1 DEF TypeOK
    <3> QED
      BY <1>1, <3>1, <3>2, PermitFacts
  <2>2. CASE SetSitePolicy
    <3>1. PICK site \in Sites, p \in {"Session", "Reject"} : jar' = ForgetSite(site, p)
      BY <2>2 DEF SetSitePolicy
    <3>2. p \in Policies
      BY DEF Policies
    <3> QED
      BY <1>1, <3>1, <3>2, PruneFacts
  <2>3. CASE SetGlobalPolicy
    BY <1>1, <2>3, PruneFacts
  <2>4. CASE jar' = EmptyJar
    BY <2>4 DEF EmptyJar
  <2>5. CASE jar' = jar
    BY <2>5
  <2> QED
    BY <1>1, <2>1, <2>2, <2>3, <2>4, <2>5
    DEF Next, ChainStep, CookieOffer, PolicyChange, StartLoad, HopAnswers, HopFails,
        FollowRedirect, AbandonRedirect, FinishLoad, FinishFails, RefuseCookie,
        SetSitePolicyOtherCase, ClearCookies, Restart, vars
<1>2. TypeOK /\ [Next]_vars => [Entry]_vars
  BY <1>1
<1> QED
  BY <1>2, TypeCorrect, PTL DEF CookiesEnterAsPermitted, Spec

-----------------------------------------------------------------------------
(***************************************************************************)
(* Restarts.                                                               *)
(***************************************************************************)
\* What was last confirmed with the database on disk is what that database holds.
ConfirmedInv ==
  \A k \in Keys : confirmed[k] # None => saved[k] = confirmed[k]

\* Every step keeps the answers and the rows together.
LEMMA ConfirmedStep ==
  ASSUME TypeOK, ~AnyCase, ConfirmedInv, [Next]_vars
  PROVE  ConfirmedInv'
<1>1. ASSUME NEW k \in Keys, NEW p \in Policies, WriteThrough(k, p)
      PROVE  ConfirmedInv'
  BY <1>1 DEF WriteThrough, ConfirmedInv, TypeOK
<1>2. CASE SetSitePolicy
  <2>1. PICK s \in Sites, p \in {"Session", "Reject"} : WriteThrough(s, p)
    BY <1>2 DEF SetSitePolicy
  <2>2. s \in Keys /\ p \in Policies
    BY DEF Keys, Policies
  <2> QED
    BY <1>1, <2>1, <2>2
<1>3. CASE SetGlobalPolicy
  <2>1. PICK scope \in Scopes, p \in DefaultPolicies : WriteThrough(scope, p)
    BY <1>3 DEF SetGlobalPolicy
  <2>2. scope \in Keys /\ p \in Policies
    BY PolicyAssumption DEF Keys
  <2> QED
    BY <1>1, <2>1, <2>2
<1>4. CASE UNCHANGED <<saved, confirmed>>
  BY <1>4 DEF ConfirmedInv
<1> QED
  BY <1>2, <1>3, <1>4
  DEF Next, ChainStep, CookieOffer, PolicyChange, StartLoad, HopAnswers, HopFails,
      FollowRedirect, AbandonRedirect, FinishLoad, FinishFails, AcceptCookie, RefuseCookie,
      Offered, SetSitePolicyOtherCase, ClearCookies, Restart, policy, vars

\* A start with the database on disk puts in force what was last confirmed with it, the
\* rows it cannot read excepted and whatever happened to sessions or writes in between;
\* sites must have been typed as addresses spell them.
THEOREM SurvivalCorrect ==
  ASSUME ~AnyCase PROVE Spec => ConfirmedPoliciesSurvive
<1> DEFINE Survival ==
      session' # session /\ store' = "disk" =>
        \A k \in Keys \ unread' : confirmed[k] # None => live'[k] = confirmed[k]
<1>1. Init => ConfirmedInv
  BY DEF Init, NoRows, ConfirmedInv
<1>2. TypeOK /\ ConfirmedInv /\ [Next]_vars => ConfirmedInv'
  BY ConfirmedStep
<1>3. ASSUME TypeOK, ConfirmedInv, [Next]_vars PROVE Survival
  <2>1. CASE Restart
    <3> SUFFICES ASSUME store' = "disk", NEW k \in Keys \ unread', confirmed[k] # None
                 PROVE  live'[k] = confirmed[k]
      OBVIOUS
    <3>1. live' = ResolvedPolicies([c \in Keys |-> IF c \in unread' THEN None ELSE saved[c]])
      BY <2>1 DEF Restart, OpenStore
    <3>2. saved[k] = confirmed[k]
      BY <1>3 DEF ConfirmedInv
    <3> QED
      BY <3>1, <3>2 DEF ResolvedPolicies
  <2>2. CASE session' = session
    BY <2>2
  <2> QED
    BY <1>3, <2>1, <2>2
    DEF Next, ChainStep, CookieOffer, PolicyChange, StartLoad, HopAnswers, HopFails,
        FollowRedirect, AbandonRedirect, FinishLoad, FinishFails, AcceptCookie,
        RefuseCookie, Offered, SetSitePolicy, SetSitePolicyOtherCase, SetGlobalPolicy,
        ClearCookies, policy, vars
<1>4. TypeOK /\ ConfirmedInv /\ [Next]_vars => [Survival]_vars
  BY <1>3
<1> QED
  BY <1>1, <1>2, <1>4, TypeCorrect, PTL DEF ConfirmedPoliciesSurvive, Spec

-----------------------------------------------------------------------------
(***************************************************************************)
(* The safety half of the load task's contract: whatever a step does to    *)
(* the chain, the count of loads and the page, it is one of the contract's *)
(* actions or none of them moves.                                          *)
(***************************************************************************)

\* What a step does to the chain, the count of loads and the page.
LEMMA ChainMoves ==
  ASSUME TypeOK, [Next]_vars
  PROVE  \/ chain = None /\ chain' # None /\ loads' = loads + 1 /\ page' = page
         \/ chain # None /\ chain' = None /\ loads' = loads /\ page' = loads
         \/ loads' = loads /\ page' = page /\ (chain = None => chain' = None)
         \/ loads' = loads /\ page' = None /\ chain' = None
<1>1. CASE StartLoad
  <2>1. chain' \in Chain
    BY <1>1, CountAssumption DEF StartLoad, Chain
  <2> QED
    BY <1>1, <2>1, ChainAssumption DEF StartLoad
<1>2. CASE FinishLoad
  BY <1>2 DEF FinishLoad, EndChain, Running
<1>3. CASE HopAnswers \/ HopFails \/ FollowRedirect \/ AbandonRedirect \/ FinishFails
  BY <1>3 DEF HopAnswers, HopFails, FollowRedirect, AbandonRedirect, FinishFails, Running
<1>4. CASE CookieOffer
  BY <1>4 DEF CookieOffer, AcceptCookie, RefuseCookie, Offered, Running
<1>5. CASE PolicyChange
  BY <1>5 DEF PolicyChange, SetSitePolicy, SetSitePolicyOtherCase, SetGlobalPolicy,
              ClearCookies
<1>6. CASE Restart
  BY <1>6 DEF Restart
<1>7. CASE UNCHANGED vars
  BY <1>7 DEF vars
<1> QED
  BY <1>1, <1>2, <1>3, <1>4, <1>5, <1>6, <1>7 DEF Next, ChainStep

\* The redirect chain keeps the contract the terminal relies on while the controller is
\* away: one chain at a time, and a chain that fails, or is abandoned in the middle of
\* its redirects, leaves the page as it was.  (That it ends is left to the model checker.)
THEOREM LoadTaskImplemented == Spec => Task!Safety
<1>1. Init => Task!Init
  BY DEF Init, Task!Init
<1>2. ASSUME TypeOK, [Next]_vars PROVE [Task!Next]_<<chain # None, loads, page>>
  BY <1>2, ChainMoves
  DEF Task!Next, Task!Start, Task!Succeed, Task!Fail, Task!Restart
<1> QED
  BY <1>1, <1>2, TypeCorrect, PTL DEF Spec, Task!Safety

=============================================================================
