---------------------------- MODULE ClientsProofs ----------------------------
(***************************************************************************)
(* Proofs about the parts that module Clients composes: signing in, notes  *)
(* and the traffic view.  A step of one part leaves the others alone, so   *)
(* each part has its own inductive invariant, for any number of tabs,      *)
(* accounts, requests, friends, visitors and pages.                        *)
(***************************************************************************)
EXTENDS Clients, FiniteSetTheorems, SequenceTheorems, WellFoundedInduction, TLAPS

-----------------------------------------------------------------------------
(* Signing in: the invariant.                                              *)

CodeRow == [user : 0 .. MaxUser, origin : Origin \cup {Absent}, live : BOOLEAN]
Cookie == [state : Nat, target : Allowed \cup {Absent}]
TabState == [pc : {"idle", "provider", "callback", "link", "find", "insertUser", "insertLink",
                   "session", "code", "landed", "delete", "exchange", "app"},
             provider : Provider \cup {Absent}, state : Nat,
             wanted : Origin \cup {Absent}, target : Origin \cup {Absent},
             account : Account \cup {Absent}, user : 0 .. MaxUser, code : 0 .. MaxCode]

\* What a tab carries at each step of its sign-in.
TabCarries(r) ==
  /\ r.pc \in {"provider", "callback"} =>
       r.provider \in Provider /\ r.state > 0 /\ r.state <= state
  /\ r.pc \in {"callback", "link", "find", "insertUser", "insertLink", "session", "code"} =>
       r.account \in Account
  /\ r.pc = "insertLink" => r.user \in User
  /\ r.pc \in {"session", "code", "landed", "delete", "exchange", "app"} /\ r.account # Absent
       => r.user \in User
  /\ r.pc \in {"landed", "delete", "exchange", "app"} => r.code \in 1 .. issued

SignInTypes ==
  /\ users \in [User -> Address \cup {Absent}]
  /\ links \in [Account -> 0 .. MaxUser]
  /\ codes \in [Code -> CodeRow] /\ codeLock \in [Code -> Tab \cup {Absent}]
  /\ state \in Nat /\ issued \in 0 .. MaxCode
  /\ cookie \in [Provider -> Cookie] /\ signedIn \in 0 .. MaxUser
  /\ tab \in [Tab -> TabState]
  /\ \A t \in Tab : TabCarries(tab[t])
  /\ \A x \in opened : x.code \in 1 .. issued

\* The cookie that answers to a tab's state is the one its own start has set.
CookiesAnswer ==
  /\ LandsWhereItStarted
  /\ \A t \in Tab :
       /\ tab[t].pc \in {"provider", "callback"}
       /\ cookie[tab[t].provider].state = tab[t].state
       => cookie[tab[t].provider].target = Resolved(tab[t].wanted)
  /\ \A p \in Provider : cookie[p].state <= state

\* One tab at a time has a code in hand, and a code that was spent is dead.
CodesInHand ==
  /\ \A t \in Tab :
       /\ tab[t].pc = "delete" => codeLock[tab[t].code] = t
       /\ tab[t].pc = "exchange" => ~codes[tab[t].code].live
  /\ \A t, u \in Tab :
       /\ tab[t].pc \in {"delete", "exchange"} /\ tab[u].pc \in {"delete", "exchange"}
       /\ tab[t].code = tab[u].code
       => t = u
  /\ \A x \in opened :
       /\ ~codes[x.code].live
       /\ \A t \in Tab : tab[t].pc \in {"delete", "exchange"} => tab[t].code # x.code
  /\ CodesAreSpentOnce

\* Users are made in order and keep their addresses, which are all different;
\* an account whose address is in lower case belongs to the user who has it.
UsersKeepTheirAddresses ==
  /\ \E n \in 0 .. MaxUser : \A u \in User : HasRow(u) <=> u <= n
  /\ \A u, v \in User : HasRow(u) /\ users[u] = users[v] => u = v
  /\ \A a \in Account : Linked(a) /\ AddressOf[a] = Lower[AddressOf[a]] =>
       users[links[a]] = AddressOf[a]
  /\ \A t \in Tab :
       /\ tab[t].pc = "insertLink"
       /\ AddressOf[tab[t].account] = Lower[AddressOf[tab[t].account]]
       => users[tab[t].user] = AddressOf[tab[t].account]

SignInInv ==
  /\ SignInTypes /\ CookiesAnswer /\ CodesInHand
  /\ UsersKeepTheirAddresses /\ AccountsSignInThemselves

-----------------------------------------------------------------------------
(* Signing in: the steps.                                                  *)

LEMMA ResolvedIsAllowed ==
  ASSUME NEW target
  PROVE  Resolved(target) \in Allowed \cup {Absent}
  BY DEF Resolved

LEMMA NextUserIsNew ==
  ASSUME SignInTypes, UsersKeepTheirAddresses
  PROVE  /\ NextUser \in Nat \ {0}
         /\ NextUser \in User => ~HasRow(NextUser)
         /\ NextUser \in User => \A u \in User : HasRow(u) <=> u <= NextUser - 1
  <1>1. PICK n \in 0 .. MaxUser : \A u \in User : HasRow(u) <=> u <= n
    BY DEF UsersKeepTheirAddresses
  <1>2. {u \in User : HasRow(u)} = 1 .. n
    BY <1>1, SignInConstants DEF User
  <1>3. Cardinality(1 .. n) = n
    BY <1>1, SignInConstants, FS_Interval
  <1>4. NextUser = n + 1
    BY <1>2, <1>3 DEF NextUser
  <1> QED
    BY <1>1, <1>4, SignInConstants DEF User

(***************************************************************************)
(* A step of tab t makes it r.  One lemma for each part of the invariant   *)
(* says when that part is kept.                                            *)
(***************************************************************************)
Becomes(t, r) == r \in TabState /\ tab' = [tab EXCEPT ![t] = r]

Landing == {"link", "find", "insertUser", "insertLink", "session", "code", "landed",
            "delete", "exchange", "app"}
TabLands(r) ==
  /\ r.pc \in Landing => r.target = Resolved(r.wanted)
  /\ r.pc \in {"provider", "callback"} /\ cookie[r.provider].state = r.state
       => cookie[r.provider].target = Resolved(r.wanted)

TabFinds(r) ==
  r.pc = "insertLink" /\ AddressOf[r.account] = Lower[AddressOf[r.account]]
    => users[r.user] = AddressOf[r.account]

TabSignsIn(r) ==
  r.pc \in {"session", "code", "landed", "delete", "exchange", "app"} /\ r.account # Absent
    => /\ links[r.account] = r.user
       /\ r.pc \in {"landed", "delete"} /\ codes[r.code] # NoCode => codes[r.code].user = r.user

LEMMA OtherTabs ==
  ASSUME SignInTypes, NEW t \in Tab, NEW r, Becomes(t, r)
  PROVE  /\ tab' \in [Tab -> TabState]
         /\ tab'[t] = r /\ \A u \in Tab : tab'[u] = IF u = t THEN r ELSE tab[u]
  BY DEF SignInTypes, Becomes

LEMMA TypesKept ==
  ASSUME SignInTypes, NEW t \in Tab, NEW r, Becomes(t, r), TabCarries(r)',
         users' \in [User -> Address \cup {Absent}], links' \in [Account -> 0 .. MaxUser],
         codes' \in [Code -> CodeRow], codeLock' \in [Code -> Tab \cup {Absent}],
         state' \in Nat, state <= state',
         issued' \in 0 .. MaxCode, issued <= issued',
         cookie' \in [Provider -> Cookie], signedIn' \in 0 .. MaxUser,
         \A x \in opened' : x.code \in 1 .. issued'
  PROVE  SignInTypes'
  <1>1. ASSUME NEW u \in Tab
        PROVE  TabCarries(tab[u])'
    <2>1. CASE u = t
      BY <2>1, OtherTabs
    <2>2. CASE u # t
      <3>1. TabCarries(tab[u]) /\ tab'[u] = tab[u] /\ tab[u] \in TabState
        BY <2>2, OtherTabs DEF SignInTypes
      <3>2. tab[u].state \in Nat /\ tab[u].code \in 0 .. MaxCode
        BY <3>1 DEF TabState
      <3> QED
        BY <3>1, <3>2, SignInConstants DEF TabCarries, SignInTypes
    <2> QED
      BY <2>1, <2>2
  <1> QED
    BY <1>1, OtherTabs DEF SignInTypes

LEMMA CookiesKept ==
  ASSUME SignInTypes, CookiesAnswer, NEW t \in Tab, NEW r, Becomes(t, r),
         TabLands(r), state' = state, TabCarries(r),
         cookie' = cookie \/ \E p \in Provider : cookie' = [cookie EXCEPT ![p] = NoCookie]
  PROVE  CookiesAnswer'
  <1>1. \A p \in Provider : cookie'[p] = cookie[p] \/ cookie'[p] = NoCookie
    BY DEF SignInTypes
  <1>2. \A u \in Tab : TabLands(tab[u])'
    <2>1. ASSUME NEW u \in Tab
          PROVE  TabLands(tab[u])'
      <3>1. PICK q : q = tab'[u] /\ (q = r \/ q = tab[u])
        BY OtherTabs
      <3>2. TabLands(q) /\ TabCarries(q)
        BY <3>1 DEF CookiesAnswer, LandsWhereItStarted, TabLands, Landing, SignInTypes
      <3>3. /\ q.pc \in Landing => q.target = Resolved(q.wanted)
            /\ q.pc \in {"provider", "callback"} =>
                 /\ q.provider \in Provider /\ q.state > 0
                 /\ cookie[q.provider].state = q.state =>
                      cookie[q.provider].target = Resolved(q.wanted)
        BY <3>2 DEF TabLands, TabCarries
      <3>4. q.pc \in {"provider", "callback"} /\ cookie'[q.provider].state = q.state
              => cookie'[q.provider].target = Resolved(q.wanted)
        BY <1>1, <3>3 DEF NoCookie
      <3> QED
        BY <3>1, <3>3, <3>4 DEF TabLands, Resolved
    <2> QED
      BY <2>1
  <1>3. \A p \in Provider : cookie'[p].state <= state
    BY <1>1 DEF CookiesAnswer, NoCookie, SignInTypes
  <1> QED
    BY <1>2, <1>3 DEF CookiesAnswer, LandsWhereItStarted, TabLands, Landing

LEMMA HandsKept ==
  ASSUME SignInTypes, CodesInHand, NEW t \in Tab, NEW r, Becomes(t, r),
         r.pc \notin {"delete", "exchange"}, UNCHANGED <<codes, codeLock, opened>>
  PROVE  CodesInHand'
  BY OtherTabs DEF CodesInHand, CodesAreSpentOnce

LEMMA AddressesKept ==
  ASSUME SignInTypes, UsersKeepTheirAddresses, NEW t \in Tab, NEW r, Becomes(t, r),
         TabFinds(r), UNCHANGED <<users, links>>
  PROVE  UsersKeepTheirAddresses'
  <1>1. ASSUME NEW u \in Tab
        PROVE  TabFinds(tab[u])'
    <2>1. PICK q : q = tab'[u] /\ (q = r \/ q = tab[u])
      BY OtherTabs
    <2>2. TabFinds(q)
      BY <2>1 DEF UsersKeepTheirAddresses, TabFinds
    <2> QED
      BY <2>1, <2>2 DEF TabFinds
  <1> QED
    BY <1>1 DEF UsersKeepTheirAddresses, HasRow, Linked, TabFinds

LEMMA AccountsKept ==
  ASSUME SignInTypes, AccountsSignInThemselves, NEW t \in Tab, NEW r, Becomes(t, r),
         TabSignsIn(r), UNCHANGED <<links, codes>>
  PROVE  AccountsSignInThemselves'
  <1>1. ASSUME NEW u \in Tab
        PROVE  TabSignsIn(tab[u])'
    <2>1. PICK q : q = tab'[u] /\ (q = r \/ q = tab[u])
      BY OtherTabs
    <2>2. TabSignsIn(q)
      BY <2>1 DEF AccountsSignInThemselves, TabSignsIn
    <2> QED
      BY <2>1, <2>2 DEF TabSignsIn
  <1> QED
    BY <1>1 DEF AccountsSignInThemselves, TabSignsIn

\* A tab that goes on without a code in hand, and changes no table.
LEMMA TabTurns ==
  ASSUME SignInInv, NEW t \in Tab, NEW r, Becomes(t, r),
         TabCarries(r), TabLands(r), TabFinds(r), TabSignsIn(r),
         r.pc \notin {"delete", "exchange"},
         cookie' = cookie \/ \E p \in Provider : cookie' = [cookie EXCEPT ![p] = NoCookie],
         signedIn' \in 0 .. MaxUser,
         UNCHANGED <<users, links, codes, codeLock, state, issued, opened>>
  PROVE  SignInInv'
  <1>1. SignInTypes'
    <2>1. cookie' \in [Provider -> Cookie]
      BY DEF SignInInv, SignInTypes, NoCookie, Cookie
    <2>2. TabCarries(r)'
      BY DEF TabCarries
    <2>3. state' \in Nat /\ state <= state' /\ issued' \in 0 .. MaxCode /\ issued <= issued'
      BY SignInConstants DEF SignInInv, SignInTypes
    <2> QED
      BY <2>1, <2>2, <2>3, TypesKept DEF SignInInv, SignInTypes
  <1>2. CookiesAnswer'
    BY CookiesKept DEF SignInInv
  <1>3. CodesInHand'
    BY HandsKept DEF SignInInv
  <1>4. UsersKeepTheirAddresses'
    BY AddressesKept DEF SignInInv
  <1>5. AccountsSignInThemselves'
    BY AccountsKept DEF SignInInv
  <1> QED
    BY <1>1, <1>2, <1>3, <1>4, <1>5 DEF SignInInv

LEMMA IdleTabIsFine ==
  ASSUME SignInTypes
  PROVE  /\ IdleTab \in TabState /\ TabCarries(IdleTab) /\ TabLands(IdleTab)
         /\ TabFinds(IdleTab) /\ TabSignsIn(IdleTab)
         /\ IdleTab.pc \notin {"delete", "exchange"}
  <1>1. IdleTab \in TabState
    BY SignInConstants DEF IdleTab, TabState
  <1>2. TabCarries(IdleTab) /\ TabFinds(IdleTab) /\ TabLands(IdleTab) /\ TabSignsIn(IdleTab)
        /\ IdleTab.pc \notin {"delete", "exchange"}
    BY DEF IdleTab, TabCarries, TabFinds, TabLands, TabSignsIn, Landing
  <1> QED
    BY <1>1, <1>2

\* What holds of each tab, in one place.
LEMMA TabFacts ==
  ASSUME SignInInv, NEW t \in Tab
  PROVE  /\ tab[t] \in TabState /\ TabCarries(tab[t]) /\ TabLands(tab[t])
         /\ TabFinds(tab[t]) /\ TabSignsIn(tab[t]) /\ SignInTypes
  BY DEF SignInInv, SignInTypes, CookiesAnswer, LandsWhereItStarted, TabLands, Landing,
         UsersKeepTheirAddresses, TabFinds, AccountsSignInThemselves, TabSignsIn

LEMMA IdleTabKeepsInv ==
  ASSUME SignInInv, NEW t \in Tab, tab' = [tab EXCEPT ![t] = IdleTab],
         cookie' = cookie \/ \E p \in Provider : cookie' = [cookie EXCEPT ![p] = NoCookie],
         signedIn' \in 0 .. MaxUser,
         UNCHANGED <<users, links, codes, codeLock, state, issued, opened>>
  PROVE  SignInInv'
  <1>1. SignInTypes
    BY DEF SignInInv
  <1>2. Becomes(t, IdleTab)
    BY <1>1, IdleTabIsFine DEF Becomes
  <1> QED
    BY <1>1, <1>2, IdleTabIsFine, TabTurns

LEMMA AuthenticateKeepsInv ==
  ASSUME SignInInv, NEW t \in Tab, NEW a \in Account, Authenticate(t, a)
  PROVE  SignInInv'
  <1>1. PICK r \in TabState : r = [tab[t] EXCEPT !.pc = "callback", !.account = a]
    BY TabFacts DEF TabState
  <1>2. /\ tab[t].pc = "provider" /\ tab[t] \in TabState /\ TabCarries(tab[t]) /\ TabLands(tab[t])
        /\ r.pc = "callback" /\ r.account = a /\ r.provider = tab[t].provider
        /\ r.state = tab[t].state /\ r.wanted = tab[t].wanted
    BY <1>1, TabFacts DEF Authenticate, TabState
  <1>3. Becomes(t, r) /\ UNCHANGED <<tables, codeVars, browser, opened>>
    BY <1>1 DEF Becomes, Authenticate
  <1>4. TabCarries(r) /\ TabLands(r) /\ TabFinds(r) /\ TabSignsIn(r)
    BY <1>2 DEF TabCarries, TabLands, TabFinds, TabSignsIn, Landing
  <1>5. signedIn \in 0 .. MaxUser
    BY DEF SignInInv, SignInTypes
  <1> QED
    BY <1>2, <1>3, <1>4, <1>5, TabTurns DEF tables, codeVars, browser

LEMMA RestoreGrantKeepsInv ==
  ASSUME SignInInv, NEW t \in Tab, RestoreGrant(t)
  PROVE  SignInInv'
  <1>1. /\ tab[t].pc = "callback" /\ tab[t] \in TabState /\ TabCarries(tab[t]) /\ TabLands(tab[t])
        /\ tab[t].provider \in Provider /\ cookie[tab[t].provider].state = tab[t].state
        /\ cookie[tab[t].provider].target \in Allowed \cup {Absent}
    BY TabFacts DEF RestoreGrant, Restores, TabCarries, SignInTypes, Cookie
  <1>2. PICK r \in TabState :
          r = [tab[t] EXCEPT !.pc = "link", !.target = cookie[tab[t].provider].target]
    BY <1>1, SignInConstants DEF TabState
  <1>3. /\ r.pc = "link" /\ r.account = tab[t].account /\ r.wanted = tab[t].wanted
        /\ r.target = cookie[tab[t].provider].target
    BY <1>1, <1>2 DEF TabState
  <1>4. Becomes(t, r) /\ UNCHANGED <<tables, codeVars, browser, opened>>
    BY <1>2 DEF Becomes, RestoreGrant
  <1>5. TabCarries(r) /\ TabLands(r) /\ TabFinds(r) /\ TabSignsIn(r)
    BY <1>1, <1>3 DEF TabCarries, TabLands, TabFinds, TabSignsIn, Landing
  <1>6. signedIn \in 0 .. MaxUser
    BY DEF SignInInv, SignInTypes
  <1> QED
    BY <1>3, <1>4, <1>5, <1>6, TabTurns DEF tables, codeVars, browser

LEMMA FindLinkKeepsInv ==
  ASSUME SignInInv, NEW t \in Tab, FindLink(t)
  PROVE  SignInInv'
  <1>1. /\ tab[t].pc = "link" /\ tab[t] \in TabState /\ TabCarries(tab[t]) /\ TabLands(tab[t])
        /\ tab[t].account \in Account /\ links[tab[t].account] \in 0 .. MaxUser
        /\ signedIn \in 0 .. MaxUser
    BY TabFacts DEF FindLink, TabCarries, SignInTypes
  <1>2. UNCHANGED <<tables, codeVars, browser, opened>>
    BY DEF FindLink
  <1>3. CASE links[tab[t].account] # 0
    <2>1. PICK r \in TabState :
            r = [tab[t] EXCEPT !.pc = "session", !.user = links[tab[t].account]]
      BY <1>1 DEF TabState
    <2>2. /\ r.pc = "session" /\ r.account = tab[t].account /\ r.wanted = tab[t].wanted
          /\ r.target = tab[t].target /\ r.user = links[r.account]
          /\ r.user \in User
      BY <1>1, <1>3, <2>1, SignInConstants DEF TabState, User
    <2>3. Becomes(t, r)
      BY <1>3, <2>1 DEF Becomes, FindLink
    <2>4. TabCarries(r) /\ TabLands(r) /\ TabFinds(r) /\ TabSignsIn(r)
      BY <1>1, <2>2 DEF TabCarries, TabLands, TabFinds, TabSignsIn, Landing
    <2> QED
      BY <1>1, <1>2, <2>2, <2>3, <2>4, TabTurns DEF tables, codeVars, browser
  <1>4. CASE links[tab[t].account] = 0
    <2>1. PICK r \in TabState : r = [tab[t] EXCEPT !.pc = "find"]
      BY <1>1 DEF TabState
    <2>2. /\ r.pc = "find" /\ r.account = tab[t].account /\ r.wanted = tab[t].wanted
          /\ r.target = tab[t].target
      BY <1>1, <2>1 DEF TabState
    <2>3. Becomes(t, r)
      BY <1>4, <2>1 DEF Becomes, FindLink
    <2>4. TabCarries(r) /\ TabLands(r) /\ TabFinds(r) /\ TabSignsIn(r)
      BY <1>1, <2>2 DEF TabCarries, TabLands, TabFinds, TabSignsIn, Landing
    <2> QED
      BY <1>1, <1>2, <2>2, <2>3, <2>4, TabTurns DEF tables, codeVars, browser
  <1> QED
    BY <1>3, <1>4

LEMMA FindUserKeepsInv ==
  ASSUME SignInInv, NEW t \in Tab, FindUser(t)
  PROVE  SignInInv'
  <1> DEFINE found == {u \in User : users[u] = Lower[AddressOf[tab[t].account]]}
  <1>1. /\ tab[t].pc = "find" /\ tab[t] \in TabState /\ TabCarries(tab[t]) /\ TabLands(tab[t])
        /\ tab[t].account \in Account /\ signedIn \in 0 .. MaxUser
    BY TabFacts DEF FindUser, TabCarries, SignInTypes
  <1>2. UNCHANGED <<tables, codeVars, browser, opened>>
    BY DEF FindUser
  <1>3. ASSUME NEW u \in found, tab' = [tab EXCEPT ![t].pc = "insertLink", ![t].user = u]
        PROVE  SignInInv'
    <2>0. u \in User /\ u \in 0 .. MaxUser /\ users[u] = Lower[AddressOf[tab[t].account]]
      BY SignInConstants DEF User
    <2>1. PICK r \in TabState : r = [tab[t] EXCEPT !.pc = "insertLink", !.user = u]
      BY <1>1, <2>0 DEF TabState
    <2>2. /\ r.pc = "insertLink" /\ r.account = tab[t].account /\ r.wanted = tab[t].wanted
          /\ r.target = tab[t].target /\ r.user = u
      BY <1>1, <2>1 DEF TabState
    <2>3. Becomes(t, r)
      BY <1>3, <2>1 DEF Becomes
    <2>4. TabCarries(r) /\ TabLands(r) /\ TabFinds(r) /\ TabSignsIn(r)
      BY <1>1, <2>0, <2>2 DEF TabCarries, TabLands, TabFinds, TabSignsIn, Landing
    <2> QED
      BY <1>1, <1>2, <2>2, <2>3, <2>4, TabTurns DEF tables, codeVars, browser
  <1>4. CASE TabTo(t, "insertUser")
    <2>1. PICK r \in TabState : r = [tab[t] EXCEPT !.pc = "insertUser"]
      BY <1>1 DEF TabState
    <2>2. /\ r.pc = "insertUser" /\ r.account = tab[t].account /\ r.wanted = tab[t].wanted
          /\ r.target = tab[t].target
      BY <1>1, <2>1 DEF TabState
    <2>3. Becomes(t, r)
      BY <1>4, <2>1 DEF Becomes, TabTo
    <2>4. TabCarries(r) /\ TabLands(r) /\ TabFinds(r) /\ TabSignsIn(r)
      BY <1>1, <2>2 DEF TabCarries, TabLands, TabFinds, TabSignsIn, Landing
    <2> QED
      BY <1>1, <1>2, <2>2, <2>3, <2>4, TabTurns DEF tables, codeVars, browser
  <1> QED
    BY <1>3, <1>4 DEF FindUser

LEMMA OneCookieIsCleared ==
  ASSUME SignInTypes, NEW t, ClearCookie(t)
  PROVE  cookie' = cookie \/ \E p \in Provider : cookie' = [cookie EXCEPT ![p] = NoCookie]
  <1>1. CASE tab[t].provider \in Provider
    BY <1>1 DEF ClearCookie
  <1>2. CASE tab[t].provider \notin Provider
    BY <1>2 DEF ClearCookie, SignInTypes
  <1> QED
    BY <1>1, <1>2

LEMMA OpenSessionKeepsInv ==
  ASSUME SignInInv, NEW t \in Tab, OpenSession(t)
  PROVE  SignInInv'
  <1>1. /\ tab[t].pc = "session" /\ tab[t] \in TabState /\ TabCarries(tab[t]) /\ TabLands(tab[t])
        /\ TabSignsIn(tab[t]) /\ tab[t].account \in Account /\ tab[t].user \in 0 .. MaxUser
        /\ signedIn \in 0 .. MaxUser
    BY TabFacts DEF OpenSession, TabCarries, SignInTypes, TabState
  <1>2. UNCHANGED <<users, links, codes, codeLock, state, issued, opened>>
    BY DEF OpenSession, codeVars
  <1>3. CASE tab[t].target = Absent
    <2>1. cookie' = cookie \/ \E p \in Provider : cookie' = [cookie EXCEPT ![p] = NoCookie]
      BY <1>3, OneCookieIsCleared DEF OpenSession, SignInInv
    <2>2. signedIn' \in 0 .. MaxUser /\ tab' = [tab EXCEPT ![t] = IdleTab]
      BY <1>1, <1>3 DEF OpenSession
    <2> QED
      BY <1>2, <2>1, <2>2, IdleTabKeepsInv
  <1>4. CASE tab[t].target # Absent
    <2>1. PICK r \in TabState : r = [tab[t] EXCEPT !.pc = "code"]
      BY <1>1 DEF TabState
    <2>2. /\ r.pc = "code" /\ r.account = tab[t].account /\ r.wanted = tab[t].wanted
          /\ r.target = tab[t].target /\ r.user = tab[t].user
      BY <1>1, <2>1 DEF TabState
    <2>3. Becomes(t, r) /\ signedIn' \in 0 .. MaxUser /\ cookie' = cookie
      BY <1>1, <1>4, <2>1 DEF Becomes, OpenSession, TabTo
    <2>4. TabCarries(r) /\ TabLands(r) /\ TabFinds(r) /\ TabSignsIn(r)
      BY <1>1, <2>2 DEF TabCarries, TabLands, TabFinds, TabSignsIn, Landing
    <2> QED
      BY <1>2, <2>2, <2>3, <2>4, TabTurns
  <1> QED
    BY <1>3, <1>4

\* Refusals, failures and the end of a tab.
LEMMA EndKeepsInv ==
  ASSUME SignInInv, NEW t \in Tab, RefuseState(t) \/ CallbackFails(t) \/ Leave(t)
  PROVE  SignInInv'
  <1>1. /\ tab' = [tab EXCEPT ![t] = IdleTab] /\ signedIn' = signedIn
        /\ UNCHANGED <<users, links, codes, codeLock, state, issued, opened>>
    BY DEF RefuseState, CallbackFails, Leave, tables, codeVars, browser
  <1>2. cookie' = cookie \/ ClearCookie(t)
    BY DEF RefuseState, CallbackFails, Leave, browser
  <1>3. cookie' = cookie \/ \E p \in Provider : cookie' = [cookie EXCEPT ![p] = NoCookie]
    BY <1>2, OneCookieIsCleared DEF SignInInv
  <1>4. signedIn' \in 0 .. MaxUser
    BY <1>1 DEF SignInInv, SignInTypes
  <1> QED
    BY <1>1, <1>3, <1>4, IdleTabKeepsInv

LEMMA DuplicateKeepsInv ==
  ASSUME SignInInv, NEW t \in Tab, NEW u \in Tab, Duplicate(t, u)
  PROVE  SignInInv'
  <1>1. PICK r \in TabState : r = tab[t]
    BY TabFacts
  <1>2. TabCarries(r) /\ TabLands(r) /\ TabFinds(r) /\ TabSignsIn(r)
    BY <1>1, TabFacts
  <1>3. /\ Becomes(u, r) /\ r.pc = "landed"
        /\ UNCHANGED <<tables, codeVars, browser, opened>> /\ signedIn \in 0 .. MaxUser
    BY <1>1 DEF Duplicate, Becomes, SignInInv, SignInTypes
  <1> QED
    BY <1>2, <1>3, TabTurns DEF tables, codeVars, browser

\* Every start has a number of its own.
LEMMA StartSignInKeepsInv ==
  ASSUME SignInInv, NEW t \in Tab, NEW p \in Provider, NEW target \in Origin \cup {Absent},
         StartSignIn(t, p, target)
  PROVE  SignInInv'
  <1>1. /\ SignInTypes /\ CookiesAnswer /\ state' = state + 1 /\ state \in Nat
        /\ cookie' = [cookie EXCEPT ![p] = Grant(state + 1, target)]
        /\ UNCHANGED <<users, links, codes, codeLock, issued, signedIn, opened>>
    BY DEF SignInInv, SignInTypes, StartSignIn, tables, codeVars
  <1>2. PICK r \in TabState : r = [IdleTab EXCEPT !.pc = "provider", !.provider = p,
                                           !.state = state + 1, !.wanted = target]
    <2>1. state + 1 \in Nat /\ IdleTab \in TabState
      BY <1>1, IdleTabIsFine
    <2> QED
      BY <2>1 DEF TabState
  <1>3. /\ Becomes(t, r) /\ r.pc = "provider" /\ r.provider = p
        /\ r.state = state + 1 /\ r.wanted = target
    BY <1>2 DEF Becomes, StartSignIn, IdleTab
  <1>4. Grant(state + 1, target) \in Cookie /\ Grant(state + 1, target).state = state + 1
        /\ Grant(state + 1, target).target = Resolved(target)
    BY <1>1, ResolvedIsAllowed DEF Grant, Cookie
  <1>5. cookie' \in [Provider -> Cookie]
        /\ \A q \in Provider : cookie'[q] = IF q = p THEN Grant(state + 1, target) ELSE cookie[q]
    BY <1>1, <1>4 DEF SignInTypes
  <1>6. SignInTypes'
    <2>1. TabCarries(r)'
      BY <1>1, <1>3 DEF TabCarries
    <2>2. state' \in Nat /\ state <= state' /\ issued' \in 0 .. MaxCode /\ issued <= issued'
      BY <1>1, SignInConstants DEF SignInTypes
    <2> QED
      BY <1>1, <1>3, <1>5, <2>1, <2>2, TypesKept DEF SignInTypes
  <1>7. CookiesAnswer'
    <2>1. ASSUME NEW u \in Tab
          PROVE  TabLands(tab[u])'
      <3>1. CASE u = t
        <4>1. tab'[u] = r
          BY <1>1, <1>3, <3>1, OtherTabs
        <4> QED
          BY <1>3, <1>4, <1>5, <4>1 DEF TabLands, Landing, Resolved
      <3>2. CASE u # t
        <4>1. tab'[u] = tab[u] /\ TabCarries(tab[u]) /\ TabLands(tab[u]) /\ tab[u] \in TabState
          BY <1>1, <1>3, <3>2, OtherTabs, TabFacts
        <4>2. tab[u].pc \in {"provider", "callback"} =>
                tab[u].provider \in Provider /\ tab[u].state # state + 1
          BY <1>1, <4>1 DEF TabCarries, TabState
        <4> QED
          BY <1>4, <1>5, <4>1, <4>2 DEF TabLands, Resolved
      <3> QED
        BY <3>1, <3>2
    <2>2. \A q \in Provider : cookie'[q].state <= state'
      <3>1. \A q \in Provider : cookie[q].state <= state /\ cookie[q].state \in Nat
        BY <1>1 DEF CookiesAnswer, SignInTypes, Cookie
      <3> QED
        BY <1>1, <1>4, <1>5, <3>1
    <2> QED
      BY <2>1, <2>2 DEF CookiesAnswer, LandsWhereItStarted, TabLands, Landing
  <1>8. CodesInHand'
    BY <1>1, <1>3, HandsKept DEF SignInInv
  <1>9. UsersKeepTheirAddresses' /\ AccountsSignInThemselves'
    <2>1. TabFinds(r) /\ TabSignsIn(r)
      BY <1>3 DEF TabFinds, TabSignsIn
    <2> QED
      BY <1>1, <1>3, <2>1, AddressesKept, AccountsKept DEF SignInInv
  <1> QED
    BY <1>6, <1>7, <1>8, <1>9 DEF SignInInv

LEMMA LapseCookieKeepsInv ==
  ASSUME SignInInv, NEW p \in Provider, LapseCookie(p)
  PROVE  SignInInv'
  <1>1. /\ SignInTypes /\ cookie' = [cookie EXCEPT ![p] = NoCookie]
        /\ UNCHANGED <<users, links, codes, codeLock, state, issued, signedIn, opened, tab>>
    BY DEF SignInInv, LapseCookie, tables, codeVars
  <1>2. cookie' \in [Provider -> Cookie]
        /\ \A q \in Provider : cookie'[q] = IF q = p THEN NoCookie ELSE cookie[q]
    BY <1>1 DEF SignInTypes, Cookie, NoCookie
  <1>3. SignInTypes'
    BY <1>1, <1>2 DEF SignInTypes, TabCarries
  <1>4. CookiesAnswer'
    <2>1. ASSUME NEW u \in Tab
          PROVE  TabLands(tab[u])'
      <3>1. TabCarries(tab[u]) /\ TabLands(tab[u])
        BY TabFacts
      <3>2. tab[u].pc \in {"provider", "callback"} =>
              tab[u].provider \in Provider /\ tab[u].state > 0
        BY <3>1 DEF TabCarries
      <3> QED
        BY <1>1, <1>2, <3>1, <3>2 DEF TabLands, NoCookie, Resolved
    <2>2. \A q \in Provider : cookie'[q].state <= state
      BY <1>1, <1>2 DEF SignInInv, CookiesAnswer, NoCookie, SignInTypes
    <2> QED
      BY <1>1, <2>1, <2>2 DEF CookiesAnswer, LandsWhereItStarted, TabLands, Landing
  <1>5. CodesInHand' /\ UsersKeepTheirAddresses' /\ AccountsSignInThemselves'
    BY <1>1 DEF SignInInv, CodesInHand, CodesAreSpentOnce, UsersKeepTheirAddresses, HasRow,
                Linked, AccountsSignInThemselves
  <1> QED
    BY <1>3, <1>4, <1>5 DEF SignInInv

\* The unique index: a new user's address is nobody else's, and the users there
\* are keep theirs.
LEMMA UserIsAdded ==
  ASSUME SignInTypes, UsersKeepTheirAddresses, NEW k \in User, k = NextUser,
         NEW address \in Address, ~Taken(address), users' = [users EXCEPT ![k] = address]
  PROVE  /\ users' \in [User -> Address \cup {Absent}] /\ users'[k] = address
         /\ \A u \in User : HasRow(u) => users'[u] = users[u]
         /\ \E n \in 0 .. MaxUser : \A u \in User : HasRow(u)' <=> u <= n
         /\ \A u, v \in User : HasRow(u)' /\ users'[u] = users'[v] => u = v
  <1>1. ~HasRow(k) /\ \A u \in User : HasRow(u) <=> u <= k - 1
    BY NextUserIsNew
  <1>2. k \in 1 .. MaxUser /\ address # Absent
    BY SignInConstants DEF User
  <1>3. users' \in [User -> Address \cup {Absent}]
        /\ \A u \in User : users'[u] = IF u = k THEN address ELSE users[u]
    BY DEF SignInTypes
  <1>4. \A u \in User : HasRow(u)' <=> u <= k
    <2>1. \A u \in User : HasRow(u)' <=> HasRow(u) \/ u = k
      BY <1>2, <1>3 DEF HasRow
    <2>2. \A u \in User : u <= k <=> u <= k - 1 \/ u = k
      BY <1>2 DEF User
    <2> QED
      BY <1>1, <2>1, <2>2
  <1>5. k \in 0 .. MaxUser
    BY <1>2, SignInConstants
  <1>6. \A u, v \in User : HasRow(u)' /\ users'[u] = users'[v] => u = v
    BY <1>1, <1>3 DEF UsersKeepTheirAddresses, HasRow, Taken
  <1> QED
    BY <1>1, <1>3, <1>4, <1>5, <1>6 DEF HasRow

\* Whose address is known has a row, and it stays theirs.
LEMMA KnownAddressesStay ==
  ASSUME SignInInv, \A u \in User : HasRow(u) => users'[u] = users[u]
  PROVE  /\ \A a \in Account : Linked(a) /\ AddressOf[a] = Lower[AddressOf[a]] =>
              users'[links[a]] = AddressOf[a]
         /\ \A t \in Tab :
              /\ tab[t].pc = "insertLink"
              /\ AddressOf[tab[t].account] = Lower[AddressOf[tab[t].account]]
              => users'[tab[t].user] = AddressOf[tab[t].account]
  <1>1. ASSUME NEW a \in Account, Linked(a), AddressOf[a] = Lower[AddressOf[a]]
        PROVE  users'[links[a]] = AddressOf[a]
    <2>1. links[a] \in User
      BY <1>1, SignInConstants DEF SignInInv, SignInTypes, Linked, User
    <2>2. users[links[a]] = AddressOf[a] /\ AddressOf[a] # Absent
      BY <1>1, SignInConstants DEF SignInInv, UsersKeepTheirAddresses
    <2> QED
      BY <2>1, <2>2 DEF HasRow
  <1>2. ASSUME NEW t \in Tab, tab[t].pc = "insertLink",
               AddressOf[tab[t].account] = Lower[AddressOf[tab[t].account]]
        PROVE  users'[tab[t].user] = AddressOf[tab[t].account]
    <2>1. tab[t].user \in User /\ tab[t].account \in Account
      BY <1>2, TabFacts DEF TabCarries
    <2>2. users[tab[t].user] = AddressOf[tab[t].account] /\ AddressOf[tab[t].account] # Absent
      BY <1>2, <2>1, SignInConstants DEF SignInInv, UsersKeepTheirAddresses
    <2> QED
      BY <2>1, <2>2 DEF HasRow
  <1> QED
    BY <1>1, <1>2

LEMMA InsertUserKeepsInv ==
  ASSUME SignInInv, NEW t \in Tab, InsertUser(t)
  PROVE  SignInInv'
  <1>1. /\ tab[t].pc = "insertUser" /\ tab[t] \in TabState /\ TabCarries(tab[t])
        /\ TabLands(tab[t]) /\ tab[t].account \in Account
        /\ SignInTypes /\ UsersKeepTheirAddresses
    BY TabFacts DEF InsertUser, TabCarries, SignInInv
  <1>2. PICK k \in User : k = NextUser
    BY DEF InsertUser
  <1>3. PICK address \in Address : address = AddressOf[tab[t].account]
    BY <1>1, SignInConstants
  <1>4. /\ ~Taken(address) /\ users' = [users EXCEPT ![k] = address]
        /\ tab' = [tab EXCEPT ![t].pc = "insertLink", ![t].user = k]
        /\ UNCHANGED <<links, codes, codeLock, issued, cookie, signedIn, state, opened>>
    BY <1>2, <1>3 DEF InsertUser, codeVars, browser
  <1>5. /\ users' \in [User -> Address \cup {Absent}] /\ users'[k] = address
        /\ \A u \in User : HasRow(u) => users'[u] = users[u]
        /\ \E n \in 0 .. MaxUser : \A u \in User : HasRow(u)' <=> u <= n
        /\ \A u, v \in User : HasRow(u)' /\ users'[u] = users'[v] => u = v
    BY <1>1, <1>2, <1>4, UserIsAdded
  <1>6. PICK r \in TabState : r = [tab[t] EXCEPT !.pc = "insertLink", !.user = k]
    <2>1. k \in 0 .. MaxUser
      BY SignInConstants DEF User
    <2> QED
      BY <1>1, <2>1 DEF TabState
  <1>7. /\ r.pc = "insertLink" /\ r.account = tab[t].account /\ r.wanted = tab[t].wanted
        /\ r.target = tab[t].target /\ r.user = k
    BY <1>1, <1>6 DEF TabState
  <1>8. Becomes(t, r) /\ TabCarries(r) /\ TabLands(r) /\ TabSignsIn(r)
    BY <1>1, <1>4, <1>6, <1>7 DEF Becomes, TabCarries, TabLands, TabSignsIn, Landing
  <1>9. SignInTypes'
    <2>1. TabCarries(r)'
      BY <1>4, <1>8 DEF TabCarries
    <2>2. state' \in Nat /\ state <= state' /\ issued' \in 0 .. MaxCode /\ issued <= issued'
      BY <1>1, <1>4, SignInConstants DEF SignInTypes
    <2> QED
      BY <1>1, <1>4, <1>5, <1>8, <2>1, <2>2, TypesKept DEF SignInTypes
  <1>10. CookiesAnswer' /\ CodesInHand' /\ AccountsSignInThemselves'
    BY <1>1, <1>4, <1>7, <1>8, CookiesKept, HandsKept, AccountsKept DEF SignInInv
  <1>11. UsersKeepTheirAddresses'
    <2>1. \A a \in Account : Linked(a)' /\ AddressOf[a] = Lower[AddressOf[a]] =>
            users'[links'[a]] = AddressOf[a]
      BY <1>4, <1>5, KnownAddressesStay DEF Linked
    <2>2. ASSUME NEW u \in Tab, tab'[u].pc = "insertLink",
                 AddressOf[tab'[u].account] = Lower[AddressOf[tab'[u].account]]
          PROVE  users'[tab'[u].user] = AddressOf[tab'[u].account]
      <3>1. tab'[u] = IF u = t THEN r ELSE tab[u]
        BY <1>1, <1>8, OtherTabs
      <3>2. CASE u = t
        BY <1>3, <1>5, <1>7, <3>1, <3>2
      <3>3. CASE u # t
        BY <1>5, <2>2, <3>1, <3>3, KnownAddressesStay
      <3> QED
        BY <3>2, <3>3
    <2> QED
      BY <1>5, <2>1, <2>2 DEF UsersKeepTheirAddresses
  <1> QED
    BY <1>9, <1>10, <1>11 DEF SignInInv

LEMMA RegisterKeepsInv ==
  ASSUME SignInInv, NEW e \in Address, Register(e)
  PROVE  SignInInv'
  <1>1. PICK k \in User : k = NextUser
    BY DEF Register
  <1>2. PICK address \in Address : address = Lower[e]
    BY SignInConstants
  <1>3. /\ ~Taken(address) /\ users' = [users EXCEPT ![k] = address]
        /\ UNCHANGED <<links, codes, codeLock, issued, cookie, signedIn, state, opened, tab>>
    BY <1>1, <1>2 DEF Register, codeVars, browser
  <1>4. /\ users' \in [User -> Address \cup {Absent}]
        /\ \A u \in User : HasRow(u) => users'[u] = users[u]
        /\ \E n \in 0 .. MaxUser : \A u \in User : HasRow(u)' <=> u <= n
        /\ \A u, v \in User : HasRow(u)' /\ users'[u] = users'[v] => u = v
    BY <1>1, <1>3, UserIsAdded DEF SignInInv
  <1>5. SignInTypes'
    BY <1>3, <1>4 DEF SignInInv, SignInTypes, TabCarries
  <1>6. CookiesAnswer' /\ CodesInHand' /\ AccountsSignInThemselves'
    BY <1>3 DEF SignInInv, CookiesAnswer, LandsWhereItStarted, CodesInHand, CodesAreSpentOnce,
                AccountsSignInThemselves, Resolved
  <1>7. UsersKeepTheirAddresses'
    BY <1>3, <1>4, KnownAddressesStay DEF UsersKeepTheirAddresses, Linked
  <1> QED
    BY <1>5, <1>6, <1>7 DEF SignInInv

\* The unique index on links: an account that is linked stays so.
LEMMA InsertLinkKeepsInv ==
  ASSUME SignInInv, NEW t \in Tab, InsertLink(t)
  PROVE  SignInInv'
  <1> DEFINE a == tab[t].account
  <1>1. /\ tab[t].pc = "insertLink" /\ tab[t] \in TabState /\ TabCarries(tab[t])
        /\ TabLands(tab[t]) /\ TabFinds(tab[t]) /\ a \in Account /\ tab[t].user \in User
        /\ tab[t].user \in 0 .. MaxUser /\ SignInTypes
    BY TabFacts DEF InsertLink, TabCarries, TabState
  <1>2. /\ links[a] = 0 /\ links' = [links EXCEPT ![a] = tab[t].user]
        /\ UNCHANGED <<users, codes, codeLock, issued, cookie, signedIn, state, opened>>
    BY DEF InsertLink, Linked, codeVars, browser
  <1>3. PICK r \in TabState : r = [tab[t] EXCEPT !.pc = "session"]
    BY <1>1 DEF TabState
  <1>4. /\ r.pc = "session" /\ r.account = a /\ r.wanted = tab[t].wanted
        /\ r.target = tab[t].target /\ r.user = tab[t].user
    BY <1>1, <1>3 DEF TabState
  <1>5. Becomes(t, r) /\ TabCarries(r) /\ TabLands(r) /\ TabFinds(r)
    BY <1>1, <1>3, <1>4 DEF InsertLink, TabTo, Becomes, TabCarries, TabLands, TabFinds, Landing
  <1>6. links' \in [Account -> 0 .. MaxUser] /\ links'[a] = tab[t].user
        /\ \A b \in Account : b # a => links'[b] = links[b]
    BY <1>1, <1>2 DEF SignInTypes
  <1>7. SignInTypes'
    <2>1. TabCarries(r)'
      BY <1>2, <1>5 DEF TabCarries
    <2>2. state' \in Nat /\ state <= state' /\ issued' \in 0 .. MaxCode /\ issued <= issued'
      BY <1>1, <1>2, SignInConstants DEF SignInTypes
    <2> QED
      BY <1>1, <1>2, <1>5, <1>6, <2>1, <2>2, TypesKept DEF SignInTypes
  <1>8. CookiesAnswer' /\ CodesInHand'
    BY <1>1, <1>2, <1>4, <1>5, CookiesKept, HandsKept DEF SignInInv
  <1>9. UsersKeepTheirAddresses'
    <2>1. ASSUME NEW b \in Account, Linked(b)', AddressOf[b] = Lower[AddressOf[b]]
          PROVE  users'[links'[b]] = AddressOf[b]
      <3>1. CASE b = a
        BY <1>1, <1>2, <1>6, <2>1, <3>1 DEF TabFinds
      <3>2. CASE b # a
        BY <1>2, <1>6, <2>1, <3>2 DEF SignInInv, UsersKeepTheirAddresses, Linked
      <3> QED
        BY <3>1, <3>2
    <2>2. ASSUME NEW u \in Tab, tab'[u].pc = "insertLink",
                 AddressOf[tab'[u].account] = Lower[AddressOf[tab'[u].account]]
          PROVE  users'[tab'[u].user] = AddressOf[tab'[u].account]
      <3>1. tab'[u] = IF u = t THEN r ELSE tab[u]
        BY <1>1, <1>5, OtherTabs
      <3>2. u # t
        BY <1>4, <2>2, <3>1
      <3> QED
        BY <1>2, <2>2, <3>1, <3>2 DEF SignInInv, UsersKeepTheirAddresses
    <2>3. /\ \E n \in 0 .. MaxUser : \A u \in User : HasRow(u)' <=> u <= n
          /\ \A u, v \in User : HasRow(u)' /\ users'[u] = users'[v] => u = v
      BY <1>2 DEF SignInInv, UsersKeepTheirAddresses, HasRow
    <2> QED
      BY <2>1, <2>2, <2>3 DEF UsersKeepTheirAddresses
  <1>10. AccountsSignInThemselves'
    <2>1. ASSUME NEW u \in Tab
          PROVE  TabSignsIn(tab[u])'
      <3>1. tab'[u] = IF u = t THEN r ELSE tab[u]
        BY <1>1, <1>5, OtherTabs
      <3>2. CASE u = t
        <4>1. TabSignsIn(r)'
          BY <1>4, <1>6 DEF TabSignsIn
        <4> QED
          BY <3>1, <3>2, <4>1 DEF TabSignsIn
      <3>3. CASE u # t
        <4>1. TabSignsIn(tab[u]) /\ tab[u] \in TabState
          BY TabFacts
        <4>2. tab[u].pc \in {"session", "code", "landed", "delete", "exchange", "app"}
              /\ tab[u].account # Absent =>
                /\ links'[tab[u].account] = tab[u].user
                /\ tab[u].pc \in {"landed", "delete"} /\ codes'[tab[u].code] # NoCode
                     => codes'[tab[u].code].user = tab[u].user
          <5>1. SUFFICES ASSUME tab[u].pc \in {"session", "code", "landed", "delete",
                                               "exchange", "app"},
                                tab[u].account # Absent
                         PROVE  links'[tab[u].account] = links[tab[u].account]
            BY <1>2, <4>1 DEF TabSignsIn
          <5>2. tab[u].account \in Account
            BY <4>1, <5>1 DEF TabState
          <5>3. tab[u].account # a
            <6>1. links[tab[u].account] = tab[u].user
              BY <4>1, <5>1 DEF TabSignsIn
            <6>2. SUFFICES ASSUME tab[u].account = a
                           PROVE  FALSE
              OBVIOUS
            <6>3. tab[u].user = 0
              BY <1>2, <6>1, <6>2
            <6>4. tab[u].user \in User
              BY <4>1, <5>1, TabFacts DEF TabCarries
            <6> QED
              BY <6>3, <6>4, SignInConstants DEF User
          <5> QED
            BY <1>6, <5>2, <5>3
        <4> QED
          BY <3>1, <3>3, <4>2 DEF TabSignsIn
      <3> QED
        BY <3>2, <3>3
    <2> QED
      BY <2>1 DEF AccountsSignInThemselves, TabSignsIn
  <1> QED
    BY <1>7, <1>8, <1>9, <1>10 DEF SignInInv

-----------------------------------------------------------------------------
(* Signing in: the codes.                                                  *)

\* A new code is nobody's but the tab's that is given it.
LEMMA NewCodeKeepsInv ==
  ASSUME SignInInv, NEW t \in Tab, NEW r, Becomes(t, r),
         NEW k \in Code, k = issued + 1, NEW c \in CodeRow,
         codes' = [codes EXCEPT ![k] = c], issued' = k,
         r.pc = "landed", r.code = k, r.target = Resolved(r.wanted),
         r.account # Absent =>
           links[r.account] = r.user /\ c.user = r.user /\ r.user \in User,
         cookie' = cookie \/ \E p \in Provider : cookie' = [cookie EXCEPT ![p] = NoCookie],
         signedIn' \in 0 .. MaxUser,
         UNCHANGED <<users, links, codeLock, state, opened>>
  PROVE  SignInInv'
  <1>1. /\ SignInTypes /\ k \in 1 .. MaxCode /\ issued \in 0 .. MaxCode
        /\ \A u \in Tab : tab'[u] = IF u = t THEN r ELSE tab[u]
    BY OtherTabs DEF SignInInv, SignInTypes, Code
  <1>2. codes' \in [Code -> CodeRow]
        /\ \A e \in Code : codes'[e] = IF e = k THEN c ELSE codes[e]
    BY <1>1 DEF SignInTypes
  <1>3. \A e \in 1 .. issued : e # k /\ e \in Code /\ codes'[e] = codes[e]
    <2>1. \A e \in 1 .. issued : e # k /\ e \in 1 .. MaxCode
      BY <1>1, SignInConstants
    <2> QED
      BY <1>2, <2>1 DEF Code
  <1>4. TabCarries(r)'
    BY <1>1 DEF TabCarries
  <1>5. SignInTypes'
    <2>1. cookie' \in [Provider -> Cookie]
      BY <1>1 DEF SignInTypes, NoCookie, Cookie
    <2>2. state' \in Nat /\ state <= state' /\ issued' \in 0 .. MaxCode /\ issued <= issued'
      BY <1>1, SignInConstants DEF SignInTypes
    <2>3. \A x \in opened' : x.code \in 1 .. issued'
      <3>1. \A x \in opened : x.code \in 1 .. issued
        BY <1>1 DEF SignInTypes
      <3>2. \A n \in 1 .. issued : n \in 1 .. issued'
        BY <1>1, SignInConstants
      <3> QED
        BY <3>1, <3>2
    <2> QED
      BY <1>1, <1>2, <1>4, <2>1, <2>2, <2>3, TypesKept DEF SignInTypes
  <1>6. CookiesAnswer'
    <2>1. \A p \in Provider : cookie'[p] = cookie[p] \/ cookie'[p] = NoCookie
      BY <1>1 DEF SignInTypes
    <2>2. ASSUME NEW u \in Tab
          PROVE  TabLands(tab[u])'
      <3>1. CASE u = t
        BY <1>1, <3>1 DEF TabLands, Resolved
      <3>2. CASE u # t
        <4>1. tab'[u] = tab[u] /\ TabCarries(tab[u]) /\ TabLands(tab[u])
          BY <1>1, <3>2, TabFacts
        <4>2. tab[u].pc \in {"provider", "callback"} =>
                tab[u].provider \in Provider /\ tab[u].state > 0
          BY <4>1 DEF TabCarries
        <4> QED
          BY <2>1, <4>1, <4>2 DEF TabLands, NoCookie, Resolved
      <3> QED
        BY <3>1, <3>2
    <2>3. \A p \in Provider : cookie'[p].state <= state'
      BY <1>1, <2>1 DEF SignInInv, CookiesAnswer, NoCookie, SignInTypes
    <2> QED
      BY <2>2, <2>3 DEF CookiesAnswer, LandsWhereItStarted, TabLands, Landing
  <1>7. CodesInHand'
    <2>1. \A u \in Tab : tab'[u].pc \in {"delete", "exchange"} =>
            u # t /\ tab'[u] = tab[u] /\ tab[u].code \in 1 .. issued
      BY <1>1, TabFacts DEF TabCarries
    <2>2. \A u \in Tab : /\ tab'[u].pc = "delete" => codeLock'[tab'[u].code] = u
                         /\ tab'[u].pc = "exchange" => ~codes'[tab'[u].code].live
      BY <1>3, <2>1 DEF SignInInv, CodesInHand
    <2>3. \A x \in opened' : ~codes'[x.code].live
      BY <1>1, <1>3 DEF SignInInv, SignInTypes, CodesInHand
    <2>4. \A u, v \in Tab :
            /\ tab'[u].pc \in {"delete", "exchange"} /\ tab'[v].pc \in {"delete", "exchange"}
            /\ tab'[u].code = tab'[v].code
            => u = v
      BY <2>1 DEF SignInInv, CodesInHand
    <2>5. \A x \in opened' : \A u \in Tab :
            tab'[u].pc \in {"delete", "exchange"} => tab'[u].code # x.code
      BY <2>1 DEF SignInInv, CodesInHand
    <2>6. CodesAreSpentOnce'
      BY DEF SignInInv, CodesInHand, CodesAreSpentOnce
    <2> QED
      BY <2>2, <2>3, <2>4, <2>5, <2>6 DEF CodesInHand
  <1>8. UsersKeepTheirAddresses'
    BY AddressesKept DEF TabFinds, SignInInv
  <1>9. AccountsSignInThemselves'
    <2>1. ASSUME NEW u \in Tab
          PROVE  TabSignsIn(tab[u])'
      <3>1. CASE u = t
        BY <1>1, <1>2, <3>1 DEF TabSignsIn
      <3>2. CASE u # t
        <4>1. tab'[u] = tab[u] /\ TabCarries(tab[u]) /\ TabSignsIn(tab[u])
          BY <1>1, <3>2, TabFacts
        <4>2. tab[u].pc \in {"landed", "delete"} => codes'[tab[u].code] = codes[tab[u].code]
          BY <1>3, <4>1 DEF TabCarries
        <4> QED
          BY <4>1, <4>2 DEF TabSignsIn
      <3> QED
        BY <3>1, <3>2
    <2> QED
      BY <2>1 DEF AccountsSignInThemselves, TabSignsIn
  <1> QED
    BY <1>5, <1>6, <1>7, <1>8, <1>9 DEF SignInInv

LEMMA IssueCodeKeepsInv ==
  ASSUME SignInInv, NEW t \in Tab, IssueCode(t)
  PROVE  SignInInv'
  <1>1. /\ tab[t].pc = "code" /\ tab[t] \in TabState /\ TabCarries(tab[t]) /\ TabLands(tab[t])
        /\ TabSignsIn(tab[t]) /\ issued \in 0 .. MaxCode /\ issued < MaxCode
    BY TabFacts DEF IssueCode, NewCode, SignInTypes
  <1>2. PICK k \in Code : k = issued + 1
    BY <1>1, SignInConstants DEF Code
  <1>3. PICK c \in CodeRow : c = [user |-> tab[t].user, origin |-> tab[t].target, live |-> TRUE]
    BY <1>1 DEF TabState, CodeRow
  <1>4. PICK r \in TabState : r = [tab[t] EXCEPT !.pc = "landed", !.code = k]
    <2>1. k \in 0 .. MaxCode
      BY SignInConstants DEF Code
    <2> QED
      BY <1>1, <2>1 DEF TabState
  <1>5. /\ r.pc = "landed" /\ r.code = k /\ r.wanted = tab[t].wanted /\ r.target = tab[t].target
        /\ r.account = tab[t].account /\ r.user = tab[t].user /\ c.user = r.user
    BY <1>1, <1>3, <1>4 DEF TabState
  <1>6. /\ Becomes(t, r) /\ codes' = [codes EXCEPT ![k] = c] /\ issued' = k
        /\ signedIn' = tab[t].user /\ ClearCookie(t)
        /\ UNCHANGED <<users, links, codeLock, state, opened>>
    BY <1>2, <1>3, <1>4 DEF IssueCode, NewCode, Becomes, tables
  <1>7. cookie' = cookie \/ \E p \in Provider : cookie' = [cookie EXCEPT ![p] = NoCookie]
    BY <1>6, OneCookieIsCleared DEF SignInInv
  <1>8. /\ signedIn' \in 0 .. MaxUser /\ r.target = Resolved(r.wanted)
        /\ r.account # Absent =>
             links[r.account] = r.user /\ c.user = r.user /\ r.user \in User
    BY <1>1, <1>5, <1>6 DEF TabState, TabLands, Landing, TabSignsIn, TabCarries
  <1> QED
    BY <1>2, <1>5, <1>6, <1>7, <1>8, NewCodeKeepsInv

LEMMA IssueForAppKeepsInv ==
  ASSUME SignInInv, NEW t \in Tab, NEW target \in Origin, IssueForApp(t, target)
  PROVE  SignInInv'
  <1>1. /\ SignInTypes /\ issued \in 0 .. MaxCode /\ issued < MaxCode
        /\ signedIn \in 0 .. MaxUser /\ Resolved(target) = target
    BY DEF SignInInv, SignInTypes, IssueForApp, NewCode, Resolved
  <1>2. PICK k \in Code : k = issued + 1
    BY <1>1, SignInConstants DEF Code
  <1>3. PICK c \in CodeRow : c = [user |-> signedIn, origin |-> target, live |-> TRUE]
    BY <1>1 DEF CodeRow
  <1>4. PICK r \in TabState : r = [IdleTab EXCEPT !.pc = "landed", !.user = signedIn,
                                    !.wanted = target, !.target = target, !.code = k]
    <2>1. k \in 0 .. MaxCode
      BY SignInConstants DEF Code
    <2> QED
      BY <1>1, <2>1, IdleTabIsFine DEF TabState
  <1>5. r.pc = "landed" /\ r.code = k /\ r.wanted = target /\ r.target = target
        /\ r.account = Absent
    BY <1>4 DEF IdleTab
  <1>6. /\ Becomes(t, r) /\ codes' = [codes EXCEPT ![k] = c] /\ issued' = k
        /\ UNCHANGED <<users, links, codeLock, state, opened, cookie, signedIn>>
    BY <1>2, <1>3, <1>4 DEF IssueForApp, NewCode, Becomes, tables, browser
  <1> QED
    BY <1>1, <1>2, <1>5, <1>6, NewCodeKeepsInv

\* A step of tab t that spends or drops a code, and leaves the users alone.
LEMMA CodeStepKeepsInv ==
  ASSUME SignInInv, NEW t \in Tab, NEW r, Becomes(t, r),
         TabCarries(r), TabLands(r), TabFinds(r), TabSignsIn(r),
         \/ codes' = codes
         \/ \E c \in Code : codes' = [codes EXCEPT ![c] = NoCode],
         codeLock' \in [Code -> Tab \cup {Absent}],
         signedIn' \in 0 .. MaxUser,
         \A x \in opened' : x.code \in 1 .. issued,
         UNCHANGED <<users, links, cookie, state, issued>>,
         CodesInHand'
  PROVE  SignInInv'
  <1>1. SignInTypes /\ NoCode \in CodeRow
    BY SignInConstants DEF SignInInv, NoCode, CodeRow
  <1>2. /\ codes' \in [Code -> CodeRow]
        /\ \A c \in Code : codes'[c] = codes[c] \/ codes'[c] = NoCode
    BY <1>1 DEF SignInTypes
  <1>3. SignInTypes'
    <2>1. TabCarries(r)'
      BY DEF TabCarries
    <2>2. state' \in Nat /\ state <= state' /\ issued' \in 0 .. MaxCode /\ issued <= issued'
      BY <1>1, SignInConstants DEF SignInTypes
    <2> QED
      BY <1>1, <1>2, <2>1, <2>2, TypesKept DEF SignInTypes
  <1>4. CookiesAnswer' /\ UsersKeepTheirAddresses'
    BY <1>1, CookiesKept, AddressesKept DEF SignInInv
  <1>5. AccountsSignInThemselves'
    <2>1. ASSUME NEW u \in Tab
          PROVE  TabSignsIn(tab[u])'
      <3>1. PICK q : q = tab'[u] /\ (q = r \/ q = tab[u])
        BY <1>1, OtherTabs
      <3>2. TabSignsIn(q) /\ TabCarries(q)
        BY <3>1, TabFacts
      <3>3. q.pc \in {"landed", "delete"} => q.code \in Code
        BY <1>1, <3>2, SignInConstants DEF TabCarries, SignInTypes, Code
      <3>4. q.pc \in {"session", "code", "landed", "delete", "exchange", "app"}
            /\ q.account # Absent =>
              /\ links'[q.account] = q.user
              /\ q.pc \in {"landed", "delete"} /\ codes'[q.code] # NoCode
                   => codes'[q.code].user = q.user
        BY <1>2, <3>2, <3>3 DEF TabSignsIn
      <3> QED
        BY <3>1, <3>4 DEF TabSignsIn
    <2> QED
      BY <2>1 DEF AccountsSignInThemselves, TabSignsIn
  <1> QED
    BY <1>3, <1>4, <1>5 DEF SignInInv

\* The lock makes the tab that has it the only one with the code in hand.
LEMMA LockCodeKeepsInv ==
  ASSUME SignInInv, NEW t \in Tab, LockCode(t)
  PROVE  SignInInv'
  <1> DEFINE c == tab[t].code
  <1>1. /\ tab[t].pc = "landed" /\ tab[t] \in TabState /\ TabCarries(tab[t]) /\ TabLands(tab[t])
        /\ TabSignsIn(tab[t]) /\ SignInTypes /\ CodesInHand /\ codeLock[c] = Absent
        /\ signedIn \in 0 .. MaxUser
        /\ UNCHANGED <<users, links, codes, issued, cookie, signedIn, state, opened>>
    BY TabFacts DEF LockCode, CodeFree, tables, browser, SignInInv, SignInTypes
  <1>2. c \in 1 .. issued /\ c \in Code
    BY <1>1, SignInConstants DEF TabCarries, Code, SignInTypes
  <1>3. CASE ~(codes[c].live /\ codes[c].origin = tab[t].target)
    <2>1. tab' = [tab EXCEPT ![t] = IdleTab] /\ UNCHANGED codeLock
      BY <1>3 DEF LockCode
    <2> QED
      BY <1>1, <2>1, IdleTabKeepsInv
  <1>4. CASE codes[c].live /\ codes[c].origin = tab[t].target
    <2>1. codeLock' = [codeLock EXCEPT ![c] = t] /\ TabTo(t, "delete")
      BY <1>4 DEF LockCode
    <2>2. PICK r \in TabState : r = [tab[t] EXCEPT !.pc = "delete"]
      BY <1>1 DEF TabState
    <2>3. /\ r.pc = "delete" /\ r.account = tab[t].account /\ r.wanted = tab[t].wanted
          /\ r.target = tab[t].target /\ r.user = tab[t].user /\ r.code = c
      BY <1>1, <2>2 DEF TabState
    <2>4. Becomes(t, r) /\ TabCarries(r) /\ TabLands(r) /\ TabFinds(r) /\ TabSignsIn(r)
      BY <1>1, <2>1, <2>2, <2>3 DEF TabTo, Becomes, TabCarries, TabLands, TabFinds, TabSignsIn,
                                    Landing
    <2>5. /\ codeLock' \in [Code -> Tab \cup {Absent}] /\ codeLock'[c] = t
          /\ \A e \in Code : e # c => codeLock'[e] = codeLock[e]
      BY <1>1, <1>2, <2>1 DEF SignInTypes
    <2>6. CodesInHand'
      <3>1. \A u \in Tab : tab'[u] = IF u = t THEN r ELSE tab[u]
        BY <1>1, <2>4, OtherTabs
      <3>2. \A u \in Tab : tab[u].pc \in {"delete", "exchange"} =>
              tab[u].code # c /\ tab[u].code \in Code
        <4>1. \A u \in Tab : tab[u].pc \in {"delete", "exchange"} => tab[u].code \in Code
          BY <1>1, SignInConstants DEF SignInTypes, TabCarries, Code
        <4> QED
          BY <1>1, <1>4, <4>1, SignInConstants DEF CodesInHand
      <3>3. \A u \in Tab : u # t => /\ tab'[u].pc = "delete" => codeLock'[tab'[u].code] = u
                                    /\ tab'[u].pc = "exchange" => ~codes'[tab'[u].code].live
        BY <1>1, <2>5, <3>1, <3>2 DEF CodesInHand
      <3>4. tab'[t].pc = "delete" /\ tab'[t].code = c /\ codeLock'[tab'[t].code] = t
        BY <2>3, <2>5, <3>1
      <3>5. \A u, v \in Tab :
              /\ tab'[u].pc \in {"delete", "exchange"} /\ tab'[v].pc \in {"delete", "exchange"}
              /\ tab'[u].code = tab'[v].code
              => u = v
        BY <1>1, <3>1, <3>2, <3>4 DEF CodesInHand
      <3>6. \A x \in opened' :
              /\ ~codes'[x.code].live
              /\ \A u \in Tab : tab'[u].pc \in {"delete", "exchange"} => tab'[u].code # x.code
        BY <1>1, <1>4, <3>1, <3>4 DEF CodesInHand
      <3>7. CodesAreSpentOnce'
        BY <1>1 DEF CodesInHand, CodesAreSpentOnce
      <3> QED
        BY <3>3, <3>4, <3>5, <3>6, <3>7 DEF CodesInHand
    <2>7. \A x \in opened' : x.code \in 1 .. issued
      BY <1>1 DEF SignInTypes
    <2> QED
      BY <1>1, <2>4, <2>5, <2>6, <2>7, CodeStepKeepsInv
  <1> QED
    BY <1>3, <1>4

LEMMA DeleteCodeKeepsInv ==
  ASSUME SignInInv, NEW t \in Tab, DeleteCode(t)
  PROVE  SignInInv'
  <1> DEFINE c == tab[t].code
  <1>1. /\ tab[t].pc = "delete" /\ tab[t] \in TabState /\ TabCarries(tab[t]) /\ TabLands(tab[t])
        /\ TabSignsIn(tab[t]) /\ SignInTypes /\ CodesInHand /\ signedIn \in 0 .. MaxUser
        /\ codes' = [codes EXCEPT ![c] = NoCode] /\ codeLock' = [codeLock EXCEPT ![c] = Absent]
        /\ UNCHANGED <<users, links, issued, cookie, signedIn, state, opened>>
    BY TabFacts DEF DeleteCode, tables, browser, SignInInv, SignInTypes
  <1>2. c \in 1 .. issued /\ c \in Code
    BY <1>1, SignInConstants DEF TabCarries, Code, SignInTypes
  <1>3. PICK r \in TabState : r = [tab[t] EXCEPT !.pc = "exchange"]
    BY <1>1 DEF TabState
  <1>4. /\ r.pc = "exchange" /\ r.account = tab[t].account /\ r.wanted = tab[t].wanted
        /\ r.target = tab[t].target /\ r.user = tab[t].user /\ r.code = c
    BY <1>1, <1>3 DEF TabState
  <1>5. Becomes(t, r) /\ TabCarries(r) /\ TabLands(r) /\ TabFinds(r) /\ TabSignsIn(r)
    BY <1>1, <1>3, <1>4 DEF DeleteCode, TabTo, Becomes, TabCarries, TabLands, TabFinds,
                            TabSignsIn, Landing
  <1>6. /\ codeLock' \in [Code -> Tab \cup {Absent}]
        /\ \A e \in Code : e # c => codeLock'[e] = codeLock[e]
        /\ \A e \in Code : codes'[e] = IF e = c THEN NoCode ELSE codes[e]
        /\ ~NoCode.live
    BY <1>1, <1>2 DEF SignInTypes, NoCode
  <1>7. CodesInHand'
    <2>1. \A u \in Tab : tab'[u] = IF u = t THEN r ELSE tab[u]
      BY <1>1, <1>5, OtherTabs
    <2>2. \A u \in Tab : tab[u].pc \in {"delete", "exchange"} => tab[u].code \in Code
      BY <1>1, SignInConstants DEF SignInTypes, TabCarries, Code
    <2>3. \A u \in Tab : tab'[u].pc \in {"delete", "exchange"} =>
            tab[u].pc \in {"delete", "exchange"} /\ tab'[u].code = tab[u].code
      BY <1>1, <1>4, <2>1
    <2>4. ASSUME NEW u \in Tab
          PROVE  /\ tab'[u].pc = "delete" => codeLock'[tab'[u].code] = u
                 /\ tab'[u].pc = "exchange" => ~codes'[tab'[u].code].live
      <3>1. CASE u = t
        BY <1>2, <1>4, <1>6, <2>1, <3>1
      <3>2. CASE u # t
        BY <1>1, <1>6, <2>1, <2>2, <3>2 DEF CodesInHand
      <3> QED
        BY <3>1, <3>2
    <2>5. \A u, v \in Tab :
            /\ tab'[u].pc \in {"delete", "exchange"} /\ tab'[v].pc \in {"delete", "exchange"}
            /\ tab'[u].code = tab'[v].code
            => u = v
      BY <1>1, <2>3 DEF CodesInHand
    <2>6. \A x \in opened' : x.code \in Code /\ ~codes'[x.code].live
      <3>1. \A x \in opened : x.code \in Code
        BY <1>1, SignInConstants DEF SignInTypes, Code
      <3> QED
        BY <1>1, <1>6, <3>1 DEF CodesInHand
    <2>7. \A x \in opened' : \A u \in Tab :
            tab'[u].pc \in {"delete", "exchange"} => tab'[u].code # x.code
      BY <1>1, <2>3 DEF CodesInHand
    <2>8. CodesAreSpentOnce'
      BY <1>1 DEF CodesInHand, CodesAreSpentOnce
    <2> QED
      BY <2>4, <2>5, <2>6, <2>7, <2>8 DEF CodesInHand
  <1>8. \A x \in opened' : x.code \in 1 .. issued
    BY <1>1 DEF SignInTypes
  <1> QED
    BY <1>1, <1>2, <1>5, <1>6, <1>7, <1>8, CodeStepKeepsInv

\* Nobody else has the code in hand, and nobody has opened a session with it.
LEMMA ExchangeKeepsInv ==
  ASSUME SignInInv, NEW t \in Tab, Exchange(t)
  PROVE  SignInInv'
  <1> DEFINE c == tab[t].code
             session == [tab |-> t, code |-> c, user |-> tab[t].user, origin |-> tab[t].target]
  <1>1. /\ tab[t].pc = "exchange" /\ tab[t] \in TabState /\ TabCarries(tab[t])
        /\ TabLands(tab[t]) /\ TabSignsIn(tab[t]) /\ SignInTypes /\ CodesInHand
        /\ opened' = opened \cup {session} /\ signedIn' = tab[t].user
        /\ UNCHANGED <<users, links, codes, codeLock, issued, cookie, state>>
    BY TabFacts DEF Exchange, tables, codeVars, SignInInv
  <1>2. c \in 1 .. issued /\ signedIn' \in 0 .. MaxUser /\ session.code = c
    BY <1>1 DEF TabCarries, TabState
  <1>3. PICK r \in TabState : r = [tab[t] EXCEPT !.pc = "app"]
    BY <1>1 DEF TabState
  <1>4. /\ r.pc = "app" /\ r.account = tab[t].account /\ r.wanted = tab[t].wanted
        /\ r.target = tab[t].target /\ r.user = tab[t].user /\ r.code = c
    BY <1>1, <1>3 DEF TabState
  <1>5. Becomes(t, r) /\ TabCarries(r) /\ TabLands(r) /\ TabFinds(r) /\ TabSignsIn(r)
    BY <1>1, <1>3, <1>4 DEF Exchange, Becomes, TabCarries, TabLands, TabFinds, TabSignsIn, Landing
  <1>6. CodesInHand'
    <2> HIDE DEF c, session
    <2>1. \A u \in Tab : tab'[u] = IF u = t THEN r ELSE tab[u]
      BY <1>1, <1>5, OtherTabs
    <2>2. \A u \in Tab : tab'[u].pc \in {"delete", "exchange"} =>
            u # t /\ tab'[u] = tab[u] /\ tab[u].code # c
      BY <1>1, <1>4, <2>1 DEF CodesInHand, c
    <2>3. ~codes[c].live /\ \A x \in opened : x.code # c
      BY <1>1 DEF CodesInHand, c
    <2>4. /\ \A u \in Tab : /\ tab'[u].pc = "delete" => codeLock'[tab'[u].code] = u
                            /\ tab'[u].pc = "exchange" => ~codes'[tab'[u].code].live
          /\ \A u, v \in Tab :
               /\ tab'[u].pc \in {"delete", "exchange"} /\ tab'[v].pc \in {"delete", "exchange"}
               /\ tab'[u].code = tab'[v].code
               => u = v
      BY <1>1, <2>2 DEF CodesInHand
    <2>5. \A x \in opened' :
            /\ ~codes'[x.code].live
            /\ \A u \in Tab : tab'[u].pc \in {"delete", "exchange"} => tab'[u].code # x.code
      BY <1>1, <1>2, <2>2, <2>3 DEF CodesInHand
    <2>6. CodesAreSpentOnce'
      BY <1>1, <1>2, <2>3 DEF CodesInHand, CodesAreSpentOnce
    <2> QED
      BY <2>4, <2>5, <2>6 DEF CodesInHand
  <1>7. \A x \in opened' : x.code \in 1 .. issued
    BY <1>1, <1>2 DEF SignInTypes
  <1>8. codeLock' \in [Code -> Tab \cup {Absent}]
    BY <1>1 DEF SignInTypes
  <1> QED
    BY <1>1, <1>2, <1>5, <1>6, <1>7, <1>8, CodeStepKeepsInv

LEMMA ExchangeFailsKeepsInv ==
  ASSUME SignInInv, NEW t \in Tab, ExchangeFails(t)
  PROVE  SignInInv'
  <1> DEFINE c == tab[t].code
  <1>1. /\ tab[t].pc \in {"delete", "exchange"} /\ TabCarries(tab[t]) /\ SignInTypes
        /\ CodesInHand /\ signedIn \in 0 .. MaxUser
        /\ tab' = [tab EXCEPT ![t] = IdleTab]
        /\ codeLock' = codeLock \/ codeLock' = [codeLock EXCEPT ![c] = Absent]
        /\ UNCHANGED <<users, links, codes, issued, cookie, signedIn, state, opened>>
    BY TabFacts DEF ExchangeFails, tables, browser, SignInInv, SignInTypes
  <1>2. PICK r \in TabState : r = IdleTab
    BY <1>1, IdleTabIsFine
  <1>3. Becomes(t, r) /\ TabCarries(r) /\ TabLands(r) /\ TabFinds(r) /\ TabSignsIn(r)
        /\ r.pc \notin {"delete", "exchange"}
    BY <1>1, <1>2, IdleTabIsFine DEF Becomes
  <1>4. codeLock' \in [Code -> Tab \cup {Absent}]
        /\ \A e \in Code : e # c => codeLock'[e] = codeLock[e]
    BY <1>1 DEF SignInTypes
  <1>5. CodesInHand'
    <2>1. \A u \in Tab : tab'[u] = IF u = t THEN r ELSE tab[u]
      BY <1>1, <1>3, OtherTabs
    <2>2. \A u \in Tab : tab[u].pc \in {"delete", "exchange"} => tab[u].code \in Code
      BY <1>1, SignInConstants DEF SignInTypes, TabCarries, Code
    <2>3. \A u \in Tab : tab'[u].pc \in {"delete", "exchange"} =>
            tab'[u] = tab[u] /\ tab[u].code # c /\ tab[u].code \in Code
      BY <1>1, <1>3, <2>1, <2>2 DEF CodesInHand
    <2>4. \A u \in Tab : /\ tab'[u].pc = "delete" => codeLock'[tab'[u].code] = u
                         /\ tab'[u].pc = "exchange" => ~codes'[tab'[u].code].live
      BY <1>1, <1>4, <2>3 DEF CodesInHand
    <2> QED
      BY <1>1, <2>3, <2>4 DEF CodesInHand, CodesAreSpentOnce
  <1>6. \A x \in opened' : x.code \in 1 .. issued
    BY <1>1 DEF SignInTypes
  <1> QED
    BY <1>1, <1>3, <1>4, <1>5, <1>6, CodeStepKeepsInv

LEMMA LapseCodeKeepsInv ==
  ASSUME SignInInv, NEW c \in Code, LapseCode(c)
  PROVE  SignInInv'
  <1>1. /\ SignInTypes /\ codes' = [codes EXCEPT ![c].live = FALSE]
        /\ UNCHANGED <<users, links, codeLock, issued, cookie, signedIn, state, tab, opened>>
        /\ codes[c].live /\ codes[c] \in CodeRow
    BY DEF LapseCode, tables, browser, SignInInv, SignInTypes
  <1>2. PICK k \in CodeRow : k = [codes[c] EXCEPT !.live = FALSE]
    BY <1>1 DEF CodeRow
  <1>3. k.user = codes[c].user /\ ~k.live
    BY <1>1, <1>2 DEF CodeRow
  <1>4. codes' \in [Code -> CodeRow]
        /\ \A e \in Code : codes'[e] = IF e = c THEN k ELSE codes[e]
    BY <1>1, <1>2 DEF SignInTypes
  <1>5. SignInTypes'
    BY <1>1, <1>4 DEF SignInTypes, TabCarries
  <1>6. CookiesAnswer' /\ UsersKeepTheirAddresses'
    BY <1>1 DEF SignInInv, CookiesAnswer, LandsWhereItStarted, UsersKeepTheirAddresses, HasRow,
                Linked, Resolved
  <1>7. CodesInHand'
    <2>1. \A n \in 1 .. issued : n \in Code
      BY <1>1, SignInConstants DEF SignInTypes, Code
    <2>2. \A n \in Code : ~codes[n].live => ~codes'[n].live
      BY <1>3, <1>4
    <2>3. \A t \in Tab : tab[t].pc = "exchange" => tab[t].code \in Code
      BY <1>1, <2>1 DEF SignInTypes, TabCarries
    <2>4. \A x \in opened : x.code \in Code
      BY <1>1, <2>1 DEF SignInTypes
    <2> QED
      BY <1>1, <2>2, <2>3, <2>4 DEF SignInInv, CodesInHand, CodesAreSpentOnce
  <1>8. AccountsSignInThemselves'
    <2>1. \A n \in Code : codes[n] # NoCode => codes'[n].user = codes[n].user
      BY <1>3, <1>4
    <2>2. \A n \in Code : codes'[n] # NoCode => codes[n] # NoCode
      <3>1. NoCode.live = FALSE
        BY DEF NoCode
      <3>2. codes[c] # NoCode
        BY <1>1, <3>1
      <3> QED
        BY <1>4, <3>2
    <2>3. ASSUME NEW t \in Tab
          PROVE  TabSignsIn(tab[t])'
      <3>1. TabSignsIn(tab[t]) /\ TabCarries(tab[t])
        BY TabFacts
      <3>2. tab[t].pc \in {"landed", "delete"} => tab[t].code \in Code
        BY <1>1, <3>1, SignInConstants DEF TabCarries, SignInTypes, Code
      <3> QED
        BY <1>1, <2>1, <2>2, <3>1, <3>2 DEF TabSignsIn
    <2> QED
      BY <2>3 DEF AccountsSignInThemselves, TabSignsIn
  <1> QED
    BY <1>5, <1>6, <1>7, <1>8 DEF SignInInv

-----------------------------------------------------------------------------
(* Signing in: the theorems.                                               *)

LEMMA SignInBegins ==
  ASSUME SignInInit
  PROVE  SignInInv
  <1>1. /\ users = [u \in User |-> Absent] /\ links = [a \in Account |-> 0]
        /\ codes = [c \in Code |-> NoCode] /\ codeLock = [c \in Code |-> Absent]
        /\ state = 0 /\ issued = 0 /\ cookie = [p \in Provider |-> NoCookie]
        /\ signedIn = 0 /\ tab = [t \in Tab |-> IdleTab] /\ opened = {}
    BY DEF SignInInit
  <1>2. NoCode \in CodeRow /\ NoCookie \in Cookie /\ IdleTab \in TabState
        /\ IdleTab.pc = "idle" /\ NoCookie.state = 0 /\ 0 \in 0 .. MaxUser /\ 0 \in 0 .. MaxCode
    BY SignInConstants DEF NoCode, CodeRow, NoCookie, Cookie, IdleTab, TabState
  <1>3. SignInTypes
    BY <1>1, <1>2, SignInConstants DEF SignInTypes, TabCarries
  <1>4. CookiesAnswer /\ CodesInHand /\ AccountsSignInThemselves
    BY <1>1, <1>2 DEF CookiesAnswer, LandsWhereItStarted, CodesInHand, CodesAreSpentOnce,
                      AccountsSignInThemselves
  <1>5. UsersKeepTheirAddresses
    <2>1. \A u \in User : ~HasRow(u) /\ ~(u <= 0)
      BY <1>1, SignInConstants DEF HasRow, User
    <2> QED
      BY <1>1, <1>2, <2>1 DEF UsersKeepTheirAddresses, Linked
  <1> QED
    BY <1>3, <1>4, <1>5 DEF SignInInv

LEMMA TabStepKeepsInv ==
  ASSUME SignInInv, NEW t \in Tab, TabStep(t)
  PROVE  SignInInv'
  <1>1. ASSUME NEW p \in Provider, NEW target \in Origin \cup {Absent},
               StartSignIn(t, p, target)
        PROVE  SignInInv'
    BY <1>1, StartSignInKeepsInv
  <1>2. ASSUME NEW a \in Account, Authenticate(t, a)
        PROVE  SignInInv'
    BY <1>2, AuthenticateKeepsInv
  <1>3. ASSUME NEW target \in Origin, IssueForApp(t, target)
        PROVE  SignInInv'
    BY <1>3, IssueForAppKeepsInv
  <1>4. ASSUME NEW u \in Tab, Duplicate(t, u)
        PROVE  SignInInv'
    BY <1>4, DuplicateKeepsInv
  <1>5. CASE RestoreGrant(t) \/ RefuseState(t) \/ CallbackFails(t) \/ Leave(t)
    BY <1>5, RestoreGrantKeepsInv, EndKeepsInv
  <1>6. CASE FindLink(t) \/ FindUser(t) \/ InsertUser(t) \/ InsertLink(t)
    BY <1>6, FindLinkKeepsInv, FindUserKeepsInv, InsertUserKeepsInv, InsertLinkKeepsInv
  <1>7. CASE OpenSession(t) \/ IssueCode(t)
    BY <1>7, OpenSessionKeepsInv, IssueCodeKeepsInv
  <1>8. CASE LockCode(t) \/ DeleteCode(t) \/ Exchange(t) \/ ExchangeFails(t)
    BY <1>8, LockCodeKeepsInv, DeleteCodeKeepsInv, ExchangeKeepsInv, ExchangeFailsKeepsInv
  <1> QED
    BY <1>1, <1>2, <1>3, <1>4, <1>5, <1>6, <1>7, <1>8 DEF TabStep

LEMMA SignInStepKeepsInv ==
  ASSUME SignInInv, SignInNext \/ UNCHANGED signInVars
  PROVE  SignInInv'
  <1>1. CASE \E t \in Tab : TabStep(t)
    BY <1>1, TabStepKeepsInv
  <1>2. CASE \E p \in Provider : LapseCookie(p)
    BY <1>2, LapseCookieKeepsInv
  <1>3. CASE \E c \in Code : LapseCode(c)
    BY <1>3, LapseCodeKeepsInv
  <1>4. CASE \E e \in Address : Register(e)
    BY <1>4, RegisterKeepsInv
  <1>5. CASE UNCHANGED signInVars
    <2>1. UNCHANGED <<users, links, codes, codeLock, issued, cookie, signedIn, state, tab, opened>>
      BY <1>5 DEF signInVars, tables, codeVars, browser
    <2>2. SignInTypes'
      BY <2>1 DEF SignInInv, SignInTypes, TabCarries
    <2>3. CookiesAnswer' /\ CodesInHand'
      BY <2>1 DEF SignInInv, CookiesAnswer, LandsWhereItStarted, CodesInHand, CodesAreSpentOnce
    <2>4. UsersKeepTheirAddresses' /\ AccountsSignInThemselves'
      BY <2>1 DEF SignInInv, UsersKeepTheirAddresses, HasRow, Linked, AccountsSignInThemselves
    <2> QED
      BY <2>2, <2>3, <2>4 DEF SignInInv
  <1> QED
    BY <1>1, <1>2, <1>3, <1>4, <1>5 DEF SignInNext

\* However many tabs sign in at once, with whatever accounts: the tabs, the
\* cookies, the codes and the users stay as the invariant says.
THEOREM SignInInvariant == ClientsSpec => []SignInInv
  <1>1. ClientsInit => SignInInv
    BY SignInBegins DEF ClientsInit
  <1>2. ASSUME SignInInv, [ClientsNext]_clientVars
        PROVE  SignInInv'
    <2>1. SignInNext \/ UNCHANGED signInVars
      BY <1>2 DEF ClientsNext, SignInAlone, NotesAlone, TrafficAlone, clientVars
    <2> QED
      BY <1>2, <2>1, SignInStepKeepsInv
  <1> QED
    BY <1>1, <1>2, PTL DEF ClientsSpec

\* A sign-in that succeeds ends at the application it was started from: the
\* cookie of a provider, which every start overwrites, names the state it was
\* set for, and a callback with another state is refused
\* (oauth-state.guard.ts:95-111, oauth-state.util.ts:130-142).
THEOREM SignInsLandWhereTheyStarted == ClientsSpec => []LandsWhereItStarted
  <1>1. SignInInv => LandsWhereItStarted
    BY DEF SignInInv, CookiesAnswer
  <1> QED
    BY <1>1, SignInInvariant, PTL

\* A code opens one session, in however many tabs its page is open: the row is
\* locked before it is read and deleted before the session is made
\* (users.service.ts:381-397).
THEOREM CodesAreAlwaysSpentOnce == ClientsSpec => []CodesAreSpentOnce
  <1>1. SignInInv => CodesAreSpentOnce
    BY DEF SignInInv, CodesInHand
  <1> QED
    BY <1>1, SignInInvariant, PTL

\* Who signs in is the user the provider account is linked to, and accounts
\* with one address in lower case are linked to one user
\* (users.service.ts:293-338, sso.controller.ts:326-364).
THEOREM AccountsAlwaysKeepToTheirUser == ClientsSpec => []AccountsKeepToTheirUser
  <1>1. ASSUME SignInInv
        PROVE  AccountsKeepToTheirUser
    <2>1. ASSUME NEW a \in Account, NEW b \in Account, Linked(a), Linked(b),
                 AddressOf[a] = AddressOf[b], AddressOf[a] = Lower[AddressOf[a]]
          PROVE  links[a] = links[b]
      <3>1. /\ users[links[a]] = AddressOf[a] /\ users[links[b]] = AddressOf[a]
            /\ \A u, v \in User : HasRow(u) /\ users[u] = users[v] => u = v
        BY <1>1, <2>1 DEF SignInInv, UsersKeepTheirAddresses
      <3>2. links[a] \in User /\ links[b] \in User
        BY <1>1, <2>1, SignInConstants DEF SignInInv, SignInTypes, Linked, User
      <3>3. HasRow(links[a])
        BY <3>1, SignInConstants DEF HasRow
      <3> QED
        BY <3>1, <3>2, <3>3
    <2> QED
      BY <1>1, <2>1 DEF SignInInv, AccountsKeepToTheirUser, SameAddressSameUser
  <1> QED
    BY <1>1, SignInInvariant, PTL

-----------------------------------------------------------------------------
(* Visits: the invariant.                                                  *)

\* A visit is on its way or in one row, and none is later than now.
VisitsInOrder ==
  /\ \A x \in KnownVisits : x.id <= accepted /\ x.boot <= boot /\ x.at <= now
  /\ \A x, y \in visiting : x.id = y.id => x = y
  /\ \A m, n \in Rows : visits[m].id = visits[n].id => m = n
  /\ \A x \in visiting, n \in Rows : visits[n].id # x.id

\* The throttle knows the last accepted ping of a visitor since the start, unless
\* that is a window ago.
PingsAreKnown ==
  /\ \A v \in Visitor : recentPings[v] # Never => recentPings[v] <= now
  /\ \A x \in KnownVisits : x.boot = boot =>
       \/ recentPings[x.from] # Never /\ x.at <= recentPings[x.from]
       \/ x.at + Window <= now

VisitsInv == VisitsTypeOK /\ VisitsInOrder /\ PingsAreKnown /\ OneVisitPerWindow

VisitStep ==
  \/ Later \/ Cleanup \/ Restart
  \/ \E v \in Visitor : Ping(v)
  \/ \E x \in visiting : SaveVisit(x) \/ VisitFails(x)
  \/ \E ids : DeleteVisits(ids)
  \/ UNCHANGED visitVars

LEMMA VisitsBegin ==
  ASSUME VisitsInit
  PROVE  VisitsInv
  <1> USE DEF VisitsInit
  <1>1. Rows = {} /\ KnownVisits = {}
    BY DEF Rows, KnownVisits
  <1>2. VisitsTypeOK
    BY <1>1, VisitsConstants DEF VisitsTypeOK
  <1> QED
    BY <1>1, <1>2 DEF VisitsInv, VisitsInOrder, PingsAreKnown, OneVisitPerWindow

\* The types of a visit's fields, and of the clock.
LEMMA VisitFacts ==
  ASSUME VisitsInv
  PROVE  /\ {Window, Keep, MaxTime, MaxVisit, MaxBoot} \subseteq Nat /\ Window <= Keep
         /\ now \in Nat /\ boot \in Nat /\ accepted \in Nat /\ saved \in Nat
         /\ \A t \in 0 .. MaxTime : t # Never
         /\ \A x \in KnownVisits : x \in Visit /\ x.id \in Nat /\ x.from \in Visitor
                                   /\ x.at \in Nat /\ x.boot \in Nat
         /\ \A v \in Visitor : recentPings[v] # Never =>
              recentPings[v] \in 0 .. MaxTime /\ recentPings[v] \in Nat
  <1>1. VisitsTypeOK /\ Never \in Nat /\ \A t \in 0 .. MaxTime : t # Never
    BY VisitsConstants DEF VisitsInv, Never
  <1>2. \A x \in KnownVisits : x \in Visit
    BY <1>1 DEF VisitsTypeOK, KnownVisits
  <1>3. \A x \in Visit : x.id \in Nat /\ x.from \in Visitor /\ x.at \in Nat /\ x.boot \in Nat
    BY VisitsConstants DEF Visit
  <1> QED
    BY <1>1, <1>2, <1>3, VisitsConstants DEF VisitsTypeOK

\* When no ping is accepted, no visit becomes known.
LEMMA KnownFewer ==
  ASSUME VisitsInv, KnownVisits' \subseteq KnownVisits, boot' = boot, now <= now', now' \in Nat,
         \A x \in KnownVisits : x.boot = boot =>
           \/ recentPings'[x.from] # Never /\ x.at <= recentPings'[x.from]
           \/ x.at + Window <= now'
  PROVE  /\ \A x \in KnownVisits' : x.boot = boot' =>
              \/ recentPings'[x.from] # Never /\ x.at <= recentPings'[x.from]
              \/ x.at + Window <= now'
         /\ OneVisitPerWindow'
         /\ \A x \in KnownVisits' : x.boot <= boot' /\ x.at <= now'
  BY VisitFacts DEF VisitsInv, OneVisitPerWindow, VisitsInOrder

LEMMA PingKeepsVisits ==
  ASSUME VisitsInv, NEW v \in Visitor, Ping(v)
  PROVE  VisitsInv'
  <1> DEFINE x == NewVisit(v)
  <1>1. /\ accepted < MaxVisit /\ ~Throttled(v) /\ accepted' = accepted + 1
        /\ visiting' = visiting \cup {x} /\ recentPings' = [recentPings EXCEPT ![v] = now]
        /\ UNCHANGED <<now, boot, saved, visits>>
    BY DEF Ping
  <1>2. /\ VisitsTypeOK /\ recentPings \in [Visitor -> 0 .. MaxTime \cup {Never}]
        /\ accepted \in 0 .. MaxVisit /\ now \in 0 .. MaxTime /\ boot \in 1 .. MaxBoot
    BY DEF VisitsInv, VisitsTypeOK
  <1>3. accepted + 1 \in 1 .. MaxVisit
    BY <1>1, <1>2, VisitsConstants
  <1>4. x \in Visit /\ x.id = accepted + 1 /\ x.from = v /\ x.at = now /\ x.boot = boot
    BY <1>2, <1>3 DEF NewVisit, Visit
  <1>5. KnownVisits' = KnownVisits \cup {x} /\ Rows' = Rows
    BY <1>1 DEF KnownVisits, Rows
  <1>6. VisitsTypeOK'
    BY <1>1, <1>2, <1>3, <1>4, <1>5 DEF VisitsTypeOK
  <1>7. VisitsInOrder'
    <2>1. \A y \in KnownVisits : y.id <= accepted /\ y.id \in Nat /\ y.id # x.id
      BY <1>4, VisitFacts DEF VisitsInv, VisitsInOrder
    <2>2. \A y \in visiting : y \in KnownVisits
      BY DEF KnownVisits
    <2>3. \A n \in Rows : visits[n] \in KnownVisits
      BY DEF KnownVisits
    <2>4. \A y \in KnownVisits' : y.id <= accepted' /\ y.boot <= boot' /\ y.at <= now'
      BY <1>1, <1>4, <1>5, <2>1, VisitFacts DEF VisitsInv, VisitsInOrder
    <2> QED
      BY <1>1, <1>5, <2>1, <2>2, <2>3, <2>4 DEF VisitsInv, VisitsInOrder
  <1>8. PingsAreKnown'
    BY <1>1, <1>2, <1>4, <1>5, VisitFacts DEF VisitsInv, VisitsInOrder, PingsAreKnown
  <1>9. OneVisitPerWindow'
    <2>1. \A y \in KnownVisits : y.from = v /\ y.boot = boot => y.at + Window <= now
      BY <1>1, VisitFacts DEF VisitsInv, PingsAreKnown, Throttled
    <2> QED
      BY <1>1, <1>4, <1>5, <2>1 DEF VisitsInv, OneVisitPerWindow
  <1> QED
    BY <1>6, <1>7, <1>8, <1>9 DEF VisitsInv

LEMMA SaveKeepsVisits ==
  ASSUME VisitsInv, NEW x \in visiting, SaveVisit(x)
  PROVE  VisitsInv'
  <1>1. /\ visiting' = visiting \ {x} /\ saved' = saved + 1
        /\ visits' = [n \in Rows \cup {saved + 1} |-> IF n \in Rows THEN visits[n] ELSE x]
        /\ UNCHANGED <<now, boot, recentPings, accepted>>
    BY DEF SaveVisit
  <1>2. VisitsTypeOK /\ x \in Visit /\ saved + 1 \notin Rows /\ saved \in Nat
    BY DEF VisitsInv, VisitsTypeOK
  <1>3. /\ Rows' = Rows \cup {saved + 1} /\ visits'[saved + 1] = x
        /\ \A n \in Rows : visits'[n] = visits[n]
    BY <1>1, <1>2 DEF Rows
  <1>4. KnownVisits' \subseteq KnownVisits
    BY <1>1, <1>3 DEF KnownVisits
  <1>5. VisitsTypeOK'
    <2>1. Rows' \subseteq 1 .. saved' /\ saved' \in Nat
      BY <1>1, <1>2, <1>3 DEF VisitsTypeOK
    <2> QED
      BY <1>1, <1>2, <1>3, <2>1 DEF VisitsTypeOK
  <1>6. /\ OneVisitPerWindow' /\ PingsAreKnown'
        /\ \A y \in KnownVisits' : y.boot <= boot' /\ y.at <= now'
    BY <1>1, <1>4, KnownFewer, VisitFacts DEF VisitsInv, PingsAreKnown
  <1>7. VisitsInOrder'
    BY <1>1, <1>3, <1>4, <1>6 DEF VisitsInv, VisitsInOrder
  <1> QED
    BY <1>5, <1>6, <1>7 DEF VisitsInv

LEMMA DeleteKeepsVisits ==
  ASSUME VisitsInv, NEW ids, DeleteVisits(ids)
  PROVE  VisitsInv'
  <1>1. /\ visits' = [n \in {r \in Rows : visits[r].id \notin ids} |-> visits[n]]
        /\ UNCHANGED <<now, boot, recentPings, accepted, visiting, saved>>
    BY DEF DeleteVisits
  <1>2. /\ Rows' = {r \in Rows : visits[r].id \notin ids}
        /\ \A n \in Rows' : visits'[n] = visits[n]
    BY <1>1 DEF Rows
  <1>3. KnownVisits' \subseteq KnownVisits
    BY <1>1, <1>2 DEF KnownVisits
  <1>4. VisitsTypeOK'
    BY <1>1, <1>2 DEF VisitsInv, VisitsTypeOK
  <1>5. /\ OneVisitPerWindow' /\ PingsAreKnown'
        /\ \A y \in KnownVisits' : y.boot <= boot' /\ y.at <= now'
    BY <1>1, <1>3, KnownFewer, VisitFacts DEF VisitsInv, PingsAreKnown
  <1>6. VisitsInOrder'
    BY <1>1, <1>2, <1>3, <1>5 DEF VisitsInv, VisitsInOrder
  <1> QED
    BY <1>4, <1>5, <1>6 DEF VisitsInv

LEMMA VisitStepKeepsVisits ==
  ASSUME VisitsInv, VisitStep
  PROVE  VisitsInv'
  <1>1. CASE Later
    <2>1. /\ now < MaxTime /\ now' = now + 1
          /\ UNCHANGED <<boot, recentPings, accepted, visiting, saved, visits>>
          /\ KnownVisits' = KnownVisits /\ Rows' = Rows
      BY <1>1 DEF Later, KnownVisits, Rows
    <2>2. VisitsTypeOK'
      BY <2>1, VisitFacts DEF VisitsInv, VisitsTypeOK
    <2>3. /\ OneVisitPerWindow' /\ PingsAreKnown'
          /\ \A y \in KnownVisits' : y.boot <= boot' /\ y.at <= now'
      BY <2>1, KnownFewer, VisitFacts DEF VisitsInv, PingsAreKnown
    <2>4. VisitsInOrder'
      BY <2>1, <2>3 DEF VisitsInv, VisitsInOrder
    <2> QED
      BY <2>2, <2>3, <2>4 DEF VisitsInv
  <1>2. CASE Cleanup
    <2>1. /\ recentPings' = [v \in Visitor |->
               IF recentPings[v] # Never /\ now - recentPings[v] > Keep THEN Never
                                                                        ELSE recentPings[v]]
          /\ UNCHANGED <<now, boot, accepted, visiting, saved, visits>>
          /\ KnownVisits' = KnownVisits /\ Rows' = Rows
      BY <1>2 DEF Cleanup, KnownVisits, Rows
    <2>2. VisitsTypeOK'
      BY <2>1, VisitFacts DEF VisitsInv, VisitsTypeOK
    <2>3. ASSUME NEW x \in KnownVisits, x.boot = boot
          PROVE  \/ recentPings'[x.from] # Never /\ x.at <= recentPings'[x.from]
                 \/ x.at + Window <= now
      BY <2>1, <2>3, VisitFacts DEF VisitsInv, PingsAreKnown
    <2>4. OneVisitPerWindow' /\ VisitsInOrder'
      BY <2>1 DEF VisitsInv, OneVisitPerWindow, VisitsInOrder
    <2>5. PingsAreKnown'
      BY <2>1, <2>3 DEF VisitsInv, PingsAreKnown
    <2> QED
      BY <2>2, <2>4, <2>5 DEF VisitsInv
  <1>3. CASE Restart
    <2>1. /\ boot < MaxBoot /\ boot' = boot + 1 /\ recentPings' = [v \in Visitor |-> Never]
          /\ visiting' = {} /\ UNCHANGED <<now, accepted, saved, visits>> /\ Rows' = Rows
      BY <1>3 DEF Restart, Rows
    <2>2. KnownVisits' \subseteq KnownVisits
      BY <2>1 DEF KnownVisits
    <2>3. VisitsTypeOK'
      BY <2>1, VisitFacts DEF VisitsInv, VisitsTypeOK
    <2>4. \A x \in KnownVisits' : x.boot < boot'
      BY <2>1, <2>2, VisitFacts DEF VisitsInv, VisitsInOrder
    <2>5. PingsAreKnown' /\ OneVisitPerWindow'
      BY <2>1, <2>2, <2>4, VisitFacts DEF VisitsInv, PingsAreKnown, OneVisitPerWindow
    <2>6. VisitsInOrder'
      BY <2>1, <2>2, VisitFacts DEF VisitsInv, VisitsInOrder
    <2> QED
      BY <2>3, <2>5, <2>6 DEF VisitsInv
  <1>4. CASE \E v \in Visitor : Ping(v)
    BY <1>4, PingKeepsVisits
  <1>5. CASE \E x \in visiting : SaveVisit(x)
    BY <1>5, SaveKeepsVisits
  <1>6. ASSUME NEW x \in visiting, VisitFails(x)
        PROVE  VisitsInv'
    <2>1. /\ visiting' = visiting \ {x} /\ Rows' = Rows
          /\ UNCHANGED <<now, boot, recentPings, accepted, saved, visits>>
      BY <1>6 DEF VisitFails, Rows
    <2>2. KnownVisits' \subseteq KnownVisits
      BY <2>1 DEF KnownVisits
    <2>3. VisitsTypeOK'
      BY <2>1 DEF VisitsInv, VisitsTypeOK
    <2> QED
      BY <2>1, <2>2, <2>3 DEF VisitsInv, VisitsInOrder, PingsAreKnown, OneVisitPerWindow
  <1>7. CASE \E ids : DeleteVisits(ids)
    BY <1>7, DeleteKeepsVisits
  <1>8. CASE UNCHANGED visitVars
    BY <1>8 DEF visitVars, VisitsInv, VisitsTypeOK, VisitsInOrder, PingsAreKnown, OneVisitPerWindow,
                KnownVisits, Rows
  <1> QED
    BY <1>1, <1>2, <1>3, <1>4, <1>5, <1>6, <1>7, <1>8 DEF VisitStep

-----------------------------------------------------------------------------
(* The traffic view: the invariant.                                        *)

\* Ids of visits that are not on their way any more.
Settled == {i \in 1 .. accepted : \A x \in visiting : x.id # i}

\* The latest request, if its answer is still to come, asks for the list on the
\* screen, and its rows are there.
LoadsInv ==
  /\ mounted \/ controls = FirstControls
  /\ \A k, l \in loads : k.id = l.id => k = l
  /\ \A l \in loads : IsCurrent(l) =>
       mounted /\ (~overtaken => l.controls = controls) /\ l.rows \cap deleted = {}

\* What was deleted was in a row, and is in none.
DeletionInv ==
  /\ shown.rows \cup deletion.ids \cup deleted \subseteq Settled
  /\ \A l \in loads : l.rows \subseteq Settled
  /\ \A n \in Rows : visits[n].id \notin deleted
                     /\ (deletion.done => visits[n].id \notin deletion.ids)
  /\ deletion # NoDeletion => deletion.ids # {}
  /\ deletion # NoDeletion /\ deletion.mine =>
       mounted /\ (~overtaken => deletion.controls = controls)

ViewInv == ViewTypeOK /\ LoadsInv /\ DeletionInv /\ ListIsCurrent

\* A step of the table keeps what is settled, and brings to it only visits that
\* were on their way.
LEMMA SettledStay ==
  ASSUME VisitsInv, VisitStep
  PROVE  /\ Settled \subseteq Settled' /\ accepted \in Nat /\ accepted' \in Nat
         /\ accepted <= accepted' /\ 1 .. accepted \subseteq 1 .. accepted'
         /\ \A n \in Rows' : \/ n \in Rows /\ visits'[n] = visits[n]
                             \/ visits'[n].id \notin Settled
  <1>1. accepted \in Nat
    BY VisitFacts
  <1>2. CASE \E v \in Visitor : Ping(v)
    <2>1. PICK v \in Visitor : Ping(v)
      BY <1>2
    <2>2. /\ accepted' = accepted + 1 /\ visiting' = visiting \cup {NewVisit(v)}
          /\ NewVisit(v).id = accepted + 1 /\ visits' = visits /\ Rows' = Rows
      BY <2>1 DEF Ping, NewVisit, Rows
    <2> QED
      BY <1>1, <2>2 DEF Settled
  <1>3. CASE \E x \in visiting : SaveVisit(x)
    <2>1. PICK x \in visiting : SaveVisit(x)
      BY <1>3
    <2>2. /\ accepted' = accepted /\ visiting' = visiting \ {x} /\ saved + 1 \notin Rows
          /\ visits' = [n \in Rows \cup {saved + 1} |-> IF n \in Rows THEN visits[n] ELSE x]
      BY <2>1 DEF SaveVisit, VisitsInv, VisitsTypeOK
    <2>3. Rows' = Rows \cup {saved + 1}
      BY <2>2 DEF Rows
    <2> QED
      BY <1>1, <2>2, <2>3 DEF Settled
  <1>4. CASE \E ids : DeleteVisits(ids)
    <2>1. PICK ids : DeleteVisits(ids)
      BY <1>4
    <2>2. /\ accepted' = accepted /\ visiting' = visiting
          /\ visits' = [n \in {r \in Rows : visits[r].id \notin ids} |-> visits[n]]
      BY <2>1 DEF DeleteVisits
    <2>3. Rows' = {r \in Rows : visits[r].id \notin ids}
      BY <2>2 DEF Rows
    <2> QED
      BY <1>1, <2>2, <2>3 DEF Settled
  <1>5. ASSUME accepted' = accepted, visiting' \subseteq visiting, visits' = visits
        PROVE  /\ Settled \subseteq Settled' /\ accepted' \in Nat /\ Rows' = Rows
    BY <1>1, <1>5 DEF Settled, Rows
  <1>6. CASE Later \/ Cleanup \/ Restart \/ (\E x \in visiting : VisitFails(x)) \/ UNCHANGED visitVars
    <2>1. accepted' = accepted /\ visiting' \subseteq visiting /\ visits' = visits
      BY <1>6 DEF Later, Cleanup, Restart, VisitFails, visitVars
    <2> QED
      BY <1>1, <1>5, <2>1
  <1> QED
    BY <1>2, <1>3, <1>4, <1>6 DEF VisitStep

\* A step of the table while nothing happens in the view.
LEMMA TableKeepsView ==
  ASSUME VisitsInv, ViewInv, VisitStep, UNCHANGED viewVars
  PROVE  ViewInv'
  <1>1. UNCHANGED <<mounted, controls, latest, loads, loading, failed, shown, deletion, deleted,
                    overtaken>>
    BY DEF viewVars
  <1>2. /\ Settled \subseteq Settled' /\ 1 .. accepted \subseteq 1 .. accepted'
        /\ \A n \in Rows' : \/ n \in Rows /\ visits'[n] = visits[n]
                            \/ visits'[n].id \notin Settled
    BY SettledStay
  <1>3. ViewTypeOK'
    BY <1>1, <1>2 DEF ViewInv, ViewTypeOK
  <1>4. LoadsInv' /\ ListIsCurrent'
    BY <1>1 DEF ViewInv, LoadsInv, ListIsCurrent, ListMatchesControls, DeletedRowsAreGone,
                SpinnersEnd, IsCurrent
  <1>5. DeletionInv'
    BY <1>1, <1>2 DEF ViewInv, DeletionInv
  <1> QED
    BY <1>3, <1>4, <1>5 DEF ViewInv

\* The rows of a page are settled, and not deleted.
LEMMA PageIsListed ==
  ASSUME VisitsInv, NEW app, NEW page
  PROVE  /\ \A i \in Page(app, page) : \E n \in Rows : visits[n].id = i
         /\ Page(app, page) \subseteq Settled
  <1>1. \A i \in Page(app, page) : \E n \in Rows : visits[n].id = i
    BY DEF Page, Ids, Matching
  <1>2. \A n \in Rows : visits[n].id \in Settled
    <2>1. \A n \in Rows : visits[n] \in KnownVisits /\ visits[n] \in Visit
      BY DEF KnownVisits, VisitsInv, VisitsTypeOK
    <2>2. \A n \in Rows : visits[n].id \in 1 .. MaxVisit /\ visits[n].id <= accepted
      BY <2>1 DEF VisitsInv, VisitsInOrder, Visit
    <2> QED
      BY <2>2, VisitFacts DEF VisitsInv, VisitsInOrder, Settled
  <1> QED
    BY <1>1, <1>2

-----------------------------------------------------------------------------
(* The traffic view: the steps.                                            *)

\* A request for the list begins: it is the latest one.
LEMMA Beginning ==
  ASSUME ViewInv, NEW c \in Controls, NEW number \in Nat, latest < number, Begin(c, number),
         mounted', overtaken' \/ c = controls', accepted' = accepted
  PROVE  /\ latest' \in Nat /\ loading' = TRUE
         /\ loads' \subseteq [id : 1 .. latest', controls : Controls, rows : SUBSET (1 .. accepted'),
                              answered : BOOLEAN]
         /\ LoadsInv' /\ ListIsCurrent' /\ \A l \in loads' : l.rows \subseteq Settled
  <1> DEFINE new == [id |-> number, controls |-> c, rows |-> {}, answered |-> FALSE]
  <1>1. latest' = number /\ loads' = loads \cup {new} /\ loading' = TRUE
    BY DEF Begin
  <1>2. /\ new \in [id : 1 .. number, controls : Controls, rows : SUBSET (1 .. accepted),
                    answered : BOOLEAN]
        /\ new.id = number /\ new.controls = c /\ new.rows = {}
    BY DEF ViewInv, ViewTypeOK
  <1>3. latest \in Nat /\ \A l \in loads : l.id \in 1 .. latest /\ l.id # number
    BY DEF ViewInv, ViewTypeOK
  <1>4. loads' \subseteq [id : 1 .. latest', controls : Controls, rows : SUBSET (1 .. accepted'),
                          answered : BOOLEAN]
    <2>1. 1 .. latest \subseteq 1 .. number
      BY <1>3
    <2> QED
      BY <1>1, <1>2, <2>1 DEF ViewInv, ViewTypeOK
  <1>5. LoadsInv'
    BY <1>1, <1>2, <1>3 DEF ViewInv, LoadsInv, IsCurrent
  <1>6. ListIsCurrent'
    BY <1>1, <1>2 DEF ListIsCurrent, ListMatchesControls, DeletedRowsAreGone, SpinnersEnd, IsCurrent
  <1> QED
    BY <1>1, <1>2, <1>4, <1>5, <1>6 DEF ViewInv, DeletionInv

ViewStep ==
  \/ Mount \/ Unmount \/ Refresh \/ DoDeletion \/ DeletionFails \/ Deleted
  \/ \E c \in Controls : Choose(c)
  \/ \E l \in loads : Answer(l) \/ Receive(l) \/ LoadFails(l)
  \/ \E ids : AskDeletion(ids)

LEMMA ViewTypes ==
  ASSUME ViewInv
  PROVE  /\ FirstControls \in Controls /\ controls \in Controls /\ latest \in Nat
         /\ latest + 1 \in Nat /\ latest + 2 \in Nat /\ latest < latest + 1 /\ latest < latest + 2
         /\ mounted \in BOOLEAN /\ loading \in BOOLEAN /\ failed \in BOOLEAN
         /\ overtaken \in BOOLEAN
         /\ deletion.controls \in Controls
         /\ deletion.done => deletion # NoDeletion
         /\ NothingShown \in [rows : SUBSET (1 .. accepted), controls : Controls]
         /\ NoDeletion \in [ids : SUBSET (1 .. accepted), controls : Controls, done : BOOLEAN,
                            mine : BOOLEAN]
         /\ NothingShown.rows = {} /\ NoDeletion.ids = {} /\ NoDeletion.mine /\ ~NoDeletion.done
  <1>1. FirstControls \in Controls
    BY TrafficConstants DEF FirstControls, Controls, Filter
  <1>2. latest \in Nat /\ deletion.controls \in Controls
    BY DEF ViewInv, ViewTypeOK
  <1> QED
    BY <1>1, <1>2 DEF ViewInv, ViewTypeOK, NothingShown, NoDeletion

\* The rows and what is settled stay as they are.
LEMMA TableStands ==
  ASSUME UNCHANGED visitVars
  PROVE  /\ UNCHANGED <<now, boot, recentPings, accepted, visiting, saved, visits>>
         /\ Rows' = Rows /\ Settled' = Settled /\ KnownVisits' = KnownVisits
  BY DEF visitVars, Rows, Settled, KnownVisits

LEMMA OpeningSteps ==
  ASSUME VisitsInv, ViewInv,
         Mount \/ Refresh \/ \E c \in Controls : Choose(c)
  PROVE  ViewInv'
  <1>1. /\ UNCHANGED <<failed, shown, deletion, deleted>> /\ UNCHANGED visitVars
        /\ mounted' = TRUE
    <2>1. mounted \in BOOLEAN
      BY ViewTypes
    <2>2. CASE Mount
      BY <2>2 DEF Mount
    <2>3. CASE Refresh
      BY <2>1, <2>3 DEF Refresh
    <2>4. CASE \E c \in Controls : Choose(c)
      BY <2>1, <2>4 DEF Choose
    <2> QED
      BY <2>2, <2>3, <2>4
  <1>2. /\ UNCHANGED <<now, boot, recentPings, accepted, visiting, saved, visits>>
        /\ Rows' = Rows /\ Settled' = Settled
    BY <1>1, TableStands
  <1>3. PICK c \in Controls, number \in Nat :
          /\ latest < number /\ Begin(c, number) /\ controls' \in Controls
          /\ overtaken' \in BOOLEAN /\ (overtaken' \/ c = controls')
          /\ deletion # NoDeletion /\ deletion.mine => overtaken' \/ deletion.controls = controls'
    <2>1. CASE Mount
      <3>1. /\ ~mounted /\ Begin(FirstControls, latest + 1) /\ UNCHANGED <<controls, overtaken>>
        BY <2>1 DEF Mount
      <3>2. FirstControls = controls
        BY <3>1 DEF ViewInv, LoadsInv
      <3> QED
        BY <3>1, <3>2, ViewTypes DEF ViewInv, DeletionInv
    <2>2. CASE Refresh
      <3>1. /\ mounted /\ Begin(controls, latest + 1) /\ UNCHANGED controls
            /\ overtaken' = (overtaken /\ deletion # NoDeletion)
        BY <2>2 DEF Refresh
      <3> QED
        BY <3>1, ViewTypes DEF ViewInv, DeletionInv
    <2>3. CASE \E c \in Controls : Choose(c)
      <3>1. PICK c \in Controls : Choose(c)
        BY <2>3
      <3>2. /\ Begin(c, latest + 2) /\ controls' = c
            /\ overtaken' = (overtaken \/ deletion # NoDeletion)
        BY <3>1 DEF Choose
      <3> QED
        BY <3>2, ViewTypes
    <2> QED
      BY <2>1, <2>2, <2>3
  <1>4. /\ latest' \in Nat /\ loading' = TRUE
        /\ loads' \subseteq [id : 1 .. latest', controls : Controls, rows : SUBSET (1 .. accepted'),
                             answered : BOOLEAN]
        /\ LoadsInv' /\ ListIsCurrent' /\ \A l \in loads' : l.rows \subseteq Settled
    BY <1>1, <1>2, <1>3, Beginning
  <1>5. ViewTypeOK'
    BY <1>1, <1>2, <1>3, <1>4 DEF ViewInv, ViewTypeOK
  <1>6. DeletionInv'
    BY <1>1, <1>2, <1>3, <1>4 DEF ViewInv, DeletionInv
  <1> QED
    BY <1>4, <1>5, <1>6 DEF ViewInv

LEMMA UnmountKeepsView ==
  ASSUME VisitsInv, ViewInv, Unmount
  PROVE  ViewInv'
  <1>1. /\ mounted' = FALSE /\ latest' = latest + 1 /\ loading' = FALSE /\ failed' = FALSE
        /\ overtaken' = FALSE /\ controls' = FirstControls /\ shown' = NothingShown
        /\ deletion' = [deletion EXCEPT !.mine = (deletion = NoDeletion)]
        /\ UNCHANGED <<loads, deleted>>
        /\ UNCHANGED <<now, boot, recentPings, accepted, visiting, saved, visits>>
        /\ Rows' = Rows /\ Settled' = Settled
    BY TableStands DEF Unmount
  <1>2. /\ latest \in Nat /\ \A l \in loads : l.id \in 1 .. latest /\ l.id # latest + 1
        /\ 1 .. latest \subseteq 1 .. (latest + 1)
    BY DEF ViewInv, ViewTypeOK
  <1>3. /\ deletion' \in [ids : SUBSET (1 .. accepted), controls : Controls, done : BOOLEAN,
                          mine : BOOLEAN]
        /\ deletion'.ids = deletion.ids /\ deletion'.done = deletion.done
        /\ deletion'.mine = (deletion = NoDeletion)
    BY <1>1 DEF ViewInv, ViewTypeOK
  <1>4. deletion = NoDeletion => deletion' = NoDeletion
    <2>1. SUFFICES ASSUME deletion = NoDeletion
                   PROVE  deletion' = NoDeletion
      OBVIOUS
    <2>2. deletion' = [NoDeletion EXCEPT !.mine = TRUE]
      BY <1>1, <2>1
    <2> QED
      BY <2>2 DEF NoDeletion
  <1>5. loads \subseteq [id : 1 .. latest', controls : Controls, rows : SUBSET (1 .. accepted),
                         answered : BOOLEAN]
    BY <1>1, <1>2 DEF ViewInv, ViewTypeOK
  <1>6. ViewTypeOK'
    BY <1>1, <1>2, <1>3, <1>5, ViewTypes DEF ViewInv, ViewTypeOK
  <1>7. LoadsInv' /\ ListIsCurrent'
    BY <1>1, <1>2 DEF ViewInv, LoadsInv, IsCurrent, ListIsCurrent, ListMatchesControls,
                      DeletedRowsAreGone, SpinnersEnd
  <1>8. DeletionInv'
    BY <1>1, <1>3, <1>4, ViewTypes DEF ViewInv, DeletionInv
  <1> QED
    BY <1>6, <1>7, <1>8 DEF ViewInv

LEMMA AnswerKeepsView ==
  ASSUME VisitsInv, ViewInv, NEW l \in loads, Answer(l)
  PROVE  ViewInv'
  <1>1. PICK rows : rows = Page(l.controls.app, l.controls.page)
    OBVIOUS
  <1>2. PICK k : k = [l EXCEPT !.answered = TRUE, !.rows = rows]
    OBVIOUS
  <1>3. /\ loads' = (loads \ {l}) \cup {k}
        /\ UNCHANGED <<mounted, controls, latest, loading, failed, shown, deletion, deleted, overtaken>>
        /\ UNCHANGED <<now, boot, recentPings, accepted, visiting, saved, visits>>
        /\ Rows' = Rows /\ Settled' = Settled
    BY <1>1, <1>2, TableStands DEF Answer
  <1>4. rows \subseteq Settled /\ rows \subseteq 1 .. accepted /\ rows \cap deleted = {}
    BY <1>1, PageIsListed DEF ViewInv, DeletionInv, Settled
  <1>5. l \in [id : 1 .. latest, controls : Controls, rows : SUBSET (1 .. accepted),
               answered : BOOLEAN]
    BY DEF ViewInv, ViewTypeOK
  <1>6. /\ k \in [id : 1 .. latest, controls : Controls, rows : SUBSET (1 .. accepted),
                  answered : BOOLEAN]
        /\ k.id = l.id /\ k.controls = l.controls /\ k.rows = rows
    BY <1>2, <1>4, <1>5
  <1>7. ViewTypeOK'
    BY <1>3, <1>6 DEF ViewInv, ViewTypeOK
  <1>8. LoadsInv' /\ ListIsCurrent'
    BY <1>3, <1>4, <1>6 DEF ViewInv, LoadsInv, IsCurrent, ListIsCurrent, ListMatchesControls,
                            DeletedRowsAreGone, SpinnersEnd
  <1>9. DeletionInv'
    BY <1>3, <1>4, <1>6 DEF ViewInv, DeletionInv
  <1> QED
    BY <1>7, <1>8, <1>9 DEF ViewInv

\* The answer to a request has come, or will not.
LEMMA LoadEndsKeepView ==
  ASSUME VisitsInv, ViewInv, NEW l \in loads, Receive(l) \/ LoadFails(l)
  PROVE  ViewInv'
  <1>1. /\ loads' = loads \ {l} /\ UNCHANGED <<mounted, controls, latest, deletion, deleted, overtaken>>
        /\ UNCHANGED <<now, boot, recentPings, accepted, visiting, saved, visits>>
        /\ Rows' = Rows /\ Settled' = Settled
    BY TableStands DEF Receive, LoadFails
  <1>2. /\ shown' = shown \/ shown' = [rows |-> l.rows, controls |-> l.controls]
        /\ failed' \in BOOLEAN /\ loading' \in BOOLEAN
    BY ViewTypes DEF Receive, LoadFails
  <1>3. l \in [id : 1 .. latest, controls : Controls, rows : SUBSET (1 .. accepted),
               answered : BOOLEAN]
    BY DEF ViewInv, ViewTypeOK
  <1>4. shown' \in [rows : SUBSET (1 .. accepted), controls : Controls]
    BY <1>2, <1>3 DEF ViewInv, ViewTypeOK
  <1>5. ViewTypeOK'
    BY <1>1, <1>2, <1>4 DEF ViewInv, ViewTypeOK
  <1>6. LoadsInv'
    BY <1>1 DEF ViewInv, LoadsInv, IsCurrent
  <1>7. DeletionInv'
    BY <1>1, <1>2 DEF ViewInv, DeletionInv
  <1>8. ListIsCurrent'
    <2>1. CASE ~IsCurrent(l)
      <3>1. UNCHANGED <<shown, failed, loading>>
        BY <2>1 DEF Receive, LoadFails
      <3> QED
        BY <1>1, <2>1, <3>1 DEF ViewInv, IsCurrent, ListIsCurrent, ListMatchesControls,
                                DeletedRowsAreGone, SpinnersEnd
    <2>2. CASE IsCurrent(l)
      <3>1. /\ loading' = FALSE
            /\ failed' = TRUE \/ shown' = [rows |-> l.rows, controls |-> l.controls]
        BY <2>2 DEF Receive, LoadFails
      <3>2. (overtaken \/ l.controls = controls) /\ l.rows \cap deleted = {}
        BY <2>2 DEF ViewInv, LoadsInv
      <3> QED
        BY <1>1, <3>1, <3>2 DEF ListIsCurrent, ListMatchesControls, DeletedRowsAreGone, SpinnersEnd
    <2> QED
      BY <2>1, <2>2
  <1> QED
    BY <1>5, <1>6, <1>7, <1>8 DEF ViewInv

\* Another deletion, or none any more.
LEMMA DeletionKeepsView ==
  ASSUME VisitsInv, ViewInv, (\E ids : AskDeletion(ids)) \/ DeletionFails
  PROVE  ViewInv'
  <1>1. /\ UNCHANGED <<mounted, controls, latest, loads, loading, failed, shown, deleted, overtaken>>
        /\ UNCHANGED <<now, boot, recentPings, accepted, visiting, saved, visits>>
        /\ Rows' = Rows /\ Settled' = Settled
    BY TableStands DEF AskDeletion, DeletionFails
  <1>2. /\ deletion' \in [ids : SUBSET (1 .. accepted), controls : Controls, done : BOOLEAN,
                          mine : BOOLEAN]
        /\ deletion'.ids \subseteq shown.rows /\ ~deletion'.done
        /\ deletion' # NoDeletion => deletion'.ids # {} /\ mounted /\ deletion'.controls = controls
    <2>1. CASE DeletionFails
      BY <2>1, ViewTypes DEF DeletionFails
    <2>2. CASE \E ids : AskDeletion(ids)
      <3>1. PICK ids : AskDeletion(ids)
        BY <2>2
      <3>2. /\ deletion' = [ids |-> ids, controls |-> controls, done |-> FALSE, mine |-> TRUE]
            /\ ids # {} /\ ids \subseteq shown.rows /\ mounted
        BY <3>1 DEF AskDeletion
      <3>3. shown.rows \subseteq 1 .. accepted
        BY DEF ViewInv, ViewTypeOK
      <3> QED
        BY <3>2, <3>3, ViewTypes
    <2> QED
      BY <2>1, <2>2
  <1>3. ViewTypeOK'
    BY <1>1, <1>2 DEF ViewInv, ViewTypeOK
  <1>4. LoadsInv' /\ ListIsCurrent'
    BY <1>1 DEF ViewInv, LoadsInv, IsCurrent, ListIsCurrent, ListMatchesControls,
                DeletedRowsAreGone, SpinnersEnd
  <1>5. DeletionInv'
    BY <1>1, <1>2 DEF ViewInv, DeletionInv
  <1> QED
    BY <1>3, <1>4, <1>5 DEF ViewInv

LEMMA DoDeletionKeepsView ==
  ASSUME VisitsInv, ViewInv, DoDeletion
  PROVE  ViewInv'
  <1>1. /\ deletion # NoDeletion /\ deletion' = [deletion EXCEPT !.done = TRUE]
        /\ DeleteVisits(deletion.ids)
        /\ UNCHANGED <<mounted, controls, latest, loads, loading, failed, shown, deleted, overtaken>>
    BY DEF DoDeletion
  <1>2. /\ visits' = [n \in {r \in Rows : visits[r].id \notin deletion.ids} |-> visits[n]]
        /\ UNCHANGED <<accepted, visiting>>
    BY <1>1 DEF DeleteVisits
  <1>3. /\ Settled' = Settled /\ Rows' = {r \in Rows : visits[r].id \notin deletion.ids}
        /\ \A n \in Rows' : visits'[n] = visits[n]
    BY <1>2 DEF Settled, Rows
  <1>4. /\ deletion' \in [ids : SUBSET (1 .. accepted), controls : Controls, done : BOOLEAN,
                          mine : BOOLEAN]
        /\ deletion'.ids = deletion.ids /\ deletion'.controls = deletion.controls
        /\ deletion'.mine = deletion.mine
    BY <1>1 DEF ViewInv, ViewTypeOK
  <1>5. ViewTypeOK'
    BY <1>1, <1>2, <1>4 DEF ViewInv, ViewTypeOK
  <1>6. LoadsInv' /\ ListIsCurrent'
    BY <1>1 DEF ViewInv, LoadsInv, IsCurrent, ListIsCurrent, ListMatchesControls,
                DeletedRowsAreGone, SpinnersEnd
  <1>7. DeletionInv'
    BY <1>1, <1>3, <1>4 DEF ViewInv, DeletionInv
  <1> QED
    BY <1>5, <1>6, <1>7 DEF ViewInv

\* The administrator is told that the rows are deleted, and the list is asked for.
LEMMA DeletedKeepsView ==
  ASSUME VisitsInv, ViewInv, Deleted
  PROVE  ViewInv'
  <1>1. /\ deletion.done /\ deletion' = NoDeletion /\ deletion # NoDeletion
        /\ UNCHANGED <<mounted, controls, failed, shown, overtaken>>
        /\ UNCHANGED <<now, boot, recentPings, accepted, visiting, saved, visits>>
        /\ Rows' = Rows /\ Settled' = Settled
    BY TableStands, ViewTypes DEF Deleted
  <1>2. deletion.ids \subseteq 1 .. accepted /\ deleted \subseteq 1 .. accepted
    BY DEF ViewInv, ViewTypeOK
  <1>3. CASE deletion.mine
    <2>1. /\ deleted' = deleted \cup deletion.ids /\ Begin(deletion.controls, latest + 1)
      BY <1>3 DEF Deleted
    <2>2. mounted /\ (overtaken \/ deletion.controls = controls)
      BY <1>1, <1>3 DEF ViewInv, DeletionInv
    <2>3. mounted' /\ (overtaken' \/ deletion.controls = controls') /\ accepted' = accepted
      BY <1>1, <2>2, ViewTypes
    <2>4. /\ latest' \in Nat /\ loading' = TRUE
          /\ loads' \subseteq [id : 1 .. latest', controls : Controls,
                               rows : SUBSET (1 .. accepted'), answered : BOOLEAN]
          /\ LoadsInv' /\ ListIsCurrent' /\ \A l \in loads' : l.rows \subseteq Settled
      BY <2>1, <2>3, ViewTypes, Beginning
    <2>5. ViewTypeOK'
      BY <1>1, <1>2, <2>1, <2>4, ViewTypes DEF ViewInv, ViewTypeOK
    <2>6. DeletionInv'
      BY <1>1, <2>1, <2>4, ViewTypes DEF ViewInv, DeletionInv
    <2> QED
      BY <2>4, <2>5, <2>6 DEF ViewInv
  <1>4. CASE ~deletion.mine
    <2>1. UNCHANGED <<deleted, latest, loads, loading>>
      BY <1>4 DEF Deleted
    <2>2. ViewTypeOK'
      BY <1>1, <2>1, ViewTypes DEF ViewInv, ViewTypeOK
    <2>3. LoadsInv' /\ ListIsCurrent'
      BY <1>1, <2>1 DEF ViewInv, LoadsInv, IsCurrent, ListIsCurrent, ListMatchesControls,
                        DeletedRowsAreGone, SpinnersEnd
    <2>4. DeletionInv'
      BY <1>1, <2>1, ViewTypes DEF ViewInv, DeletionInv
    <2> QED
      BY <2>2, <2>3, <2>4 DEF ViewInv
  <1> QED
    BY <1>3, <1>4

LEMMA ViewStepKeepsView ==
  ASSUME VisitsInv, ViewInv, ViewStep
  PROVE  ViewInv'
  BY OpeningSteps, UnmountKeepsView, AnswerKeepsView, LoadEndsKeepView, DeletionKeepsView,
     DoDeletionKeepsView, DeletedKeepsView
  DEF ViewStep

-----------------------------------------------------------------------------
(* Exports: positions in a list that is sorted by number, newest first.    *)

\* How many members of a set are after one of them.
After(S, n) == Cardinality({m \in S : m > n})

\* A set of natural numbers has a least member.
LEMMA LeastNumber ==
  ASSUME NEW T \in SUBSET Nat, T # {}
  PROVE  \E m \in T : \A n \in T : m <= n
  <1>1. PICK m \in T : \A n \in T : ~(<<n, m>> \in OpToRel(<, Nat))
    BY NatLessThanWellFounded, WFMin, Zenon
  <1>2. ASSUME NEW n \in T
        PROVE  m <= n
    <2>1. m \in Nat /\ n \in Nat
      OBVIOUS
    <2>2. n < m => <<n, m>> \in OpToRel(<, Nat)
      BY <2>1 DEF OpToRel
    <2>3. ~(n < m)
      BY <1>1, <2>2, Zenon
    <2> QED
      BY <2>1, <2>3
  <1> QED
    BY <1>2

LEMMA AfterIsNatural ==
  ASSUME NEW S \in SUBSET Nat, IsFiniteSet(S), NEW n
  PROVE  After(S, n) \in Nat /\ IsFiniteSet({m \in S : m > n})
  <1>1. {m \in S : m > n} \in SUBSET S
    OBVIOUS
  <1>2. IsFiniteSet({m \in S : m > n})
    BY <1>1, FS_Subset
  <1> QED
    BY <1>2, FS_CardinalityType DEF After

\* Every position up to that of a member is the position of a member.
LEMMA PositionsAreTaken ==
  ASSUME NEW S \in SUBSET Nat, IsFiniteSet(S), NEW n \in S, NEW j \in Nat, j <= After(S, n)
  PROVE  \E m \in S : After(S, m) = j
  <1> DEFINE T == {k \in Nat : j <= k /\ \E m \in S : After(S, m) = k}
  <1>1. After(S, n) \in T
    BY AfterIsNatural
  <1>2. PICK k \in T : \A i \in T : k <= i
    <2>1. T \in SUBSET Nat /\ T # {}
      BY <1>1
    <2> HIDE DEF T
    <2> QED
      BY <2>1, LeastNumber
  <1>3. PICK m \in S : After(S, m) = k /\ j <= k /\ k \in Nat
    BY <1>2
  <1>4. CASE k = j
    BY <1>3, <1>4
  <1>5. CASE k # j
    <2> DEFINE U == {x \in S : x > m}
    <2>1. U \in SUBSET Nat /\ IsFiniteSet(U) /\ Cardinality(U) = k /\ k # 0
      <3>1. IsFiniteSet(U)
        BY AfterIsNatural
      <3>2. Cardinality(U) = k
        BY <1>3 DEF After
      <3>3. k # 0
        BY <1>3, <1>5
      <3>4. U \in SUBSET Nat
        OBVIOUS
      <3> QED
        BY <3>1, <3>2, <3>3, <3>4
    <2>2. U # {}
      BY <2>1, FS_EmptySet
    <2>3. PICK x \in U : \A y \in U : x <= y
      BY <2>1, <2>2, LeastNumber
    <2>4. x \in S /\ x \in Nat /\ m \in Nat /\ x > m
      BY <1>3, <2>3
    <2>5. \A y \in S : y \in Nat /\ (y > m => x <= y)
      BY <2>3
    <2>6. {y \in S : y > x} = U \ {x}
      <3>1. ASSUME NEW y \in S
            PROVE  y > x <=> y \in U \ {x}
        <4>1. y \in Nat /\ x \in Nat /\ m \in Nat /\ x > m /\ (y > m => x <= y)
          BY <2>4, <2>5
        <4>2. y > x <=> y > m /\ y # x
          BY <4>1
        <4> QED
          BY <4>2
      <3> QED
        BY <3>1
    <2>7. After(S, x) = k - 1
      <3>1. Cardinality(U \ {x}) = Cardinality(U) - 1
        <4> HIDE DEF U
        <4> QED
          BY <2>1, <2>3, FS_RemoveElement
      <3> QED
        BY <2>1, <2>6, <3>1 DEF After
    <2>8. k - 1 \in Nat /\ j <= k - 1
      BY <1>3, <1>5, <2>1
    <2>9. k - 1 \in T
      BY <2>4, <2>7, <2>8
    <2>10. k <= k - 1
      BY <1>2, <2>9
    <2> QED
      BY <1>3, <2>10
  <1> QED
    BY <1>4, <1>5

\* A set that has as many members as another makes up for those it lacks.
LEMMA MissingAreReplaced ==
  ASSUME NEW A, NEW B, IsFiniteSet(A), IsFiniteSet(B), Cardinality(A) <= Cardinality(B)
  PROVE  Cardinality(A \ B) <= Cardinality(B \ A)
  <1>1. /\ Cardinality(A \ B) = Cardinality(A) - Cardinality(A \cap B)
        /\ Cardinality(B \ A) = Cardinality(B) - Cardinality(B \cap A)
    BY FS_Difference
  <1>2. A \cap B = B \cap A /\ IsFiniteSet(A \cap B)
    BY FS_Intersection, Zenon
  <1>3. /\ Cardinality(A) \in Nat /\ Cardinality(B) \in Nat /\ Cardinality(A \cap B) \in Nat
    BY <1>2, FS_CardinalityType
  <1>4. Cardinality(B \cap A) = Cardinality(A \cap B)
    BY <1>2, Zenon
  <1> QED
    BY <1>1, <1>3, <1>4

\* New members of a set are counted once.
LEMMA NewAreCounted ==
  ASSUME NEW A, NEW B, IsFiniteSet(A), IsFiniteSet(B)
  PROVE  Cardinality(A \cup B) = Cardinality(A) + Cardinality(B \ A)
  <1>1. /\ Cardinality(A \cup B) = Cardinality(A) + Cardinality(B) - Cardinality(A \cap B)
        /\ Cardinality(B \ A) = Cardinality(B) - Cardinality(B \cap A)
    BY FS_Union, FS_Difference
  <1>2. A \cap B = B \cap A /\ IsFiniteSet(A \cap B)
    BY FS_Intersection
  <1>3. /\ Cardinality(A) \in Nat /\ Cardinality(B) \in Nat /\ Cardinality(A \cap B) \in Nat
    BY <1>2, FS_CardinalityType
  <1>4. Cardinality(B \cap A) = Cardinality(A \cap B)
    BY <1>2, Zenon
  <1> QED
    BY <1>1, <1>3, <1>4

-----------------------------------------------------------------------------
(* Exports: the invariant.                                                 *)

\* What was listed and is not read yet is on the pages to come, which have as
\* many rows as the export still expects.
Unread ==
  /\ Cardinality(listed) <= export.total
  /\ \A i \in listed \ export.rows : \E n \in Matching(export.app) :
       visits[n].id = i /\ (export.page - 1) * PageSize <= After(Matching(export.app), n)

ExportInv ==
  /\ ExportTypeOK
  /\ export.count = Cardinality(export.rows)
  /\ export.pc \in {"idle", "first"} => export.rows = {} /\ export.page = 1
  /\ export.pc = "more" => Unread
  /\ ExportsAreComplete

\* Finitely many numbers have been given out.
LEMMA IntervalIsFinite ==
  \A n \in Nat : IsFiniteSet(1 .. n)
  <1> TAKE n \in Nat
  <1> QED
    BY FS_Interval

\* The rows of an application are finitely many, and so are the ids handed out.
LEMMA MatchingRows ==
  ASSUME VisitsInv, NEW app
  PROVE  /\ Matching(app) \in SUBSET Nat /\ IsFiniteSet(Matching(app))
         /\ \A n \in Matching(app) : n \in Rows /\ visits[n].id \in 1 .. accepted
         /\ \A X \in SUBSET (1 .. accepted) : IsFiniteSet(X)
  <1>1. Rows \subseteq 1 .. saved /\ saved \in Nat /\ accepted \in Nat
    BY VisitFacts DEF VisitsInv, VisitsTypeOK
  <1>2. IsFiniteSet(1 .. saved) /\ IsFiniteSet(1 .. accepted)
    BY <1>1, IntervalIsFinite
  <1>3. Matching(app) \in SUBSET (1 .. saved)
    BY <1>1 DEF Matching
  <1>4. \A n \in Rows : visits[n].id \in 1 .. accepted
    <2>1. ASSUME NEW n \in Rows
          PROVE  visits[n].id \in 1 .. accepted
      <3>1. visits[n] \in KnownVisits /\ visits[n] \in Visit
        BY DEF KnownVisits, VisitsInv, VisitsTypeOK
      <3>2. visits[n].id \in 1 .. MaxVisit /\ visits[n].id <= accepted
        BY <3>1 DEF VisitsInv, VisitsInOrder, Visit
      <3> QED
        BY <1>1, <3>2
    <2> QED
      BY <2>1
  <1>5. \A X \in SUBSET (1 .. accepted) : IsFiniteSet(X)
    BY <1>2, FS_Subset
  <1>6. IsFiniteSet(Matching(app))
    BY <1>2, <1>3, FS_Subset
  <1>7. Matching(app) \in SUBSET Nat /\ \A n \in Matching(app) : n \in Rows
    BY <1>3 DEF Matching
  <1> QED
    BY <1>4, <1>5, <1>6, <1>7

\* No more ids than rows.
LEMMA IdsOfRows ==
  ASSUME VisitsInv, NEW app
  PROVE  /\ Cardinality(Ids(Matching(app))) <= Cardinality(Matching(app))
         /\ Ids(Matching(app)) \subseteq 1 .. accepted
  <1> DEFINE S == Matching(app)
             f == [n \in S |-> visits[n].id]
  <1>1. IsFiniteSet(S) /\ \A n \in S : visits[n].id \in 1 .. accepted
    BY MatchingRows
  <1>2. f \in Surjection(S, Ids(S))
    BY DEF Surjection, Ids
  <1>3. Cardinality(Ids(S)) <= Cardinality(S)
    <2> HIDE DEF S, f
    <2> QED
      BY <1>1, <1>2, FS_Surjection
  <1> QED
    BY <1>1, <1>3 DEF Ids

\* A step of the table that deletes nothing keeps the rows there are.
Visiting ==
  \/ Later \/ Cleanup \/ Restart
  \/ \E v \in Visitor : Ping(v)
  \/ \E x \in visiting : SaveVisit(x) \/ VisitFails(x)
  \/ UNCHANGED visitVars

LEMMA RowsStay ==
  ASSUME VisitsInv, Visiting
  PROVE  VisitStep /\ Rows \subseteq Rows' /\ \A n \in Rows : visits'[n] = visits[n]
  <1>1. VisitStep
    BY DEF Visiting, VisitStep
  <1>2. CASE \E x \in visiting : SaveVisit(x)
    <2>1. PICK x \in visiting : SaveVisit(x)
      BY <1>2
    <2>2. visits' = [n \in Rows \cup {saved + 1} |-> IF n \in Rows THEN visits[n] ELSE x]
      BY <2>1 DEF SaveVisit
    <2> QED
      BY <1>1, <2>2 DEF Rows
  <1>3. CASE \/ Later \/ Cleanup \/ Restart \/ UNCHANGED visitVars
             \/ (\E v \in Visitor : Ping(v)) \/ \E x \in visiting : VisitFails(x)
    <2>1. visits' = visits
      BY <1>3 DEF Later, Cleanup, Restart, VisitFails, Ping, visitVars
    <2> QED
      BY <1>1, <2>1 DEF Rows
  <1> QED
    BY <1>2, <1>3 DEF Visiting

\* A step beside an export: rows are added at the front, or nothing is promised
\* any more.
LEMMA ExportStands ==
  ASSUME VisitsInv, VisitsInv', ExportInv, accepted <= accepted', export' = export,
         \/ listed' = {}
         \/ listed' = listed /\ Rows \subseteq Rows' /\ \A n \in Rows : visits'[n] = visits[n]
  PROVE  ExportInv'
  <1>1. accepted \in Nat /\ accepted' \in Nat
    BY VisitFacts DEF VisitsInv, VisitsTypeOK
  <1>2. ExportTypeOK'
    <2>1. 1 .. accepted \subseteq 1 .. accepted'
      BY <1>1
    <2> QED
      BY <2>1 DEF ExportInv, ExportTypeOK
  <1>3. IsFiniteSet(export.rows) /\ Cardinality(export.rows) \in Nat
    <2>1. export.rows \in SUBSET (1 .. accepted)
      BY DEF ExportInv, ExportTypeOK
    <2> QED
      BY <2>1, MatchingRows, FS_CardinalityType
  <1>4. CASE listed' = {}
    <2>1. Unread'
      <3>1. Cardinality(listed') = 0
        BY <1>4, FS_EmptySet
      <3>2. export.total \in Nat
        BY DEF ExportInv, ExportTypeOK
      <3> QED
        BY <1>4, <3>1, <3>2 DEF Unread
    <2>2. ExportsAreComplete'
      <3>1. listed' \ export.rows = {} /\ export.rows \ listed' = export.rows
        BY <1>4
      <3>2. Cardinality(listed' \ export.rows) = 0
        BY <3>1, FS_EmptySet
      <3> QED
        BY <1>3, <3>1, <3>2 DEF ExportInv, ExportsAreComplete
    <2> QED
      BY <1>2, <2>1, <2>2 DEF ExportInv
  <1>5. CASE /\ listed' = listed /\ Rows \subseteq Rows'
             /\ \A n \in Rows : visits'[n] = visits[n]
    <2> DEFINE app == export.app
               S == {n \in Rows : app = "all" \/ AppOf[visits[n].from] = app}
               T == {n \in Rows' : app = "all" \/ AppOf[visits'[n].from] = app}
    <2>1. S \subseteq T /\ S = Matching(export.app) /\ T = Matching(export.app)'
      BY <1>5 DEF Matching
    <2>2. S \in SUBSET Nat /\ IsFiniteSet(S)
      BY <2>1, MatchingRows
    <2>3. T \in SUBSET Nat /\ IsFiniteSet(T)
      <3>1. Rows' \subseteq 1 .. saved' /\ saved' \in Nat
        BY DEF VisitsInv, VisitsTypeOK
      <3> DEFINE R == 1 .. saved'
      <3>2. IsFiniteSet(R)
        BY <3>1, IntervalIsFinite
      <3>3. T \in SUBSET R /\ T \in SUBSET Nat
        <4>1. T \subseteq Rows'
          OBVIOUS
        <4>2. \A n \in R : n \in Nat
          BY <3>1
        <4> HIDE DEF T
        <4> QED
          BY <3>1, <4>1, <4>2
      <3> HIDE DEF T, R
      <3>4. IsFiniteSet(T)
        BY <3>2, <3>3, FS_Subset
      <3> QED
        BY <3>3, <3>4
    <2>4. ASSUME NEW n \in S
          PROVE  After(S, n) <= After(T, n) /\ {After(S, n), After(T, n)} \subseteq Nat
      <3> HIDE DEF S, T
      <3>1. {m \in S : m > n} \in SUBSET {m \in T : m > n} /\ IsFiniteSet({m \in T : m > n})
        BY <2>1, <2>3, AfterIsNatural
      <3>2. After(S, n) <= After(T, n)
        BY <3>1, FS_Subset DEF After
      <3> QED
        BY <2>2, <2>3, <3>2, AfterIsNatural
    <2>5. CASE export.pc = "more"
      <3>1. Unread /\ export.page \in Nat
        BY <2>5 DEF ExportInv, ExportTypeOK
      <3>2. ASSUME NEW i \in listed \ export.rows
            PROVE  \E n \in T : /\ visits'[n].id = i
                                /\ (export.page - 1) * PageSize <= After(T, n)
        <4>1. PICK n \in S : visits[n].id = i /\ (export.page - 1) * PageSize <= After(S, n)
          BY <2>1, <3>1 DEF Unread
        <4>2. n \in T /\ visits'[n] = visits[n]
          BY <1>5, <2>1, <4>1 DEF Matching
        <4>3. (export.page - 1) * PageSize \in Int
          BY <3>1, TrafficConstants
        <4> HIDE DEF S, T
        <4>4. (export.page - 1) * PageSize <= After(T, n)
          BY <2>4, <4>1, <4>3
        <4> QED
          BY <4>1, <4>2, <4>4
      <3> HIDE DEF T
      <3>3. Unread'
        BY <1>5, <2>1, <3>1, <3>2 DEF Unread
      <3> QED
        BY <1>2, <1>5, <3>3 DEF ExportInv, ExportsAreComplete
    <2>6. CASE export.pc # "more"
      BY <1>2, <1>5, <2>6 DEF ExportInv, ExportsAreComplete
    <2> QED
      BY <2>5, <2>6
  <1> QED
    BY <1>4, <1>5

LEMMA BeginExportKeepsExport ==
  ASSUME VisitsInv, ExportInv, BeginExport, ViewInv
  PROVE  ExportInv'
  <1>1. /\ export' = [NoExport EXCEPT !.pc = "first", !.app = controls.app]
        /\ UNCHANGED visitVars /\ listed' = listed
    BY DEF BeginExport
  <1>2. /\ export'.pc = "first" /\ export'.app = controls.app /\ export'.page = 1
        /\ export'.total = 0 /\ export'.rows = {} /\ export'.count = 0
        /\ export' = [pc |-> "first", app |-> controls.app, page |-> 1, total |-> 0,
                      rows |-> {}, count |-> 0]
    BY <1>1 DEF NoExport
  <1>3. controls.app \in Filter /\ accepted' = accepted
    BY <1>1, ViewTypes DEF Controls, visitVars
  <1>4. ExportTypeOK'
    <2>1. export' \in [pc : {"idle", "first", "more", "done"}, app : Filter, page : Nat \ {0},
                       total : Nat, rows : SUBSET (1 .. accepted'), count : Nat]
      BY <1>2, <1>3
    <2> QED
      BY <1>1, <1>3, <2>1 DEF ExportInv, ExportTypeOK
  <1> QED
    BY <1>2, <1>4, FS_EmptySet DEF ExportInv, ExportsAreComplete

LEMMA ExportFailsKeepsExport ==
  ASSUME VisitsInv, ExportInv, ExportFails
  PROVE  ExportInv'
  <1>1. /\ export' = [pc |-> "idle", app |-> "all", page |-> 1, total |-> 0, rows |-> {},
                      count |-> 0]
        /\ UNCHANGED visitVars /\ listed' = {}
    BY DEF ExportFails, NoExport
  <1>2. accepted' = accepted /\ "all" \in Filter
    BY <1>1 DEF visitVars, Filter
  <1>3. ExportTypeOK'
    BY <1>1, <1>2 DEF ExportTypeOK
  <1>4. export'.count = Cardinality(export'.rows) /\ export'.pc = "idle" /\ export'.page = 1
        /\ export'.rows = {}
    BY <1>1, FS_EmptySet
  <1> QED
    BY <1>3, <1>4 DEF ExportInv, ExportsAreComplete

\* A page is read: its rows, how many are new, and what is left for the next.
LEMMA FetchPageKeepsExport ==
  ASSUME VisitsInv, ExportInv, FetchPage
  PROVE  ExportInv'
  <1> DEFINE S == Matching(export.app)
             page == Page(export.app, export.page)
             count == export.count + Cardinality(page \ export.rows)
             total == IF export.pc = "first" THEN Cardinality(S) ELSE export.total
             from == (export.page - 1) * PageSize
             upto == export.page * PageSize
  <1>1. /\ export.pc \in {"first", "more"}
        /\ listed' = IF export.pc = "first" THEN Ids(S) ELSE listed
        /\ export' = [export EXCEPT !.rows = @ \cup page, !.count = count, !.total = total,
                                    !.page = @ + 1,
                                    !.pc = IF page = {} \/ count >= total THEN "done" ELSE "more"]
        /\ UNCHANGED visitVars
    BY DEF FetchPage, NewOf
  <1>2. /\ export \in [pc : {"idle", "first", "more", "done"}, app : Filter, page : Nat \ {0},
                       total : Nat, rows : SUBSET (1 .. accepted), count : Nat]
        /\ listed \subseteq 1 .. accepted /\ export.count = Cardinality(export.rows)
    BY DEF ExportInv, ExportTypeOK
  <1>3. /\ export'.rows = export.rows \cup page /\ export'.count = count /\ export'.total = total
        /\ export'.page = export.page + 1 /\ export'.app = export.app
        /\ export'.pc = IF page = {} \/ count >= total THEN "done" ELSE "more"
        /\ export' = [pc |-> export'.pc, app |-> export'.app, page |-> export'.page,
                      total |-> export'.total, rows |-> export'.rows, count |-> export'.count]
    BY <1>1, <1>2
  <1>4. /\ S \in SUBSET Nat /\ IsFiniteSet(S) /\ Cardinality(S) \in Nat
        /\ \A X \in SUBSET (1 .. accepted) : IsFiniteSet(X) /\ Cardinality(X) \in Nat
    BY MatchingRows, FS_CardinalityType
  <1>5. page \in SUBSET (1 .. accepted) /\ export.rows \in SUBSET (1 .. accepted)
    BY <1>2, PageIsListed DEF Settled
  <1>6. /\ IsFiniteSet(page) /\ IsFiniteSet(export.rows)
        /\ page \ export.rows \in SUBSET (1 .. accepted)
        /\ Cardinality(page \ export.rows) \in Nat
    BY <1>4, <1>5
  <1>7. count = Cardinality(export.rows \cup page) /\ count \in Nat
    <2>1. Cardinality(export.rows \cup page)
            = Cardinality(export.rows) + Cardinality(page \ export.rows)
      BY <1>6, NewAreCounted
    <2> QED
      BY <1>2, <1>6, <2>1
  <1>8. Cardinality(Ids(S)) <= Cardinality(S) /\ Ids(S) \subseteq 1 .. accepted
    BY IdsOfRows
  <1>9. accepted' = accepted /\ visits' = visits /\ Matching(export.app)' = S
    <2>1. export'.app = export.app
      BY <1>3
    <2>2. accepted' = accepted /\ visits' = visits
      BY <1>1 DEF visitVars
    <2> QED
      BY <2>1, <2>2 DEF Matching, Rows
  <1>10. total \in Nat /\ listed' \subseteq 1 .. accepted /\ Cardinality(listed') <= total
         /\ Cardinality(listed') \in Nat
    <2>1. CASE export.pc = "first"
      BY <1>1, <1>4, <1>8, <2>1
    <2>2. CASE export.pc # "first"
      BY <1>1, <1>2, <1>4, <2>2 DEF ExportInv, Unread
    <2> QED
      BY <2>1, <2>2
  <1>11. /\ from \in Nat /\ upto \in Nat /\ from < upto
         /\ (export'.page - 1) * PageSize = upto
         /\ \A n \in S : After(S, n) \in Nat
    <2>1. export.page \in Nat \ {0} /\ PageSize \in Nat \ {0}
      BY <1>2, TrafficConstants
    <2>2. upto = from + PageSize /\ from \in Nat
      BY <2>1
    <2>3. export'.page - 1 = export.page
      BY <1>3, <2>1
    <2>4. \A n \in S : After(S, n) \in Nat
      BY <1>4, AfterIsNatural
    <2> QED
      BY <2>1, <2>2, <2>3, <2>4
  <1>12. \A i \in listed' \ export.rows : \E n \in S : visits[n].id = i /\ from <= After(S, n)
    <2>1. CASE export.pc = "first"
      <3>1. export.page = 1 /\ from = 0
        BY <2>1, TrafficConstants DEF ExportInv
      <3> QED
        BY <1>1, <1>11, <2>1, <3>1 DEF Ids
    <2>2. CASE export.pc # "first"
      BY <1>1, <2>2 DEF ExportInv, Unread
    <2> QED
      BY <2>1, <2>2
  <1>13. page = {visits[n].id : n \in {m \in S : from <= After(S, m) /\ After(S, m) < upto}}
    BY DEF Page, Ids, Newer, After
  <1>14. \A i \in listed' \ export'.rows : \E n \in S : visits[n].id = i /\ upto <= After(S, n)
    <2>1. ASSUME NEW i \in listed' \ export'.rows
          PROVE  \E n \in S : visits[n].id = i /\ upto <= After(S, n)
      <3>1. PICK n \in S : visits[n].id = i /\ from <= After(S, n)
        BY <1>3, <1>12, <2>1
      <3>2. ~(After(S, n) < upto)
        BY <1>3, <1>13, <2>1, <3>1
      <3> HIDE DEF S, from, upto
      <3> QED
        BY <1>11, <3>1, <3>2
    <2> QED
      BY <2>1
  <1>15. ExportTypeOK'
    <2>1. /\ export'.pc \in {"more", "done"} /\ export'.app \in Filter
          /\ export'.page \in Nat \ {0} /\ export'.total \in Nat /\ export'.count \in Nat
          /\ export'.rows \in SUBSET (1 .. accepted')
      BY <1>2, <1>3, <1>5, <1>7, <1>9, <1>10
    <2>2. export' \in [pc : {"idle", "first", "more", "done"}, app : Filter, page : Nat \ {0},
                       total : Nat, rows : SUBSET (1 .. accepted'), count : Nat]
      BY <1>3, <2>1
    <2> QED
      BY <1>9, <1>10, <2>2 DEF ExportTypeOK
  <1>16. export'.count = Cardinality(export'.rows) /\ export'.pc \in {"more", "done"}
    BY <1>3, <1>7
  <1>17. CASE export'.pc = "more"
    <2>1. Unread'
      <3> HIDE DEF S, upto
      <3>1. Cardinality(listed') <= export'.total
        BY <1>3, <1>10
      <3>2. \A i \in listed' \ export'.rows : \E n \in Matching(export.app)' :
              visits'[n].id = i /\ (export'.page - 1) * PageSize <= After(Matching(export.app)', n)
        BY <1>9, <1>11, <1>14
      <3> QED
        BY <3>1, <3>2 DEF Unread
    <2> QED
      BY <1>15, <1>16, <1>17, <2>1 DEF ExportInv, ExportsAreComplete
  <1>18. CASE export'.pc = "done"
    <2>1. IsFiniteSet(listed') /\ IsFiniteSet(export'.rows)
      BY <1>3, <1>4, <1>5, <1>10
    <2>2. CASE count >= total
      <3>1. Cardinality(listed') <= Cardinality(export'.rows)
        <4>1. Cardinality(export'.rows) = count
          BY <1>3, <1>7
        <4> HIDE DEF count, total
        <4> QED
          BY <1>7, <1>10, <2>2, <4>1
      <3>2. Cardinality(listed' \ export'.rows) <= Cardinality(export'.rows \ listed')
        BY <2>1, <3>1, MissingAreReplaced
      <3> QED
        BY <1>15, <1>16, <1>18, <3>2 DEF ExportInv, ExportsAreComplete
    <2>3. CASE page = {}
      <3>1. listed' \ export'.rows = {}
        <4>1. ASSUME NEW i \in listed' \ export'.rows
              PROVE  FALSE
          <5>1. PICK n \in S : visits[n].id = i /\ from <= After(S, n)
            BY <1>3, <1>12, <4>1
          <5>2. PICK m \in S : After(S, m) = from
            <6> HIDE DEF S, from
            <6> QED
              BY <1>4, <1>11, <5>1, PositionsAreTaken
          <5>3. from <= After(S, m) /\ After(S, m) < upto
            BY <1>11, <5>2
          <5>4. visits[m].id \in page
            BY <1>13, <5>3
          <5> QED
            BY <2>3, <5>4
        <4> QED
          BY <4>1
      <3>2. Cardinality(listed' \ export'.rows) = 0
        BY <3>1, FS_EmptySet
      <3>3. Cardinality(export'.rows \ listed') \in Nat
        BY <2>1, FS_Difference, FS_CardinalityType
      <3>4. Cardinality(listed' \ export'.rows) <= Cardinality(export'.rows \ listed')
        BY <3>2, <3>3
      <3> QED
        BY <1>15, <1>16, <1>18, <3>4 DEF ExportInv, ExportsAreComplete
    <2>4. page = {} \/ count >= total
      BY <1>3, <1>18
    <2> QED
      BY <2>2, <2>3, <2>4
  <1> QED
    BY <1>16, <1>17, <1>18

-----------------------------------------------------------------------------
(* Visits, the view and exports together.                                  *)

TrafficInv == VisitsInv /\ ViewInv /\ ExportInv

LEMMA TrafficBegins ==
  ASSUME TrafficInit
  PROVE  TrafficInv
  <1>1. VisitsInv
    BY VisitsBegin DEF TrafficInit
  <1>2. /\ mounted = FALSE /\ controls = FirstControls /\ latest = 0 /\ loads = {}
        /\ loading = FALSE /\ failed = FALSE /\ shown = NothingShown /\ deletion = NoDeletion
        /\ deleted = {} /\ overtaken = FALSE /\ export = NoExport /\ listed = {}
        /\ Rows = {}
    BY DEF TrafficInit, VisitsInit, Rows
  <1>3. FirstControls \in Controls /\ "all" \in Filter
    BY TrafficConstants DEF FirstControls, Controls, Filter
  <1>4. ViewInv
    <2>1. /\ NothingShown.rows = {} /\ NothingShown.controls = FirstControls
          /\ NoDeletion.ids = {} /\ NoDeletion.done = FALSE
          /\ NothingShown \in [rows : SUBSET (1 .. accepted), controls : Controls]
          /\ NoDeletion \in [ids : SUBSET (1 .. accepted), controls : Controls, done : BOOLEAN,
                             mine : BOOLEAN]
      BY <1>3 DEF NothingShown, NoDeletion
    <2>2. ViewTypeOK
      BY <1>2, <1>3, <2>1 DEF ViewTypeOK
    <2> QED
      BY <1>2, <2>1, <2>2 DEF ViewInv, LoadsInv, DeletionInv, ListIsCurrent,
         ListMatchesControls, DeletedRowsAreGone, SpinnersEnd
  <1>5. ExportInv
    <2>1. ExportTypeOK
      BY <1>2, <1>3 DEF ExportTypeOK, NoExport
    <2>2. export.pc = "idle" /\ export.rows = {} /\ export.count = 0 /\ export.page = 1
      BY <1>2 DEF NoExport
    <2> QED
      BY <2>1, <2>2, FS_EmptySet DEF ExportInv, ExportsAreComplete
  <1> QED
    BY <1>1, <1>4, <1>5 DEF TrafficInv

\* A step of the table alone.
LEMMA TableStep ==
  ASSUME TrafficInv, VisitStep, UNCHANGED viewVars, export' = export,
         listed' = {} \/ (listed' = listed /\ Visiting)
  PROVE  TrafficInv'
  <1>1. VisitsInv /\ ViewInv /\ ExportInv
    BY DEF TrafficInv
  <1>2. VisitsInv'
    BY <1>1, VisitStepKeepsVisits
  <1>3. ViewInv'
    BY <1>1, TableKeepsView
  <1>4. accepted <= accepted'
    BY <1>1, SettledStay
  <1>5. \/ listed' = {}
        \/ listed' = listed /\ Rows \subseteq Rows' /\ \A n \in Rows : visits'[n] = visits[n]
    BY <1>1, RowsStay
  <1>6. ExportInv'
    BY <1>1, <1>2, <1>4, <1>5, ExportStands
  <1> QED
    BY <1>2, <1>3, <1>6 DEF TrafficInv

\* A step of the view.
LEMMA ViewAlone ==
  ASSUME TrafficInv, ViewStep
  PROVE  TrafficInv'
  <1>1. VisitsInv /\ ViewInv /\ ExportInv /\ ViewInv'
    BY ViewStepKeepsView DEF TrafficInv
  <1>2. CASE DoDeletion
    <2>1. DeleteVisits(deletion.ids) /\ export' = export /\ listed' = {}
      BY <1>2 DEF DoDeletion
    <2>2. VisitStep
      BY <2>1 DEF VisitStep
    <2>3. VisitsInv'
      BY <1>1, <2>2, VisitStepKeepsVisits
    <2>4. accepted <= accepted'
      BY <1>1, <2>2, SettledStay
    <2>5. ExportInv'
      BY <1>1, <2>1, <2>3, <2>4, ExportStands
    <2> QED
      BY <1>1, <2>3, <2>5 DEF TrafficInv
  <1>3. CASE ~DoDeletion
    <2>1. UNCHANGED visitVars /\ UNCHANGED exportVars
      BY <1>3, Zenon DEF ViewStep, Mount, Unmount, Refresh, DeletionFails, Deleted, Choose, Answer,
         Receive, LoadFails, AskDeletion
    <2>2. VisitStep /\ export' = export /\ listed' = listed /\ Rows' = Rows /\ visits' = visits
          /\ accepted' = accepted
      BY <2>1, TableStands DEF VisitStep, exportVars
    <2>3. VisitsInv'
      BY <1>1, <2>2, VisitStepKeepsVisits
    <2>4. accepted <= accepted'
      BY <1>1, <2>2, VisitFacts
    <2>5. ExportInv'
      BY <1>1, <2>2, <2>3, <2>4, ExportStands
    <2> QED
      BY <1>1, <2>3, <2>5 DEF TrafficInv
  <1> QED
    BY <1>2, <1>3

\* A step of an export.
LEMMA ExportStep ==
  ASSUME TrafficInv, BeginExport \/ FetchPage \/ ExportFails
  PROVE  TrafficInv'
  <1>1. VisitsInv /\ ViewInv /\ ExportInv
    BY DEF TrafficInv
  <1>2. UNCHANGED visitVars /\ UNCHANGED viewVars
    BY Zenon DEF BeginExport, FetchPage, ExportFails
  <1>3. VisitStep
    BY <1>2 DEF VisitStep
  <1>4. VisitsInv' /\ ViewInv'
    BY <1>1, <1>2, <1>3, VisitStepKeepsVisits, TableKeepsView
  <1>5. ExportInv'
    BY <1>1, BeginExportKeepsExport, FetchPageKeepsExport, ExportFailsKeepsExport
  <1> QED
    BY <1>4, <1>5 DEF TrafficInv

LEMMA TrafficStepKeepsInv ==
  ASSUME TrafficInv, TrafficNext
  PROVE  TrafficInv'
  <1>1. CASE /\ \/ Later \/ Cleanup \/ Restart
                \/ \E v \in Visitor : Ping(v)
                \/ \E x \in visiting : SaveVisit(x) \/ VisitFails(x)
             /\ Unseen
    <2>1. Visiting /\ UNCHANGED viewVars /\ export' = export /\ listed' = listed
      BY <1>1, Zenon DEF Visiting, Unseen, exportVars
    <2>2. VisitStep
      BY <2>1, RowsStay DEF TrafficInv
    <2> QED
      BY <2>1, <2>2, TableStep
  <1>2. CASE \E id \in Ids(Rows) : DeletedElsewhere({id})
    <2>1. PICK id : DeletedElsewhere({id})
      BY <1>2
    <2>2. VisitStep /\ UNCHANGED viewVars /\ export' = export /\ listed' = {}
      BY <2>1, Zenon DEF VisitStep, DeletedElsewhere
    <2> QED
      BY <2>2, TableStep
  <1>3. CASE ViewStep
    BY <1>3, ViewAlone
  <1>4. CASE BeginExport \/ FetchPage \/ ExportFails
    BY <1>4, ExportStep
  <1> QED
    BY <1>1, <1>2, <1>3, <1>4, Zenon DEF TrafficNext, ViewStep

LEMMA TrafficStutters ==
  ASSUME TrafficInv, UNCHANGED trafficVars
  PROVE  TrafficInv'
  <1>1. UNCHANGED visitVars /\ UNCHANGED viewVars /\ export' = export /\ listed' = listed
    BY DEF trafficVars, exportVars
  <1>2. Visiting /\ VisitStep
    BY <1>1 DEF Visiting, VisitStep
  <1> QED
    BY <1>1, <1>2, TableStep

-----------------------------------------------------------------------------
(* Visits, the view and exports: the theorems.                             *)

\* The invariant of the three: rows are visits that were settled, the requests,
\* the deletion and the screen agree, and an export has what it counts.
THEOREM TrafficInvariant == ClientsSpec => []TrafficInv
  <1>1. ClientsInit => TrafficInv
    BY TrafficBegins DEF ClientsInit
  <1>2. ASSUME TrafficInv, [ClientsNext]_clientVars
        PROVE  TrafficInv'
    <2>1. TrafficNext \/ UNCHANGED trafficVars
      BY <1>2 DEF ClientsNext, SignInAlone, NotesAlone, TrafficAlone, clientVars
    <2> QED
      BY <1>2, <2>1, TrafficStepKeepsInv, TrafficStutters
  <1> QED
    BY <1>1, <1>2, PTL DEF ClientsSpec

\* The types of the table, the view and the export.
THEOREM TrafficTypeCorrect == ClientsSpec => []TrafficTypeOK
  <1>1. TrafficInv => TrafficTypeOK
    BY DEF TrafficInv, VisitsInv, ViewInv, ExportInv, TrafficTypeOK
  <1> QED
    BY <1>1, TrafficInvariant, PTL

\* However long the lookups of their locations take, two pings of one visitor are
\* both counted only when a window or a restart is between them: the mark is set
\* before the lookup (analytics.service.ts:97-105).
THEOREM VisitsAreCountedOncePerWindow == ClientsSpec => []OneVisitPerWindow
  <1>1. TrafficInv => OneVisitPerWindow
    BY DEF TrafficInv, VisitsInv
  <1> QED
    BY <1>1, TrafficInvariant, PTL

\* The list that has loaded is the one of the controls, holds no row the
\* administrator was told is deleted, and the spinner ends, in whatever order
\* answers come (TrafficView.jsx:35-133, requestGate.js).
THEOREM ListsAreAlwaysCurrent == ClientsSpec => []ListIsCurrent
  <1>1. TrafficInv => ListIsCurrent
    BY DEF TrafficInv, ViewInv
  <1> QED
    BY <1>1, TrafficInvariant, PTL

\* A finished export has no row twice and no fewer than were listed when it
\* began, whatever arrives between two pages (csv.js:19-52).
THEOREM ExportsAreAlwaysComplete == ClientsSpec => []ExportsAreComplete
  <1>1. TrafficInv => ExportsAreComplete
    BY DEF TrafficInv, ExportInv
  <1> QED
    BY <1>1, TrafficInvariant, PTL

-----------------------------------------------------------------------------
(* Notes: the invariant.  A save writes a column that has changed since it *)
(* was read only over the value it was read as, or the column is lost; so  *)
(* what is saved of a column that nobody lost is an edit of what is there. *)

Value ==
  [owner |-> {"guest", "user"}, text |-> Text,
   history |-> {h \in Seq(Text) : Len(h) <= MaxHistory}, mode |-> Mode,
   link |-> Link \cup {None}, sharedWith |-> SUBSET Friend, images |-> SUBSET Key]

\* Some columns, and all of them.
IsPart(n) ==
  /\ n = [c \in DOMAIN n |-> n[c]] /\ DOMAIN n \subseteq Columns
  /\ \A c \in DOMAIN n : n[c] \in Value[c]
IsNote(n) == IsPart(n) /\ DOMAIN n = Columns

AnyValue == UNION {Value[c] : c \in Columns}
NoteRow == {n \in [Columns -> AnyValue] : IsNote(n)}
PartRow == {n \in UNION {[cs -> AnyValue] : cs \in SUBSET Columns} : IsPart(n)}
RequestRow ==
  [pc : {"idle", "upload", "save", "write", "insert", "clean", "delete",
         "check", "invite", "accept", "mark"},
   entity : NoteRow, base : PartRow, update : PartRow,
   key : Key \cup {None}, old : Key \cup {None}, invite : Invite \cup {None},
   friend : Friend \cup {NoFriend}, plain : BOOLEAN]

IsRequest(r) ==
  /\ r \in RequestRow
  /\ r.pc \in {"accept", "mark"} => r.invite # None
  /\ r.pc \in {"check", "invite"} => r.friend # NoFriend
  /\ r.pc \in {"accept", "check"} => r.key = None /\ r.old = None
  /\ r.pc = "write" => DOMAIN r.update \subseteq DOMAIN r.base

InviteRow == [to : Friend \cup {NoFriend}, state : {"none", "pending", "expired", "accepted"}]

NotesTypes ==
  /\ scene \in Scenes /\ exists \in BOOLEAN /\ IsNote(note) /\ files \subseteq Key
  /\ invites \in [Invite -> InviteRow]
  /\ lastKey \in 0 .. MaxKey /\ lastLink \in 0 .. MaxLink /\ lastInvite \in 0 .. MaxInvite
  /\ req = [p \in Proc |-> req[p]] /\ \A p \in Proc : IsRequest(req[p])
  /\ lost \subseteq Columns \cup {"row"} /\ astray \subseteq Key
  /\ owed \subseteq Text /\ closed \subseteq Link /\ removed \subseteq Friend
  \* Invites are numbered as they are sent.
  /\ \A i \in Invite : /\ invites[i].state # "none" => i <= lastInvite
                       /\ i <= lastInvite => invites[i].to # NoFriend
  /\ \A p \in Proc : req[p].invite # None => req[p].invite <= lastInvite

\* The link a request has drawn and not saved yet.
Drawn(r) ==
  IF r.pc = "save" /\ "link" \in DOMAIN r.base THEN {r.entity.link} \ {r.base.link, None}
  ELSE IF r.pc = "write" /\ "link" \in DOMAIN r.update THEN {r.update.link} \ {r.base.link, None}
  ELSE {}

\* Mode and link are saved together, and a way that was open is open or closed.
LinksOf(r) ==
  /\ Drawn(r) \subseteq 1 .. lastLink /\ note.link \notin Drawn(r) /\ Drawn(r) \cap closed = {}
  /\ r.pc = "save" /\ {"mode", "link"} \cap DOMAIN r.base # {} =>
       /\ {"mode", "link"} \subseteq DOMAIN r.base
       /\ r.entity.mode = "none" <=> r.entity.link = None
       /\ r.base.link # None => r.entity.link \in {None, r.base.link}
       /\ r.base.mode # "none" =>
            /\ r.base.link # None
            /\ r.base.link \in closed \/ (note.mode # "none" /\ note.link = r.base.link)
  /\ r.pc = "write" /\ "mode" \in DOMAIN r.update /\ r.update.mode # r.base.mode =>
       /\ "link" \in DOMAIN r.base
       /\ r.update.mode = "none" => "link" \in DOMAIN r.update /\ r.update.link = None
       /\ r.update.mode # "none" =>
            IF "link" \in DOMAIN r.update THEN r.update.link # None ELSE r.base.link # None
  /\ r.pc = "write" /\ "link" \in DOMAIN r.update /\ r.update.link # r.base.link =>
       /\ "mode" \in DOMAIN r.base
       /\ r.update.link # None => r.base.link = None
       /\ r.update.link = None =>
            IF "mode" \in DOMAIN r.update THEN r.update.mode = "none"
            ELSE r.base.mode = "none" \/ r.base.link \in closed

LinksHold == exists /\ Unharmed({"mode", "link"})
LinksFine ==
  /\ note.link \notin closed /\ None \notin closed
  /\ note.link <= lastLink /\ \A l \in closed : l <= lastLink
  /\ note.mode # "none" => note.link # None
  /\ \A p \in Proc : LinksOf(req[p])
  /\ \A p, q \in Proc : p # q => Drawn(req[p]) \cap Drawn(req[q]) = {}

\* Whom a request invites has the note before the invite is spent.
Has(f) == f \in note.sharedWith \cup removed
To(r) == invites[r.invite].to

SharingOf(r) ==
  /\ r.pc = "save" /\ r.invite # None => "sharedWith" \in DOMAIN r.base
  /\ r.pc = "save" /\ "sharedWith" \in DOMAIN r.base =>
       r.entity.sharedWith = IF r.invite # None THEN r.base.sharedWith \cup {To(r)}
                             ELSE r.base.sharedWith \ {r.friend}
  /\ r.pc = "write" /\ "sharedWith" \in DOMAIN r.update =>
       /\ r.base.sharedWith \subseteq r.update.sharedWith \cup {r.friend}
       /\ r.invite # None => To(r) \in r.update.sharedWith
  /\ r.pc = "write" /\ "sharedWith" \notin DOMAIN r.update /\ r.invite # None => Has(To(r))
  /\ r.pc = "mark" => Has(To(r))

SharingHolds == exists /\ Unharmed({"sharedWith"})
SharingFine ==
  /\ \A i \in Invite : invites[i].state = "accepted" => Has(invites[i].to)
  /\ \A p \in Proc : SharingOf(req[p])

\* What an edit does to the revisions of the text it replaces.
Keeps(text, hist, new) == text \in {0, new} \/ (hist # <<>> /\ Head(hist) = text)
Longer(hist, than) == Len(hist) > Len(than) \/ Len(hist) = MaxHistory

RevisionsOf(r) ==
  /\ r.pc = "save" /\ "owner" \in DOMAIN r.base => r.entity.owner = "user"
  /\ r.pc = "save" /\ "text" \in DOMAIN r.base => r.plain \/ "history" \in DOMAIN r.base
  /\ r.pc = "save" /\ "history" \in DOMAIN r.base =>
       /\ "text" \in DOMAIN r.base
       /\ r.plain => r.entity.history = r.base.history
       /\ ~r.plain =>
            /\ note.owner = "user"
            /\ \/ /\ r.entity.history = r.base.history
                  /\ Keeps(r.base.text, r.base.history, r.entity.text)
               \/ r.entity.history = FirstOf(<<r.base.text>> \o r.base.history)
  /\ r.pc = "write" /\ "owner" \in DOMAIN r.update => r.update.owner \in {r.base.owner, "user"}
  /\ r.pc = "write" /\ "text" \in DOMAIN r.update /\ r.update.text # r.base.text /\ ~r.plain =>
       /\ "history" \in DOMAIN r.base
       /\ IF "history" \in DOMAIN r.update
          THEN \/ /\ r.update.history = r.base.history
                  /\ Keeps(r.base.text, r.base.history, r.update.text)
               \/ r.update.history = FirstOf(<<r.base.text>> \o r.base.history)
          ELSE \/ Keeps(r.base.text, r.base.history, r.update.text)
               \/ Longer(note.history, r.base.history)
  /\ r.pc = "write" /\ "history" \in DOMAIN r.update /\ r.update.history # r.base.history =>
       /\ note.owner = "user"
       /\ \E t \in Text : r.update.history = FirstOf(<<t>> \o r.base.history)

RevisionsHold == exists /\ Unharmed({"owner", "text", "history"})
RevisionsFine ==
  /\ note.owner = "guest" => owed = {} /\ note.history = <<>>
  /\ note.owner = "user" => \A t \in owed \ {0} :
       \/ t = note.text \/ Len(note.history) = MaxHistory
       \/ \E i \in DOMAIN note.history : note.history[i] = t
  /\ \A p \in Proc : RevisionsOf(req[p])

NotesInv ==
  /\ NotesTypes
  /\ LinksHold => LinksFine
  /\ SharingHolds => SharingFine
  /\ RevisionsHold => RevisionsFine

-----------------------------------------------------------------------------
(* Notes: how the parts of the invariant stay.                             *)

\* A request's turn changes no other request.
LEMMA OtherRequests ==
  ASSUME NotesTypes, NEW p \in Proc, NEW r, Become(p, r)
  PROVE  /\ req' = [q \in Proc |-> req'[q]] /\ req'[p] = r
         /\ \A q \in Proc : q # p => req'[q] = req[q]
  <1>1. req' = [req EXCEPT ![p] = r] /\ req = [q \in Proc |-> req[q]]
    BY DEF Become, NotesTypes
  <1> HIDE DEF Become
  <1> QED
    BY <1>1

LEMMA Values ==
  /\ Value["owner"] = {"guest", "user"} /\ Value["text"] = Text
  /\ Value["history"] = {h \in Seq(Text) : Len(h) <= MaxHistory}
  /\ Value["mode"] = Mode /\ Value["link"] = Link \cup {None}
  /\ Value["sharedWith"] = SUBSET Friend /\ Value["images"] = SUBSET Key
  BY DEF Value

LEMMA NoteRows == \A n : n \in NoteRow <=> IsNote(n)
  <1> SUFFICES ASSUME NEW n, IsNote(n)
               PROVE  n \in [Columns -> AnyValue]
    BY DEF NoteRow
  <1>1. n = [c \in Columns |-> n[c]] /\ \A c \in Columns : n[c] \in Value[c]
    BY DEF IsNote, IsPart
  <1>2. \A c \in Columns : n[c] \in AnyValue
    BY <1>1 DEF AnyValue
  <1> QED
    BY <1>1, <1>2

LEMMA PartRows == \A n : n \in PartRow <=> IsPart(n)
  <1> SUFFICES ASSUME NEW n, IsPart(n)
               PROVE  n \in UNION {[cs -> AnyValue] : cs \in SUBSET Columns}
    BY DEF PartRow
  <1>1. PICK cs \in SUBSET Columns : cs = DOMAIN n
    BY DEF IsPart
  <1>2. n = [c \in cs |-> n[c]] /\ \A c \in cs : n[c] \in Value[c]
    BY <1>1 DEF IsPart
  <1>3. \A c \in cs : n[c] \in AnyValue
    BY <1>2 DEF AnyValue
  <1>4. n \in [cs -> AnyValue]
    BY <1>2, <1>3
  <1> QED
    BY <1>4

LEMMA IdleIsRequest == IsRequest(Idle)
  <1>1. IsPart(Nothing)
    BY DEF Nothing, IsPart
  <1>2. IsNote(NewNote)
    <2>1. /\ DOMAIN NewNote = Columns /\ NewNote = [c \in Columns |-> NewNote[c]]
          /\ NewNote.owner = "guest" /\ NewNote.text = 0 /\ NewNote.history = <<>> /\ NewNote.mode = "none"
          /\ NewNote.link = None /\ NewNote.sharedWith = {} /\ NewNote.images = {}
      BY DEF NewNote, Columns
    <2>2. 0 \in Text /\ <<>> \in {h \in Seq(Text) : Len(h) <= MaxHistory}
      BY NotesConstants DEF Text
    <2>3. ASSUME NEW c \in Columns
          PROVE  NewNote[c] \in Value[c]
      BY <2>1, <2>2, Values DEF Columns, Mode
    <2> QED
      BY <2>1, <2>3 DEF IsNote, IsPart
  <1>3. Nothing \in PartRow /\ NewNote \in NoteRow
    BY <1>1, <1>2, NoteRows, PartRows
  <1> QED
    BY <1>3, NotesConstants DEF IsRequest, RequestRow, Idle, None

\* A request that neither saves nor cleans up asks for nothing.
LEMMA OthersAreFine ==
  ASSUME NEW r, r.pc \notin {"save", "write", "mark"}
  PROVE  LinksOf(r) /\ SharingOf(r) /\ RevisionsOf(r) /\ Drawn(r) = {}
  BY DEF LinksOf, SharingOf, RevisionsOf, Drawn

LEMMA IdleIsFine ==
  LinksOf(Idle) /\ SharingOf(Idle) /\ RevisionsOf(Idle) /\ Drawn(Idle) = {}
  BY DEF LinksOf, SharingOf, RevisionsOf, Drawn, Idle

LEMMA NotesBegin ==
  ASSUME NotesInit
  PROVE  NotesInv
  <1>1. /\ scene \in Scenes /\ exists = TRUE /\ files = {} /\ lastKey = 0 /\ lastInvite = 0
        /\ invites = [i \in Invite |-> [to |-> NoFriend, state |-> "none"]]
        /\ req = [p \in Proc |-> Idle] /\ lost = {} /\ astray = {} /\ closed = {} /\ removed = {}
    BY DEF NotesInit
  <1>2. PICK o \in {"guest", "user"}, m \in {"none", "edit"} :
          /\ note = [NewNote EXCEPT !.owner = o, !.text = 1, !.mode = m,
                                    !.link = IF m = "none" THEN None ELSE 1]
          /\ lastLink = note.link
          /\ owed = IF o = "user" THEN {1} ELSE {}
    BY DEF NotesInit
  <1>3. /\ DOMAIN note = Columns /\ note = [c \in Columns |-> note[c]]
        /\ note.owner = o /\ note.text = 1 /\ note.history = <<>> /\ note.mode = m
        /\ note.link = (IF m = "none" THEN None ELSE 1) /\ note.sharedWith = {} /\ note.images = {}
    BY <1>2 DEF NewNote, Columns
  <1>4. 1 \in Text /\ 1 \in Link /\ <<>> \in {h \in Seq(Text) : Len(h) <= MaxHistory}
    BY NotesConstants DEF Text, Link
  <1>5. IsNote(note)
    <2>1. ASSUME NEW c \in Columns
          PROVE  note[c] \in Value[c]
      BY <1>3, <1>4, Values DEF Columns, Mode
    <2> QED
      BY <1>3, <2>1 DEF IsNote, IsPart
  <1>6. lastLink \in 0 .. MaxLink /\ note.link <= lastLink
    BY <1>2, <1>3, NotesConstants DEF None
  <1>7. NotesTypes
    BY <1>1, <1>2, <1>4, <1>5, <1>6, IdleIsRequest, NotesConstants
    DEF NotesTypes, InviteRow, None, Idle, Invite
  <1>8. \A p \in Proc : req[p] = Idle
    BY <1>1
  <1>9. LinksFine /\ SharingFine /\ RevisionsFine
    <2>1. LinksFine
      BY <1>1, <1>2, <1>3, <1>6, <1>8, IdleIsFine DEF LinksFine, None
    <2>2. SharingFine
      BY <1>1, <1>8, IdleIsFine DEF SharingFine
    <2>3. RevisionsFine
      BY <1>1, <1>2, <1>3, <1>8, IdleIsFine DEF RevisionsFine
    <2> QED
      BY <2>1, <2>2, <2>3
  <1> QED
    BY <1>7, <1>9 DEF NotesInv

\* A revision is put first; the oldest goes when there are too many.
LEMMA FirstOfFacts ==
  ASSUME NEW t \in Text, NEW h \in Seq(Text), Len(h) <= MaxHistory
  PROVE  /\ FirstOf(<<t>> \o h) \in Seq(Text) /\ Len(FirstOf(<<t>> \o h)) <= MaxHistory
         /\ Len(FirstOf(<<t>> \o h)) = MaxHistory
            \/ /\ Len(FirstOf(<<t>> \o h)) = Len(h) + 1
               /\ FirstOf(<<t>> \o h)[1] = t
               /\ \A i \in DOMAIN h : FirstOf(<<t>> \o h)[i + 1] = h[i]
  <1> DEFINE s == <<t>> \o h
  <1>1. /\ s \in Seq(Text) /\ Len(s) = Len(h) + 1 /\ s[1] = t
        /\ \A i \in 1 .. Len(h) : s[i + 1] = h[i]
    OBVIOUS
  <1>2. Len(h) \in Nat /\ MaxHistory \in Nat /\ DOMAIN h = 1 .. Len(h)
    BY NotesConstants
  <1> DEFINE n == IF Len(s) < MaxHistory THEN Len(s) ELSE MaxHistory
  <1>3. FirstOf(s) = SubSeq(s, 1, n)
    BY DEF FirstOf
  <1> HIDE DEF s
  <1>4. n \in Int /\ n <= Len(s) /\ n >= 0 /\ n <= MaxHistory
    BY <1>1, <1>2
  <1>5. /\ SubSeq(s, 1, n) \in Seq(Text)
        /\ Len(SubSeq(s, 1, n)) = IF 1 <= n THEN n - 1 + 1 ELSE 0
        /\ \A i \in 1 .. n - 1 + 1 : SubSeq(s, 1, n)[i] = s[1 + i - 1]
    <2>1. \A i \in 1 .. n : i \in 1 .. Len(s)
      BY <1>1, <1>2, <1>4
    <2> HIDE DEF n
    <2> QED
      BY <1>1, <1>2, <1>4, <2>1, SubSeqProperties
  <1>6. FirstOf(s) \in Seq(Text) /\ Len(FirstOf(s)) = n /\ \A i \in 1 .. n : FirstOf(s)[i] = s[i]
    <2> HIDE DEF n
    <2> QED
      BY <1>3, <1>4, <1>5
  <1>7. n = MaxHistory \/ n = Len(h) + 1
    BY <1>1, <1>2
  <1>8. CASE n = Len(h) + 1
    <2>1. 1 \in 1 .. n /\ \A i \in 1 .. Len(h) : i + 1 \in 1 .. n
      BY <1>2, <1>8
    <2>2. FirstOf(s)[1] = t /\ \A i \in 1 .. Len(h) : FirstOf(s)[i + 1] = h[i]
      BY <1>1, <1>6, <2>1
    <2> QED
      BY <1>2, <1>4, <1>6, <1>8, <2>2 DEF s
  <1> QED
    BY <1>4, <1>6, <1>7, <1>8 DEF s

\* What a state lets a request ask for, another state does that differs in
\* nothing the request looks at.
LEMMA LinksStand ==
  ASSUME NEW r, LinksOf(r), note' = note, closed' = closed, lastLink \in Nat, lastLink' \in Nat,
         lastLink <= lastLink'
  PROVE  LinksOf(r)'
  <1>1. Drawn(r)' = Drawn(r)
    BY DEF Drawn
  <1>2. Drawn(r) \subseteq 1 .. lastLink'
    BY DEF LinksOf
  <1> QED
    BY <1>1, <1>2 DEF LinksOf

LEMMA SharingStands ==
  ASSUME NEW r, SharingOf(r), note' = note, removed' = removed,
         r.invite # None => invites'[r.invite].to = invites[r.invite].to,
         r.pc = "mark" => r.invite # None
  PROVE  SharingOf(r)'
  BY DEF SharingOf, To, Has

LEMMA RevisionsStand ==
  ASSUME NEW r, RevisionsOf(r), note' = note
  PROVE  RevisionsOf(r)'
  BY DEF RevisionsOf, Longer

\* The request whose turn it was is something else then, and all else has its type.
LEMMA TypesStand ==
  ASSUME NotesTypes, NEW p \in Proc, NEW r, Become(p, r), IsRequest(r),
         scene' = scene, exists' \in BOOLEAN, IsNote(note'), files' \subseteq Key,
         invites' \in [Invite -> InviteRow], lastKey' \in 0 .. MaxKey,
         lastLink' \in 0 .. MaxLink, lastInvite' \in lastInvite .. MaxInvite,
         lost' \subseteq Columns \cup {"row"}, astray' \subseteq Key, owed' \subseteq Text,
         closed' \subseteq Link, removed' \subseteq Friend,
         \A i \in Invite : /\ invites'[i].state # "none" => i <= lastInvite'
                           /\ i <= lastInvite' => invites'[i].to # NoFriend,
         r.invite # None => r.invite <= lastInvite
  PROVE  NotesTypes'
  <1>1. /\ req'[p] = r /\ req' = [q \in Proc |-> req'[q]]
        /\ \A q \in Proc : q # p => req'[q] = req[q]
        /\ \A q \in Proc : IsRequest(req[q])
    BY OtherRequests DEF NotesTypes
  <1>2. lastInvite \in Nat /\ lastInvite' \in Nat /\ lastInvite <= lastInvite' /\ lastInvite' <= MaxInvite
    BY NotesConstants DEF NotesTypes
  <1>3. ASSUME NEW q \in Proc
        PROVE  /\ IsRequest(req'[q])
               /\ req'[q].invite # None => req'[q].invite <= lastInvite'
    <2>1. CASE q = p
      BY <1>1, <1>2, <2>1 DEF IsRequest, RequestRow, Invite, None
    <2>2. CASE q # p
      BY <1>1, <1>2, <2>2 DEF NotesTypes, IsRequest, RequestRow, Invite, None
    <2> QED
      BY <2>1, <2>2
  <1>4. \A q \in Proc : IsRequest(req'[q])
    BY <1>3
  <1>5. (\A q \in Proc : IsRequest(req[q]))'
    BY <1>4 DEF IsRequest
  <1>6. IsNote(note)'
    BY DEF IsNote, IsPart
  <1>7. lastInvite' \in 0 .. MaxInvite
    BY <1>2, NotesConstants
  <1> QED
    BY <1>1, <1>3, <1>5, <1>6, <1>7 DEF NotesTypes

LEMMA LinksFineStands ==
  ASSUME NotesTypes, LinksFine, NEW p \in Proc, NEW r, Become(p, r), note' = note,
         closed' = closed, lastLink' \in lastLink .. MaxLink,
         LinksOf(r)', \A q \in Proc : q # p => Drawn(r) \cap Drawn(req[q]) = {}
  PROVE  LinksFine'
  <1>1. /\ req'[p] = r /\ \A q \in Proc : q # p => req'[q] = req[q]
    BY OtherRequests
  <1>2. lastLink \in Nat /\ lastLink' \in Nat /\ lastLink <= lastLink'
    BY NotesConstants DEF NotesTypes
  <1>3. ASSUME NEW q \in Proc
        PROVE  LinksOf(req[q])'
    <2>1. PICK s : s = req'[q]
      OBVIOUS
    <2>2. CASE q = p
      BY <1>1, <2>1, <2>2
    <2>3. CASE q # p
      <3>1. LinksOf(s)
        BY <1>1, <2>1, <2>3 DEF LinksFine
      <3>2. LinksOf(s)'
        BY <1>2, <3>1, LinksStand
      <3> QED
        BY <2>1, <3>2
    <2> QED
      BY <2>2, <2>3
  <1>4. \A q, o \in Proc : q # o => Drawn(req'[q]) \cap Drawn(req'[o]) = {}
    BY <1>1 DEF LinksFine
  <1>5. \A q, o \in Proc : q # o => Drawn(req[q])' \cap Drawn(req[o])' = {}
    BY <1>4 DEF Drawn
  <1>6. /\ note'.link \notin closed' /\ None \notin closed'
        /\ note'.link <= lastLink' /\ \A l \in closed' : l <= lastLink'
        /\ note'.mode # "none" => note'.link # None
    <2>1. IsNote(note) /\ \A l \in closed : l \in Nat
      BY DEF NotesTypes, Link
    <2>2. note.link \in Nat
      BY <2>1, Values DEF IsNote, IsPart, Columns, Link, None
    <2> QED
      BY <1>2, <2>1, <2>2 DEF LinksFine
  <1> QED
    BY <1>3, <1>5, <1>6 DEF LinksFine

LEMMA SharingFineStands ==
  ASSUME NotesTypes, SharingFine, NEW p \in Proc, NEW r, Become(p, r), note' = note,
         removed' = removed, \A i \in Invite : i <= lastInvite => invites'[i].to = invites[i].to,
         SharingOf(r)', \A i \in Invite : invites'[i].state = "accepted" => Has(invites'[i].to)
  PROVE  SharingFine'
  <1>1. /\ req'[p] = r /\ \A q \in Proc : q # p => req'[q] = req[q]
    BY OtherRequests
  <1>2. ASSUME NEW q \in Proc
        PROVE  SharingOf(req[q])'
    <2>1. PICK s : s = req'[q]
      OBVIOUS
    <2>2. CASE q = p
      BY <1>1, <2>1, <2>2
    <2>3. CASE q # p
      <3>1. SharingOf(s) /\ IsRequest(s) /\ (s.invite # None => s.invite <= lastInvite)
        BY <1>1, <2>1, <2>3 DEF SharingFine, NotesTypes
      <3>2. /\ s.invite # None => invites'[s.invite].to = invites[s.invite].to
            /\ s.pc = "mark" => s.invite # None
        BY <3>1 DEF IsRequest, RequestRow
      <3>3. SharingOf(s)'
        BY <3>1, <3>2, SharingStands
      <3> QED
        BY <2>1, <3>3
    <2> QED
      BY <2>2, <2>3
  <1>3. \A i \in Invite : invites'[i].state = "accepted" => Has(invites[i].to)'
    BY DEF Has
  <1>4. (\A i \in Invite : invites[i].state = "accepted" => Has(invites[i].to))'
    BY <1>3 DEF Has
  <1> QED
    BY <1>2, <1>4 DEF SharingFine

LEMMA RevisionsFineStands ==
  ASSUME NotesTypes, RevisionsFine, NEW p \in Proc, NEW r, Become(p, r), note' = note,
         owed' = owed, RevisionsOf(r)
  PROVE  RevisionsFine'
  <1>1. /\ req'[p] = r /\ \A q \in Proc : q # p => req'[q] = req[q]
    BY OtherRequests
  <1>2. ASSUME NEW q \in Proc
        PROVE  RevisionsOf(req[q])'
    <2>1. PICK s : s = req'[q]
      OBVIOUS
    <2>2. RevisionsOf(s)
      BY <1>1, <2>1 DEF RevisionsFine
    <2>3. RevisionsOf(s)'
      BY <2>2, RevisionsStand
    <2> QED
      BY <2>1, <2>3
  <1> QED
    BY <1>2 DEF RevisionsFine

\* A step of one request that changes neither the row nor the storage.
LEMMA QuietStep ==
  ASSUME NotesInv, NEW p \in Proc, NEW r, Become(p, r), IsRequest(r),
         UNCHANGED <<scene, row, files, history>>,
         lastKey' = lastKey, lastLink' \in lastLink .. MaxLink,
         lastInvite' \in lastInvite .. MaxInvite, invites' \in [Invite -> InviteRow],
         \A i \in Invite : /\ i <= lastInvite => invites'[i].to = invites[i].to
                           /\ invites'[i].state # "none" => i <= lastInvite'
                           /\ i <= lastInvite' => invites'[i].to # NoFriend,
         r.invite # None => r.invite <= lastInvite,
         LinksHold =>
           LinksOf(r)' /\ \A q \in Proc : q # p => Drawn(r) \cap Drawn(req[q]) = {},
         SharingHolds =>
           /\ SharingOf(r)'
           /\ \A i \in Invite : invites'[i].state = "accepted" => Has(invites'[i].to),
         RevisionsHold => RevisionsOf(r)
  PROVE  NotesInv'
  <1>1. /\ NotesTypes /\ req'[p] = r /\ \A q \in Proc : q # p => req'[q] = req[q]
        /\ note' = note /\ files' = files /\ exists' = exists /\ lost' = lost /\ astray' = astray
        /\ owed' = owed /\ closed' = closed /\ removed' = removed /\ scene' = scene
    BY OtherRequests DEF NotesInv, row, history
  <1>2. NotesTypes'
    <2>1. lastLink' \in 0 .. MaxLink
      BY <1>1, NotesConstants DEF NotesTypes
    <2>2. /\ exists' \in BOOLEAN /\ IsNote(note') /\ files' \subseteq Key /\ lastKey' \in 0 .. MaxKey
          /\ lost' \subseteq Columns \cup {"row"} /\ astray' \subseteq Key /\ owed' \subseteq Text
          /\ closed' \subseteq Link /\ removed' \subseteq Friend
      BY <1>1 DEF NotesTypes
    <2> QED
      BY <1>1, <2>1, <2>2, TypesStand
  <1>3. (LinksHold' => LinksHold) /\ (SharingHolds' => SharingHolds) /\ (RevisionsHold' => RevisionsHold)
    BY <1>1 DEF LinksHold, SharingHolds, RevisionsHold, Unharmed
  <1>4. LinksHold => LinksFine'
    BY <1>1, LinksFineStands DEF NotesInv
  <1>5. SharingHolds => SharingFine'
    BY <1>1, SharingFineStands DEF NotesInv
  <1>6. RevisionsHold => RevisionsFine'
    BY <1>1, RevisionsFineStands DEF NotesInv
  <1> QED
    BY <1>2, <1>3, <1>4, <1>5, <1>6 DEF NotesInv

\* Setting a column of a note.
LEMMA ColumnIsSet ==
  ASSUME NEW n, IsNote(n), NEW c \in Columns, NEW v \in Value[c]
  PROVE  /\ IsNote([n EXCEPT ![c] = v]) /\ [n EXCEPT ![c] = v][c] = v
         /\ \A d \in Columns : d # c => [n EXCEPT ![c] = v][d] = n[d]
  <1> DEFINE m == [n EXCEPT ![c] = v]
  <1>1. n = [d \in Columns |-> n[d]] /\ \A d \in Columns : n[d] \in Value[d]
    BY DEF IsNote, IsPart
  <1>2. m = [d \in Columns |-> IF d = c THEN v ELSE n[d]]
    BY <1>1
  <1>3. DOMAIN m = Columns /\ m = [d \in DOMAIN m |-> m[d]] /\ \A d \in Columns : m[d] \in Value[d]
    BY <1>1, <1>2
  <1> QED
    BY <1>2, <1>3 DEF IsNote, IsPart

LEMMA EachColumnIsSet ==
  ASSUME NEW n, IsNote(n)
  PROVE  /\ \A v \in {"guest", "user"} :
              /\ IsNote([n EXCEPT !.owner = v]) /\ [n EXCEPT !.owner = v].owner = v
         /\ \A v \in Text :
              /\ IsNote([n EXCEPT !.text = v]) /\ [n EXCEPT !.text = v].text = v
         /\ \A v \in {h \in Seq(Text) : Len(h) <= MaxHistory} :
              /\ IsNote([n EXCEPT !.history = v]) /\ [n EXCEPT !.history = v].history = v
              /\ [n EXCEPT !.history = v].text = n.text
         /\ \A v \in Mode :
              /\ IsNote([n EXCEPT !.mode = v]) /\ [n EXCEPT !.mode = v].mode = v
         /\ \A v \in Link \cup {None} :
              /\ IsNote([n EXCEPT !.link = v]) /\ [n EXCEPT !.link = v].link = v
              /\ [n EXCEPT !.link = v].mode = n.mode
         /\ \A v \in SUBSET Friend :
              /\ IsNote([n EXCEPT !.sharedWith = v]) /\ [n EXCEPT !.sharedWith = v].sharedWith = v
         /\ \A v \in SUBSET Key :
              /\ IsNote([n EXCEPT !.images = v]) /\ [n EXCEPT !.images = v].images = v
  <1>1. ASSUME NEW v \in {"guest", "user"}
        PROVE  /\ IsNote([n EXCEPT !.owner = v]) /\ [n EXCEPT !.owner = v].owner = v
    <2>1. "owner" \in Columns /\ v \in Value["owner"]
      BY Values DEF Columns
    <2> QED
      BY <2>1, ColumnIsSet
  <1>2. ASSUME NEW v \in Text
        PROVE  /\ IsNote([n EXCEPT !.text = v]) /\ [n EXCEPT !.text = v].text = v
    <2>1. "text" \in Columns /\ v \in Value["text"]
      BY Values DEF Columns
    <2> QED
      BY <2>1, ColumnIsSet
  <1>3. ASSUME NEW v \in {h \in Seq(Text) : Len(h) <= MaxHistory}
        PROVE  /\ IsNote([n EXCEPT !.history = v]) /\ [n EXCEPT !.history = v].history = v
               /\ [n EXCEPT !.history = v].text = n.text
    <2>1. "history" \in Columns /\ v \in Value["history"] /\ "text" \in Columns
      BY Values DEF Columns
    <2> QED
      BY <2>1, ColumnIsSet
  <1>4. ASSUME NEW v \in Mode
        PROVE  /\ IsNote([n EXCEPT !.mode = v]) /\ [n EXCEPT !.mode = v].mode = v
    <2>1. "mode" \in Columns /\ v \in Value["mode"]
      BY Values DEF Columns
    <2> QED
      BY <2>1, ColumnIsSet
  <1>5. ASSUME NEW v \in Link \cup {None}
        PROVE  /\ IsNote([n EXCEPT !.link = v]) /\ [n EXCEPT !.link = v].link = v
               /\ [n EXCEPT !.link = v].mode = n.mode
    <2>1. "link" \in Columns /\ v \in Value["link"] /\ "mode" \in Columns
      BY Values DEF Columns
    <2> QED
      BY <2>1, ColumnIsSet
  <1>6. ASSUME NEW v \in SUBSET Friend
        PROVE  /\ IsNote([n EXCEPT !.sharedWith = v]) /\ [n EXCEPT !.sharedWith = v].sharedWith = v
    <2>1. "sharedWith" \in Columns /\ v \in Value["sharedWith"]
      BY Values DEF Columns
    <2> QED
      BY <2>1, ColumnIsSet
  <1>7. ASSUME NEW v \in SUBSET Key
        PROVE  /\ IsNote([n EXCEPT !.images = v]) /\ [n EXCEPT !.images = v].images = v
    <2>1. "images" \in Columns /\ v \in Value["images"]
      BY Values DEF Columns
    <2> QED
      BY <2>1, ColumnIsSet
  <1> QED
    BY <1>1, <1>2, <1>3, <1>4, <1>5, <1>6, <1>7

\* The columns that a request reads are part of the row.
LEMMA ColumnsAreRead ==
  ASSUME NEW n, IsNote(n), NEW cs \in SUBSET Columns
  PROVE  /\ IsPart([c \in cs |-> n[c]]) /\ DOMAIN [c \in cs |-> n[c]] = cs
         /\ \A c \in cs : [d \in cs |-> n[d]][c] = n[c]
  BY DEF IsNote, IsPart

\* A request reads the row and is about to save an edit of it.
LEMMA BeginSave ==
  ASSUME NotesInv, NEW p \in Proc, NEW e, IsNote(e), NEW cs \in SUBSET Columns,
         NEW r0, IsRequest(r0),
         r0.invite # None => r0.invite <= lastInvite, Save(p, e, cs, r0),
         UNCHANGED <<scene, row, files, invites, lastKey, lastInvite, history>>,
         lastLink' \in lastLink .. MaxLink,
         LinksHold =>
           /\ "mode" \in cs <=> "link" \in cs
           /\ "link" \in cs =>
                /\ e.mode = "none" <=> e.link = None
                /\ \/ e.link \in {None, note.link}
                   \/ note.link = None /\ e.link = lastLink + 1 /\ lastLink' = lastLink + 1,
         r0.invite # None => "sharedWith" \in cs,
         "sharedWith" \in cs =>
           e.sharedWith = IF r0.invite # None THEN note.sharedWith \cup {To(r0)}
                          ELSE note.sharedWith \ {r0.friend},
         "owner" \in cs => e.owner = "user",
         "text" \in cs => r0.plain \/ "history" \in cs,
         RevisionsHold /\ "history" \in cs =>
           /\ "text" \in cs
           /\ r0.plain => e.history = note.history
           /\ ~r0.plain =>
                /\ note.owner = "user"
                /\ \/ e.history = note.history /\ Keeps(note.text, note.history, e.text)
                   \/ e.history = FirstOf(<<note.text>> \o note.history)
  PROVE  NotesInv'
  <1> DEFINE b == [c \in cs |-> note[c]]
             r1 == [r0 EXCEPT !.pc = "save", !.entity = e, !.base = b]
  <1>1. NotesTypes /\ IsNote(note)
    BY DEF NotesInv, NotesTypes
  <1>2. IsPart(b) /\ DOMAIN b = cs /\ \A c \in cs : b[c] = note[c]
    BY <1>1, ColumnsAreRead
  <1>3. /\ "mode" \in cs => b.mode = note.mode
        /\ "link" \in cs => b.link = note.link
        /\ "sharedWith" \in cs => b.sharedWith = note.sharedWith
        /\ "text" \in cs => b.text = note.text
        /\ "history" \in cs => b.history = note.history
    BY <1>2
  <1> HIDE DEF b
  <1>4. Become(p, r1)
    BY DEF Save, b
  <1>5. /\ IsRequest(r1) /\ r1.pc = "save" /\ r1.entity = e /\ r1.base = b /\ r1.update = r0.update
        /\ r1.invite = r0.invite /\ r1.friend = r0.friend /\ r1.plain = r0.plain
    <2>1. e \in NoteRow /\ b \in PartRow /\ r0 \in RequestRow
      BY <1>2, NoteRows, PartRows DEF IsRequest
    <2>2. /\ r1 \in RequestRow /\ r1.pc = "save" /\ r1.entity = e /\ r1.base = b /\ r1.update = r0.update
          /\ r1.invite = r0.invite /\ r1.friend = r0.friend /\ r1.plain = r0.plain
      BY <2>1 DEF RequestRow
    <2> HIDE DEF r1
    <2> QED
      BY <2>2 DEF IsRequest
  <1>6. PICK r : r = r1
    OBVIOUS
  <1> HIDE DEF r1
  <1>7. /\ lastKey \in Nat /\ lastLink \in Nat /\ lastInvite \in Nat
        /\ note.link \in Nat
    BY <1>1, NotesConstants, Values, SMTT(30) DEF NotesTypes, IsNote, IsPart, Columns, Link, None
  <1>8. ASSUME LinksHold
        PROVE  LinksOf(r)' /\ \A q \in Proc : q # p => Drawn(r) \cap Drawn(req[q]) = {}
    <2>1. LinksFine
      BY <1>8 DEF NotesInv
    <2>2. Drawn(r) = IF "link" \in cs THEN {e.link} \ {note.link, None} ELSE {}
      BY <1>2, <1>3, <1>5, <1>6 DEF Drawn
    <2>3. Drawn(r) \subseteq {lastLink + 1} /\ (Drawn(r) # {} => lastLink' = lastLink + 1)
      BY <1>8, <2>2
    <2>4. \A q \in Proc : Drawn(req[q]) \subseteq 1 .. lastLink
      BY <2>1 DEF LinksFine, LinksOf
    <2>5. \A l \in closed : l \in Nat /\ l <= lastLink
      BY <1>1, <2>1 DEF NotesTypes, Link, LinksFine
    <2>6. note.link <= lastLink
      BY <2>1 DEF LinksFine
    <2>7. \A q \in Proc : Drawn(r) \cap Drawn(req[q]) = {}
      BY <1>7, <2>3, <2>4
    <2>8. Drawn(r) \subseteq 1 .. lastLink' /\ note.link \notin Drawn(r) /\ Drawn(r) \cap closed = {}
      BY <1>7, <2>2, <2>3, <2>5
    <2>9. note' = note /\ closed' = closed /\ Drawn(r)' = Drawn(r)
      BY DEF row, history, Drawn
    <2>10. note.mode # "none" => note.link # None
      BY <2>1 DEF LinksFine
    <2>11. "link" \in cs =>
             /\ e.mode = "none" <=> e.link = None
             /\ note.link # None => e.link \in {None, note.link}
      BY <1>8
    <2>12. LinksOf(r)'
      BY <1>2, <1>3, <1>5, <1>6, <1>8, <2>8, <2>9, <2>10, <2>11 DEF LinksOf
    <2> QED
      BY <2>7, <2>12
  <1>9. ASSUME SharingHolds
         PROVE  /\ SharingOf(r)'
                /\ \A i \in Invite : invites'[i].state = "accepted" => Has(invites'[i].to)
    <2>1. SharingFine /\ invites' = invites
      BY <1>9 DEF NotesInv
    <2>2. SharingOf(r)
      BY <1>2, <1>3, <1>5, <1>6 DEF SharingOf, To
    <2>3. note' = note /\ removed' = removed
      BY DEF row, history
    <2>4. SharingOf(r)'
      BY <1>5, <1>6, <2>1, <2>2, <2>3, SharingStands
    <2> QED
      BY <2>1, <2>4 DEF SharingFine
  <1>10. RevisionsHold => RevisionsOf(r)
    BY <1>2, <1>3, <1>5, <1>6 DEF RevisionsOf
  <1>11. /\ Become(p, r) /\ IsRequest(r)
         /\ r.invite # None => r.invite <= lastInvite
    BY <1>4, <1>5, <1>6
  <1>12. /\ lastKey' = lastKey /\ lastInvite' \in lastInvite .. MaxInvite /\ invites' \in [Invite -> InviteRow]
         /\ \A i \in Invite : /\ i <= lastInvite => invites'[i].to = invites[i].to
                              /\ invites'[i].state # "none" => i <= lastInvite'
                              /\ i <= lastInvite' => invites'[i].to # NoFriend
    BY <1>1, <1>7, NotesConstants DEF NotesTypes
  <1> QED
    BY <1>8, <1>9, <1>10, <1>11, <1>12, QuietStep

\* A field of the idle request is set.
LEMMA IdleWith ==
  /\ \A k \in Key : LET r == [Idle EXCEPT !.old = k] IN
       IsRequest(r) /\ r.key = None /\ r.old = k /\ r.invite = None /\ r.plain = FALSE
  /\ \A f \in Friend : LET r == [Idle EXCEPT !.friend = f] IN
       IsRequest(r) /\ r.key = None /\ r.old = None /\ r.invite = None /\ r.friend = f /\ r.plain = FALSE
  /\ \A x \in BOOLEAN : LET r == [Idle EXCEPT !.plain = x] IN
       IsRequest(r) /\ r.key = None /\ r.old = None /\ r.invite = None /\ r.friend = NoFriend /\ r.plain = x
  <1>1. Idle \in RequestRow /\ Idle.pc = "idle"
    BY IdleIsRequest DEF IsRequest, Idle
  <1> QED
    BY <1>1, ZenonT(60) DEF RequestRow, IsRequest, Idle

LEMMA NoteFacts ==
  ASSUME NotesInv
  PROVE  /\ IsNote(note) /\ note.text \in Text /\ note.history \in Seq(Text)
         /\ Len(note.history) <= MaxHistory /\ note.owner \in {"guest", "user"}
         /\ note.mode \in Mode /\ note.link \in Link \cup {None} /\ note.sharedWith \in SUBSET Friend
         /\ note.images \in SUBSET Key
         /\ lastLink \in Nat /\ lastLink <= MaxLink /\ lastKey \in Nat /\ lastInvite \in Nat
         /\ Idle.key = None /\ Idle.old = None /\ Idle.invite = None /\ Idle.friend = NoFriend
         /\ Idle.plain = FALSE /\ IsRequest(Idle)
  <1>1. IsNote(note)
    BY DEF NotesInv, NotesTypes
  <1> QED
    BY <1>1, Values, IdleIsRequest, NotesConstants
    DEF IsNote, IsPart, Columns, NotesInv, NotesTypes, Idle

LEMMA NoteColumnIsSet ==
  ASSUME NotesInv
  PROVE  /\ \A v \in {"guest", "user"} :
              /\ IsNote([note EXCEPT !.owner = v]) /\ [note EXCEPT !.owner = v].owner = v
         /\ \A v \in Text :
              /\ IsNote([note EXCEPT !.text = v]) /\ [note EXCEPT !.text = v].text = v
         /\ \A v \in Mode :
              /\ IsNote([note EXCEPT !.mode = v]) /\ [note EXCEPT !.mode = v].mode = v
         /\ \A v \in SUBSET Friend :
              /\ IsNote([note EXCEPT !.sharedWith = v])
              /\ [note EXCEPT !.sharedWith = v].sharedWith = v
         /\ \A v \in SUBSET Key :
              /\ IsNote([note EXCEPT !.images = v]) /\ [note EXCEPT !.images = v].images = v
  <1>1. IsNote(note)
    BY NoteFacts
  <1> QED
    BY <1>1, EachColumnIsSet

LEMMA BeginsQuietly ==
  ASSUME NotesInv, NEW p \in Proc, NEW op, CanBegin(p, op),
         UNCHANGED <<scene, row, files, invites, drawn, history>>
  PROVE  /\ lastLink' \in lastLink .. MaxLink
         /\ UNCHANGED <<scene, row, files, invites, lastKey, lastInvite, history>>
  <1>1. lastLink \in Nat /\ lastLink <= MaxLink /\ MaxLink \in Nat
    BY NoteFacts, NotesConstants
  <1>2. lastLink' = lastLink
    BY DEF drawn
  <1> QED
    BY <1>1, <1>2 DEF CanBegin, At, drawn

LEMMA UpdateNoteKeepsInv ==
  ASSUME NotesInv, NEW p \in Proc, UpdateNote(p)
  PROVE  NotesInv'
  <1>1. PICK t \in Text :
          Save(p, Revised(note, t), {"text", "history"}, [Idle EXCEPT !.plain = note.owner = "guest"])
    BY DEF UpdateNote
  <1>2. PICK r0 : r0 = [Idle EXCEPT !.plain = note.owner = "guest"]
    OBVIOUS
  <1>3. PICK x \in BOOLEAN : x = (note.owner = "guest")
    OBVIOUS
  <1>4. r0 = [Idle EXCEPT !.plain = x]
    BY <1>2, <1>3
  <1>5. /\ IsRequest(r0) /\ r0.key = None /\ r0.old = None /\ r0.invite = None
        /\ r0.plain <=> note.owner = "guest"
    BY <1>3, <1>4, IdleWith
  <1>6. PICK h \in {g \in Seq(Text) : Len(g) <= MaxHistory} :
          /\ Revised(note, t) = [note EXCEPT !.text = t, !.history = h]
          /\ note.owner = "guest" => h = <<>>
          /\ note.owner # "guest" =>
               \/ h = note.history /\ Keeps(note.text, note.history, t)
               \/ h = FirstOf(<<note.text>> \o note.history)
    <2>1. note.history \in {g \in Seq(Text) : Len(g) <= MaxHistory}
      BY NoteFacts
    <2>2. <<>> \in {g \in Seq(Text) : Len(g) <= MaxHistory}
      BY NotesConstants
    <2>3. FirstOf(<<note.text>> \o note.history) \in {g \in Seq(Text) : Len(g) <= MaxHistory}
      BY NoteFacts, FirstOfFacts
    <2>4. Keeps(note.text, note.history, t) <=>
            note.text \in {0, t} \/ (note.history # <<>> /\ Head(note.history) = note.text)
      BY DEF Keeps
    <2> QED
      BY <2>1, <2>2, <2>3, <2>4 DEF Revised
  <1>7. PICK f : f = [note EXCEPT !.text = t]
    OBVIOUS
  <1>8. PICK e : e = [f EXCEPT !.history = h]
    OBVIOUS
  <1>9. IsNote(e) /\ e.text = t /\ e.history = h
    <2>1. IsNote(f) /\ f.text = t
      BY <1>7, NoteColumnIsSet
    <2> QED
      BY <1>8, <2>1, EachColumnIsSet, ZenonT(60)
  <1>10. Save(p, e, {"text", "history"}, r0) /\ {"text", "history"} \in SUBSET Columns
    BY <1>1, <1>2, <1>6, <1>7, <1>8 DEF Columns
  <1>11. /\ lastLink' \in lastLink .. MaxLink
         /\ UNCHANGED <<scene, row, files, invites, lastKey, lastInvite, history>>
    BY BeginsQuietly DEF UpdateNote
  <1>12. ASSUME RevisionsHold
         PROVE  /\ r0.plain => e.history = note.history
                /\ ~r0.plain =>
                     /\ note.owner = "user"
                     /\ \/ e.history = note.history /\ Keeps(note.text, note.history, e.text)
                        \/ e.history = FirstOf(<<note.text>> \o note.history)
    <2>1. note.owner = "guest" => note.history = <<>>
      BY <1>12 DEF RevisionsFine, NotesInv
    <2> QED
      BY <1>5, <1>6, <1>9, <2>1, NoteFacts
  <1> QED
    BY <1>5, <1>9, <1>10, <1>11, <1>12, BeginSave

LEMMA UpdateByShareTokenKeepsInv ==
  ASSUME NotesInv, NEW p \in Proc, UpdateByShareToken(p)
  PROVE  NotesInv'
  <1>1. PICK t \in Text : Save(p, [note EXCEPT !.text = t], {"text"}, [Idle EXCEPT !.plain = TRUE])
    BY DEF UpdateByShareToken
  <1>2. PICK e : e = [note EXCEPT !.text = t]
    OBVIOUS
  <1>3. PICK r0 : r0 = [Idle EXCEPT !.plain = TRUE]
    OBVIOUS
  <1>4. IsNote(e)
    BY <1>2, NoteColumnIsSet
  <1>5. IsRequest(r0) /\ r0.key = None /\ r0.old = None /\ r0.invite = None /\ r0.plain = TRUE
    BY <1>3, IdleWith
  <1>6. /\ lastLink' \in lastLink .. MaxLink
        /\ UNCHANGED <<scene, row, files, invites, lastKey, lastInvite, history>>
    BY BeginsQuietly DEF UpdateByShareToken
  <1>7. Save(p, e, {"text"}, r0)
    BY <1>1, <1>2, <1>3
  <1>8. {"text"} \in SUBSET Columns
    BY DEF Columns
  <1> QED
    BY <1>4, <1>5, <1>6, <1>7, <1>8, BeginSave

LEMMA SaveOtherKeepsInv ==
  ASSUME NotesInv, NEW p \in Proc, SaveOther(p)
  PROVE  NotesInv'
  <1>1. Save(p, note, {}, Idle) /\ {} \in SUBSET Columns
    BY DEF SaveOther
  <1>2. /\ lastLink' \in lastLink .. MaxLink
        /\ UNCHANGED <<scene, row, files, invites, lastKey, lastInvite, history>>
    BY BeginsQuietly DEF SaveOther
  <1> QED
    BY <1>1, <1>2, NoteFacts, BeginSave

LEMMA ClaimKeepsInv ==
  ASSUME NotesInv, NEW p \in Proc, ClaimGuestNotes(p)
  PROVE  NotesInv'
  <1>1. PICK e : e = [note EXCEPT !.owner = "user"]
    OBVIOUS
  <1>2. Save(p, e, {"owner"}, Idle) /\ {"owner"} \in SUBSET Columns
    BY <1>1 DEF ClaimGuestNotes, Columns
  <1>3. /\ lastLink' \in lastLink .. MaxLink
        /\ UNCHANGED <<scene, row, files, invites, lastKey, lastInvite, history>>
    BY BeginsQuietly DEF ClaimGuestNotes
  <1>4. IsNote(e) /\ e.owner = "user"
    BY <1>1, NoteColumnIsSet
  <1> QED
    BY <1>2, <1>3, <1>4, NoteFacts, BeginSave

LEMMA UpdateShareSettingsKeepsInv ==
  ASSUME NotesInv, NEW p \in Proc, UpdateShareSettings(p)
  PROVE  NotesInv'
  <1>1. PICK m \in Mode, l \in Link \cup {None} :
          /\ Save(p, [note EXCEPT !.mode = m, !.link = l], {"mode", "link"}, Idle)
          /\ \/ m # "none" /\ note.link = None /\ l = lastLink + 1 /\ lastLink' = lastLink + 1
             \/ m = "none" /\ l = None /\ lastLink' = lastLink
             \/ m # "none" /\ note.link # None /\ l = note.link /\ lastLink' = lastLink
    <2>1. PICK m \in Mode :
            \/ /\ m # "none" /\ note.link = None /\ lastLink < MaxLink
               /\ lastLink' = lastLink + 1
               /\ Save(p, [note EXCEPT !.mode = m, !.link = lastLink + 1], {"mode", "link"}, Idle)
            \/ /\ m = "none" \/ note.link # None
               /\ Save(p, [note EXCEPT !.mode = m, !.link = IF m = "none" THEN None ELSE @],
                       {"mode", "link"}, Idle)
               /\ lastLink' = lastLink
      BY DEF UpdateShareSettings
    <2>2. lastLink < MaxLink => lastLink + 1 \in Link
      BY NoteFacts, NotesConstants DEF Link
    <2>3. note.link \in Link \cup {None}
      BY NoteFacts
    <2>4. CASE lastLink' = lastLink + 1
      BY <2>1, <2>2, <2>4, NoteFacts
    <2>5. CASE m = "none" /\ lastLink' = lastLink
      BY <2>1, <2>5, NoteFacts
    <2>6. CASE m # "none" /\ lastLink' = lastLink
      <3>1. note.link # None /\ lastLink \in Nat
        BY <2>1, <2>6, NoteFacts
      <3>2. [note EXCEPT !.mode = m, !.link = IF m = "none" THEN None ELSE @]
              = [note EXCEPT !.mode = m, !.link = note.link]
        BY <2>6
      <3>3. Save(p, [note EXCEPT !.mode = m, !.link = note.link], {"mode", "link"}, Idle)
        BY <2>1, <2>6, <3>1, <3>2
      <3> QED
        BY <2>3, <2>6, <3>1, <3>3
    <2> QED
      BY <2>1, <2>4, <2>5, <2>6
  <1>2. PICK f : f = [note EXCEPT !.mode = m]
    OBVIOUS
  <1>3. PICK e : e = [f EXCEPT !.link = l]
    OBVIOUS
  <1>4. IsNote(f) /\ f.mode = m
    BY <1>2, NoteColumnIsSet
  <1>5. IsNote(e) /\ e.mode = m /\ e.link = l
    <2>1. IsNote(f)
      BY <1>4
    <2>2. \A v \in Link \cup {None} :
            /\ IsNote([f EXCEPT !.link = v]) /\ [f EXCEPT !.link = v].link = v
            /\ [f EXCEPT !.link = v].mode = f.mode
      BY <2>1, EachColumnIsSet
    <2> QED
      BY <1>3, <1>4, <2>2
  <1>6. Save(p, e, {"mode", "link"}, Idle) /\ {"mode", "link"} \in SUBSET Columns
    BY <1>1, <1>2, <1>3 DEF Columns
  <1>7. /\ lastLink' \in lastLink .. MaxLink
        /\ UNCHANGED <<scene, row, files, invites, lastKey, lastInvite, history>>
    BY <1>1, NoteFacts, NotesConstants DEF UpdateShareSettings, CanBegin, At, Link, None
  <1>8. /\ e.mode = "none" <=> e.link = None
        /\ \/ e.link \in {None, note.link}
           \/ note.link = None /\ e.link = lastLink + 1 /\ lastLink' = lastLink + 1
    BY <1>1, <1>5, NoteFacts DEF None
  <1> QED
    BY <1>5, <1>6, <1>7, <1>8, NoteFacts, BeginSave

LEMMA RemoveSharedUserKeepsInv ==
  ASSUME NotesInv, NEW p \in Proc, RemoveSharedUser(p)
  PROVE  NotesInv'
  <1>1. PICK f \in Friend : Save(p, [note EXCEPT !.sharedWith = @ \ {f}], {"sharedWith"}, [Idle EXCEPT !.friend = f])
    BY DEF RemoveSharedUser
  <1>2. PICK s \in SUBSET Friend : s = note.sharedWith \ {f}
    BY NoteFacts
  <1>3. PICK e : e = [note EXCEPT !.sharedWith = s]
    OBVIOUS
  <1>4. PICK r0 : r0 = [Idle EXCEPT !.friend = f]
    OBVIOUS
  <1>5. IsNote(e) /\ e.sharedWith = s
    BY <1>3, NoteColumnIsSet
  <1>6. IsRequest(r0) /\ r0.key = None /\ r0.old = None /\ r0.invite = None /\ r0.friend = f
    BY <1>4, IdleWith
  <1>7. Save(p, e, {"sharedWith"}, r0) /\ {"sharedWith"} \in SUBSET Columns
    BY <1>1, <1>2, <1>3, <1>4 DEF Columns
  <1>8. /\ lastLink' \in lastLink .. MaxLink
        /\ UNCHANGED <<scene, row, files, invites, lastKey, lastInvite, history>>
    BY BeginsQuietly DEF RemoveSharedUser
  <1> QED
    BY <1>2, <1>5, <1>6, <1>7, <1>8, BeginSave

LEMMA DeleteImageKeepsInv ==
  ASSUME NotesInv, NEW p \in Proc, DeleteImage(p)
  PROVE  NotesInv'
  <1>1. PICK k \in note.images : Save(p, [note EXCEPT !.images = @ \ {k}], {"images"}, [Idle EXCEPT !.old = k])
    BY DEF DeleteImage
  <1>2. PICK s \in SUBSET Key : s = note.images \ {k}
    BY NoteFacts
  <1>3. PICK e : e = [note EXCEPT !.images = s]
    OBVIOUS
  <1>4. PICK r0 : r0 = [Idle EXCEPT !.old = k]
    OBVIOUS
  <1>5. IsNote(e) /\ e.images = s
    BY <1>3, NoteColumnIsSet
  <1>6. k \in Key /\ IsRequest(r0) /\ r0.key = None /\ r0.old = k /\ r0.invite = None
    BY <1>4, NoteFacts, IdleWith
  <1>7. Save(p, e, {"images"}, r0) /\ {"images"} \in SUBSET Columns
    BY <1>1, <1>2, <1>3, <1>4 DEF Columns
  <1>8. /\ lastLink' \in lastLink .. MaxLink
        /\ UNCHANGED <<scene, row, files, invites, lastKey, lastInvite, history>>
    BY BeginsQuietly DEF DeleteImage
  <1> QED
    BY <1>2, <1>5, <1>6, <1>7, <1>8, BeginSave

\* A request that does not save and has stored nothing.
LEMMA QuietTurn ==
  ASSUME NotesInv, NEW p \in Proc, NEW r, Become(p, r), IsRequest(r),
         r.pc \notin {"save", "write", "mark"},
         UNCHANGED <<scene, row, files, lastKey, lastLink, history>>,
         lastInvite' \in lastInvite .. MaxInvite, invites' \in [Invite -> InviteRow],
         \A i \in Invite : /\ i <= lastInvite => invites'[i].to = invites[i].to
                           /\ invites'[i].state # "none" => i <= lastInvite'
                           /\ i <= lastInvite' => invites'[i].to # NoFriend,
         r.invite # None => r.invite <= lastInvite,
         SharingHolds => \A i \in Invite : invites'[i].state = "accepted" => Has(invites'[i].to)
  PROVE  NotesInv'
  <1>1. LinksOf(r) /\ SharingOf(r) /\ RevisionsOf(r) /\ Drawn(r) = {}
    BY OthersAreFine
  <1>2. lastLink \in Nat /\ lastLink' \in lastLink .. MaxLink /\ lastLink' \in Nat /\ lastLink <= lastLink'
    BY NotesConstants DEF NotesInv, NotesTypes
  <1>3. LinksOf(r)'
    BY <1>1, <1>2, LinksStand DEF row, history
  <1>4. SharingOf(r)'
    BY DEF SharingOf
  <1> QED
    BY <1>1, <1>2, <1>3, <1>4, QuietStep

\* The same, and the invites stay as they are.
LEMMA QuieterTurn ==
  ASSUME NotesInv, NEW p \in Proc, NEW r, Become(p, r), IsRequest(r),
         r.pc \notin {"save", "write", "mark"},
         UNCHANGED <<scene, row, files, invites, drawn, history>>,
         r.invite # None => r.invite <= lastInvite
  PROVE  NotesInv'
  <1>1. /\ lastInvite' \in lastInvite .. MaxInvite /\ invites' \in [Invite -> InviteRow]
        /\ \A i \in Invite : /\ i <= lastInvite => invites'[i].to = invites[i].to
                             /\ invites'[i].state # "none" => i <= lastInvite'
                             /\ i <= lastInvite' => invites'[i].to # NoFriend
    BY NotesConstants DEF NotesInv, NotesTypes, drawn
  <1>2. SharingHolds => \A i \in Invite : invites'[i].state = "accepted" => Has(invites'[i].to)
    BY DEF NotesInv, SharingFine
  <1>3. UNCHANGED <<scene, row, files, lastKey, lastLink, history>>
    BY DEF drawn
  <1> QED
    BY <1>1, <1>2, <1>3, QuietTurn

LEMMA UploadImageKeepsInv ==
  ASSUME NotesInv, NEW p \in Proc, UploadImage(p)
  PROVE  NotesInv'
  <1>1. PICK r : r = [Idle EXCEPT !.pc = "upload", !.entity = note]
    OBVIOUS
  <1>2. Idle \in RequestRow /\ note \in NoteRow
    BY IdleIsRequest, NoteRows DEF IsRequest, NotesInv, NotesTypes
  <1>3. r \in RequestRow /\ r.pc = "upload" /\ r.key = None /\ r.old = None /\ r.invite = None
    BY <1>1, <1>2, NoteFacts DEF RequestRow
  <1>4. IsRequest(r)
    BY <1>3 DEF IsRequest
  <1>5. Become(p, r) /\ UNCHANGED <<scene, row, files, invites, drawn, history>>
    BY <1>1 DEF UploadImage, CanBegin, At
  <1> QED
    BY <1>3, <1>4, <1>5, QuieterTurn

LEMMA SendShareInviteKeepsInv ==
  ASSUME NotesInv, NEW p \in Proc, SendShareInvite(p)
  PROVE  NotesInv'
  <1>1. PICK f \in Friend : Become(p, [Idle EXCEPT !.pc = "check", !.friend = f])
    BY DEF SendShareInvite
  <1>2. PICK r : r = [Idle EXCEPT !.pc = "check", !.friend = f]
    OBVIOUS
  <1>3. Idle \in RequestRow
    BY IdleIsRequest DEF IsRequest
  <1>4. r \in RequestRow /\ r.pc = "check" /\ r.key = None /\ r.old = None /\ r.invite = None /\ r.friend = f
    BY <1>2, <1>3, NoteFacts DEF RequestRow
  <1>5. IsRequest(r)
    BY <1>4, NotesConstants DEF IsRequest
  <1>6. Become(p, r) /\ UNCHANGED <<scene, row, files, invites, drawn, history>>
    BY <1>1, <1>2 DEF SendShareInvite, CanBegin, At
  <1> QED
    BY <1>4, <1>5, <1>6, QuieterTurn

LEMMA AcceptInviteKeepsInv ==
  ASSUME NotesInv, NEW p \in Proc, AcceptInvite(p)
  PROVE  NotesInv'
  <1>1. PICK i \in Invite : /\ invites[i].state = "pending"
                            /\ Become(p, [Idle EXCEPT !.pc = "accept", !.invite = i])
    BY DEF AcceptInvite
  <1>2. PICK r : r = [Idle EXCEPT !.pc = "accept", !.invite = i]
    OBVIOUS
  <1>3. Idle \in RequestRow /\ i # None /\ i <= lastInvite
    BY <1>1, IdleIsRequest DEF IsRequest, NotesInv, NotesTypes, Invite, None
  <1>4. r \in RequestRow /\ r.pc = "accept" /\ r.key = None /\ r.old = None /\ r.invite = i
    BY <1>2, <1>3, NoteFacts DEF RequestRow
  <1>5. IsRequest(r)
    BY <1>3, <1>4 DEF IsRequest
  <1>6. Become(p, r) /\ UNCHANGED <<scene, row, files, invites, drawn, history>>
    BY <1>1, <1>2 DEF AcceptInvite, CanBegin, At
  <1> QED
    BY <1>3, <1>4, <1>5, <1>6, QuieterTurn

LEMMA CheckPendingKeepsInv ==
  ASSUME NotesInv, NEW p \in Proc, CheckPending(p)
  PROVE  NotesInv'
  <1>1. /\ At(p, "check") /\ UNCHANGED <<scene, row, files, invites, drawn, history>>
        /\ Become(p, [req[p] EXCEPT !.pc = "invite"]) \/ Become(p, Idle)
    BY DEF CheckPending, Finish
  <1>2. PICK r : r = [req[p] EXCEPT !.pc = "invite"]
    OBVIOUS
  <1>3. IsRequest(req[p]) /\ (req[p].invite # None => req[p].invite <= lastInvite)
    BY DEF NotesInv, NotesTypes
  <1>4. req[p] \in RequestRow /\ req[p].friend # NoFriend
    BY <1>1, <1>3 DEF IsRequest, At
  <1>5. /\ r \in RequestRow /\ r.pc = "invite"
        /\ r.invite = req[p].invite /\ r.friend = req[p].friend
    BY <1>2, <1>4 DEF RequestRow
  <1>6. IsRequest(r)
    BY <1>4, <1>5 DEF IsRequest
  <1>7. CASE Become(p, Idle)
    <2>1. Idle.pc = "idle"
      BY DEF Idle
    <2> QED
      BY <1>1, <1>7, <2>1, NoteFacts, QuieterTurn
  <1>8. CASE Become(p, r)
    BY <1>1, <1>3, <1>5, <1>6, <1>8, QuieterTurn
  <1> QED
    BY <1>1, <1>2, <1>7, <1>8

LEMMA InsertInviteKeepsInv ==
  ASSUME NotesInv, NEW p \in Proc, InsertInvite(p)
  PROVE  NotesInv'
  <1>1. /\ At(p, "invite") /\ Become(p, Idle)
        /\ UNCHANGED <<scene, row, files, lastKey, lastLink, history>>
        /\ Idle.pc = "idle"
    BY DEF InsertInvite, Finish, Idle, At
  <1>2. /\ invites \in [Invite -> InviteRow] /\ lastInvite \in Nat /\ lastInvite < MaxInvite /\ MaxInvite \in Nat
        /\ \A i \in Invite : invites[i].state # "none" => i <= lastInvite
        /\ req[p].friend \in Friend /\ req[p].friend # NoFriend
        /\ \A i \in Invite : i <= lastInvite => invites[i].to # NoFriend
    BY <1>1, NotesConstants DEF At, NotesInv, NotesTypes, InsertInvite, IsRequest, RequestRow
  <1>3. \/ UNCHANGED <<invites, lastInvite>>
        \/ /\ lastInvite' = lastInvite + 1
           /\ invites' = [invites EXCEPT ![lastInvite + 1] = [to |-> req[p].friend, state |-> "pending"]]
    BY DEF InsertInvite
  <1>4. [to |-> req[p].friend, state |-> "pending"] \in InviteRow
    BY <1>2 DEF InviteRow
  <1>5. /\ lastInvite' \in lastInvite .. MaxInvite /\ invites' \in [Invite -> InviteRow]
        /\ \A i \in Invite : \/ invites'[i] = invites[i] /\ i # lastInvite'
                             \/ invites'[i] = invites[i] /\ lastInvite' = lastInvite
                             \/ /\ i = lastInvite + 1 /\ invites'[i].state = "pending" /\ i = lastInvite'
                                /\ invites'[i].to # NoFriend
    BY <1>2, <1>3, <1>4
  <1>6. \A i \in Invite : /\ i <= lastInvite => invites'[i].to = invites[i].to
                          /\ invites'[i].state # "none" => i <= lastInvite'
                          /\ i <= lastInvite' => invites'[i].to # NoFriend
                          /\ invites'[i].state = "accepted" => invites'[i] = invites[i]
    BY <1>2, <1>5 DEF Invite
  <1>7. SharingHolds => \A i \in Invite : invites'[i].state = "accepted" => Has(invites'[i].to)
    BY <1>6 DEF NotesInv, SharingFine
  <1> QED
    BY <1>1, <1>5, <1>6, <1>7, NoteFacts, QuietTurn

LEMMA MarkAcceptedKeepsInv ==
  ASSUME NotesInv, NEW p \in Proc, MarkAccepted(p)
  PROVE  NotesInv'
  <1>1. /\ At(p, "mark") /\ Become(p, Idle) /\ Idle.pc = "idle"
        /\ UNCHANGED <<scene, row, files, lastKey, lastLink, lastInvite, history>>
    BY DEF MarkAccepted, Finish, Idle, At, drawn
  <1>2. /\ invites \in [Invite -> InviteRow] /\ lastInvite \in Nat /\ lastInvite <= MaxInvite /\ MaxInvite \in Nat
        /\ \A i \in Invite : /\ invites[i].state # "none" => i <= lastInvite
                             /\ i <= lastInvite => invites[i].to # NoFriend
        /\ req[p].invite \in Invite /\ req[p].invite <= lastInvite
    BY <1>1, NotesConstants DEF NotesInv, NotesTypes, IsRequest, RequestRow, At
  <1>3. \A i \in Invite :
          \/ invites'[i] = invites[i]
          \/ i = req[p].invite /\ invites'[i] = [invites[i] EXCEPT !.state = "accepted"]
    BY <1>2 DEF MarkAccepted
  <1>4. \A i \in Invite : [invites[i] EXCEPT !.state = "accepted"] \in InviteRow
                          /\ [invites[i] EXCEPT !.state = "accepted"].to = invites[i].to
    BY <1>2 DEF InviteRow
  <1>5. invites' \in [Invite -> InviteRow]
    BY <1>2, <1>3, <1>4 DEF MarkAccepted
  <1>6. \A i \in Invite : /\ i <= lastInvite => invites'[i].to = invites[i].to
                          /\ invites'[i].state # "none" => i <= lastInvite'
                          /\ i <= lastInvite' => invites'[i].to # NoFriend
    BY <1>1, <1>2, <1>3, <1>4
  <1>7. ASSUME SharingHolds, NEW i \in Invite, invites'[i].state = "accepted"
        PROVE  Has(invites'[i].to)
    <2>1. Has(invites[req[p].invite].to)
      BY <1>1, <1>7 DEF NotesInv, SharingFine, SharingOf, At, To
    <2>2. invites[i].state = "accepted" => Has(invites[i].to)
      BY <1>7 DEF NotesInv, SharingFine
    <2> QED
      BY <1>3, <1>4, <1>7, <2>1, <2>2
  <1>8. lastInvite' \in lastInvite .. MaxInvite
    BY <1>1, <1>2
  <1> QED
    BY <1>1, <1>5, <1>6, <1>7, <1>8, NoteFacts, QuietTurn

LEMMA ReadForAcceptKeepsInv ==
  ASSUME NotesInv, NEW p \in Proc, ReadForAccept(p)
  PROVE  NotesInv'
  <1>1. At(p, "accept") /\ UNCHANGED <<scene, row, files, invites, drawn, history>>
    BY DEF ReadForAccept, At
  <1>2. PICK r0 : r0 = req[p]
    OBVIOUS
  <1>3. /\ IsRequest(r0) /\ r0.pc = "accept" /\ r0.key = None /\ r0.old = None
        /\ r0.invite \in Invite /\ r0.invite # None /\ r0.invite <= lastInvite
    BY <1>1, <1>2 DEF NotesInv, NotesTypes, IsRequest, RequestRow, At
  <1>4. invites[r0.invite].to \in Friend
    BY <1>3 DEF NotesInv, NotesTypes, InviteRow
  <1>5. \/ Become(p, Idle)
        \/ To(r0) \in note.sharedWith /\ Become(p, [r0 EXCEPT !.pc = "mark"])
        \/ Save(p, [note EXCEPT !.sharedWith = @ \cup {To(r0)}], {"sharedWith"}, r0)
    BY <1>2 DEF ReadForAccept, To, Finish
  <1>6. CASE Become(p, Idle)
    <2>1. Idle.pc = "idle"
      BY DEF Idle
    <2> QED
      BY <1>1, <1>6, <2>1, NoteFacts, QuieterTurn
  <1>7. CASE To(r0) \in note.sharedWith /\ Become(p, [r0 EXCEPT !.pc = "mark"])
    <2>1. PICK r : r = [r0 EXCEPT !.pc = "mark"]
      OBVIOUS
    <2>2. r0 \in RequestRow
      BY <1>3 DEF IsRequest
    <2>3. r \in RequestRow /\ r.pc = "mark" /\ r.key = None /\ r.old = None /\ r.invite = r0.invite
      BY <1>3, <2>1, <2>2 DEF RequestRow
    <2>4. IsRequest(r)
      BY <1>3, <2>3 DEF IsRequest
    <2>5. LinksOf(r) /\ SharingOf(r) /\ RevisionsOf(r) /\ Drawn(r) = {}
      BY <1>7, <2>3 DEF LinksOf, SharingOf, RevisionsOf, Drawn, Has, To
    <2>6. lastLink \in Nat /\ lastLink' \in lastLink .. MaxLink /\ lastLink' \in Nat /\ lastLink <= lastLink'
      BY <1>1, NotesConstants DEF NotesInv, NotesTypes, drawn
    <2>7. LinksOf(r)'
      BY <1>1, <2>5, <2>6, LinksStand DEF row, history
    <2>11. SharingOf(r)'
      BY <1>1, <1>3, <2>3, <2>5, SharingStands DEF row, history
    <2>8. /\ lastKey' = lastKey /\ lastInvite' \in lastInvite .. MaxInvite /\ invites' \in [Invite -> InviteRow]
          /\ \A i \in Invite : /\ i <= lastInvite => invites'[i].to = invites[i].to
                               /\ invites'[i].state # "none" => i <= lastInvite'
                               /\ i <= lastInvite' => invites'[i].to # NoFriend
      BY <1>1, NotesConstants DEF NotesInv, NotesTypes, drawn
    <2>9. SharingHolds => \A i \in Invite : invites'[i].state = "accepted" => Has(invites'[i].to)
      BY <1>1 DEF NotesInv, SharingFine
    <2>10. Become(p, r)
      BY <1>7, <2>1
    <2> QED
      BY <1>1, <1>3, <2>3, <2>4, <2>5, <2>6, <2>7, <2>8, <2>9, <2>10, <2>11, QuietStep
  <1>8. CASE Save(p, [note EXCEPT !.sharedWith = @ \cup {To(r0)}], {"sharedWith"}, r0)
    <2>1. PICK s : s = note.sharedWith \cup {To(r0)}
      OBVIOUS
    <2>2. PICK e : e = [note EXCEPT !.sharedWith = s]
      OBVIOUS
    <2>3. s \in SUBSET Friend
      BY <1>3, <1>4, <2>1, NoteFacts DEF To
    <2>4. IsNote(e) /\ e.sharedWith = s
      BY <2>2, <2>3, NoteColumnIsSet
    <2>5. Save(p, e, {"sharedWith"}, r0) /\ {"sharedWith"} \in SUBSET Columns
      BY <1>8, <2>1, <2>2 DEF Columns
    <2>6. lastLink' \in lastLink .. MaxLink /\ UNCHANGED <<scene, row, files, invites, lastKey, lastInvite, history>>
      BY <1>1, NotesConstants DEF NotesInv, NotesTypes, drawn
    <2> QED
      BY <1>1, <1>3, <2>1, <2>4, <2>5, <2>6, BeginSave
  <1> QED
    BY <1>5, <1>6, <1>7, <1>8

\* A turn of a request that leaves the row alone, whatever happens to the images.
LEMMA StorageStep ==
  ASSUME NotesInv, NEW p \in Proc, NEW r, Become(p, r), IsRequest(r), r.invite = None,
         r.pc = "save" => DOMAIN r.base \subseteq {"images"}, r.pc \notin {"write", "mark"},
         UNCHANGED <<scene, row, invites, lastLink, lastInvite, lost, owed, closed, removed>>,
         files' \subseteq Key, astray' \subseteq Key, lastKey' \in 0 .. MaxKey
  PROVE  NotesInv'
  <1>1. /\ NotesTypes /\ note' = note /\ exists' = exists /\ owed' = owed /\ closed' = closed
        /\ removed' = removed /\ scene' = scene /\ invites' = invites /\ lastLink' = lastLink
        /\ lastInvite' = lastInvite
    BY DEF NotesInv, row
  <1>2. NotesTypes'
    <2>1. /\ exists' \in BOOLEAN /\ IsNote(note') /\ invites' \in [Invite -> InviteRow]
          /\ lastLink' \in 0 .. MaxLink /\ lastInvite' \in lastInvite .. MaxInvite
          /\ lost' \subseteq Columns \cup {"row"} /\ owed' \subseteq Text /\ closed' \subseteq Link
          /\ removed' \subseteq Friend
          /\ \A i \in Invite : /\ invites'[i].state # "none" => i <= lastInvite'
                               /\ i <= lastInvite' => invites'[i].to # NoFriend
      BY <1>1, NotesConstants DEF NotesTypes
    <2> QED
      BY <1>1, <2>1, TypesStand
  <1>3. (LinksHold' => LinksHold) /\ (SharingHolds' => SharingHolds) /\ (RevisionsHold' => RevisionsHold)
    BY <1>1 DEF LinksHold, SharingHolds, RevisionsHold, Unharmed
  <1>4. LinksOf(r) /\ SharingOf(r) /\ RevisionsOf(r) /\ Drawn(r) = {}
    BY DEF LinksOf, SharingOf, RevisionsOf, Drawn
  <1>5. lastLink \in Nat /\ lastLink' \in lastLink .. MaxLink /\ lastLink' \in Nat /\ lastLink <= lastLink'
    BY <1>1, NotesConstants DEF NotesTypes
  <1>6. LinksOf(r)'
    BY <1>1, <1>4, <1>5, LinksStand
  <1>7. SharingOf(r)'
    <2>1. r.pc = "mark" => r.invite # None
      OBVIOUS
    <2> QED
      BY <1>1, <1>4, <2>1, SharingStands
  <1>8. LinksHold => LinksFine'
    BY <1>1, <1>4, <1>5, <1>6, LinksFineStands DEF NotesInv
  <1>9. SharingHolds => SharingFine'
    <2>1. ASSUME SharingHolds
          PROVE  SharingFine /\ \A i \in Invite : invites'[i].state = "accepted" => Has(invites'[i].to)
      BY <1>1, <2>1 DEF NotesInv, SharingFine
    <2> QED
      BY <1>1, <1>7, <2>1, SharingFineStands
  <1>10. RevisionsHold => RevisionsFine'
    BY <1>1, <1>4, RevisionsFineStands DEF NotesInv
  <1> QED
    BY <1>2, <1>3, <1>8, <1>9, <1>10 DEF NotesInv

LEMMA PutImageKeepsInv ==
  ASSUME NotesInv, NEW p \in Proc, PutImage(p)
  PROVE  NotesInv'
  <1>1. PICK k, n : k = lastKey + 1 /\ n = req[p].entity
    OBVIOUS
  <1>2. /\ k \in Key /\ lastKey' = k /\ files' = files \cup {k}
        /\ Become(p, [Idle EXCEPT !.pc = "save", !.key = k, !.base = [c \in {"images"} |-> n[c]],
                                  !.entity = [n EXCEPT !.images = @ \cup {k}]])
        /\ UNCHANGED <<scene, row, invites, lastLink, lastInvite, history>>
    BY <1>1 DEF PutImage, Put
  <1>3. IsNote(n)
    BY <1>1, NoteRows DEF NotesInv, NotesTypes, IsRequest, RequestRow
  <1>4. PICK b : b = [c \in {"images"} |-> n[c]]
    OBVIOUS
  <1>5. IsPart(b) /\ DOMAIN b = {"images"}
    <2>1. {"images"} \in SUBSET Columns
      BY DEF Columns
    <2> QED
      BY <1>3, <1>4, <2>1, ColumnsAreRead
  <1>6. PICK s : s = n.images \cup {k}
    OBVIOUS
  <1>7. s \in SUBSET Key
    BY <1>2, <1>3, <1>6, Values DEF IsNote, IsPart, Columns
  <1>8. PICK e : e = [n EXCEPT !.images = s]
    OBVIOUS
  <1>9. IsNote(e)
    <2>1. \A v \in SUBSET Key : IsNote([n EXCEPT !.images = v]) /\ [n EXCEPT !.images = v].images = v
      BY <1>3, EachColumnIsSet
    <2> QED
      BY <1>7, <1>8, <2>1
  <1>10. PICK r : r = [Idle EXCEPT !.pc = "save", !.key = k, !.base = b, !.entity = e]
    OBVIOUS
  <1>11. Become(p, r)
    BY <1>2, <1>4, <1>6, <1>8, <1>10
  <1>12. Idle \in RequestRow /\ e \in NoteRow /\ b \in PartRow
    BY <1>5, <1>9, NoteRows, PartRows, IdleIsRequest DEF IsRequest
  <1>13. r \in RequestRow /\ r.pc = "save" /\ r.base = b /\ r.invite = None
    BY <1>2, <1>10, <1>12, NoteFacts DEF RequestRow
  <1>14. IsRequest(r)
    BY <1>13 DEF IsRequest
  <1>15. /\ files' \subseteq Key /\ astray' \subseteq Key /\ lastKey' \in 0 .. MaxKey
         /\ UNCHANGED <<scene, row, invites, lastLink, lastInvite, lost, owed, closed, removed>>
    BY <1>2, NotesConstants DEF history, NotesInv, NotesTypes, Key
  <1> QED
    BY <1>5, <1>11, <1>13, <1>14, <1>15, StorageStep

LEMMA CleanImageKeepsInv ==
  ASSUME NotesInv, NEW p \in Proc, CleanImage(p)
  PROVE  NotesInv'
  <1>1. /\ files' \subseteq files /\ Become(p, Idle) /\ Idle.pc = "idle"
        /\ UNCHANGED <<scene, row, invites, drawn, history>>
    BY DEF CleanImage, Finish, Idle
  <1>2. /\ files' \subseteq Key /\ astray' \subseteq Key /\ lastKey' \in 0 .. MaxKey
        /\ UNCHANGED <<scene, row, invites, lastLink, lastInvite, lost, owed, closed, removed>>
    BY <1>1 DEF NotesInv, NotesTypes, drawn, history
  <1> QED
    BY <1>1, <1>2, NoteFacts, StorageStep

LEMMA BeginDeleteKeepsInv ==
  ASSUME NotesInv, NEW p \in Proc, BeginDelete(p)
  PROVE  NotesInv'
  <1>1. PICK r : r = [Idle EXCEPT !.pc = "delete"]
    OBVIOUS
  <1>2. /\ files' \subseteq files /\ astray' \subseteq astray \cup note.images /\ Become(p, r)
        /\ UNCHANGED <<scene, row, invites, drawn, lost, owed, closed, removed>>
    BY <1>1 DEF BeginDelete
  <1>3. Idle \in RequestRow
    BY IdleIsRequest DEF IsRequest
  <1>4. r \in RequestRow /\ r.pc = "delete" /\ r.invite = None
    BY <1>1, <1>3, NoteFacts DEF RequestRow
  <1>5. IsRequest(r)
    BY <1>4 DEF IsRequest
  <1>6. /\ files' \subseteq Key /\ astray' \subseteq Key /\ lastKey' \in 0 .. MaxKey
        /\ UNCHANGED <<scene, row, invites, lastLink, lastInvite, lost, owed, closed, removed>>
    BY <1>2, NoteFacts DEF NotesInv, NotesTypes, drawn
  <1> QED
    BY <1>2, <1>4, <1>5, <1>6, StorageStep

LEMMA FailKeepsInv ==
  ASSUME NotesInv, NEW p \in Proc, Fail(p)
  PROVE  NotesInv'
  <1>1. /\ files' \subseteq files /\ Become(p, Idle) /\ Idle.pc = "idle"
        /\ UNCHANGED <<scene, row, invites, drawn, history>>
    BY DEF Fail, Finish, Idle
  <1>2. /\ files' \subseteq Key /\ astray' \subseteq Key /\ lastKey' \in 0 .. MaxKey
        /\ UNCHANGED <<scene, row, invites, lastLink, lastInvite, lost, owed, closed, removed>>
    BY <1>1 DEF NotesInv, NotesTypes, drawn, history
  <1> QED
    BY <1>1, <1>2, NoteFacts, StorageStep

LEMMA DeleteNoteKeepsInv ==
  ASSUME NotesInv, NEW p \in Proc, DeleteNote(p)
  PROVE  NotesInv'
  <1>1. /\ exists' = FALSE /\ Become(p, Idle) /\ UNCHANGED <<scene, note, files, drawn, history>>
        /\ invites' = [i \in Invite |-> [invites[i] EXCEPT !.state = "none"]]
    BY DEF DeleteNote, Finish
  <1>2. ASSUME NEW i \in Invite
        PROVE  invites'[i] \in InviteRow /\ invites'[i].state = "none" /\ invites'[i].to = invites[i].to
    BY <1>1 DEF NotesInv, NotesTypes, InviteRow
  <1>3. invites' \in [Invite -> InviteRow]
    BY <1>1, <1>2
  <1>4. /\ scene' = scene /\ exists' \in BOOLEAN /\ IsNote(note') /\ files' \subseteq Key
        /\ lastKey' \in 0 .. MaxKey /\ lastLink' \in 0 .. MaxLink /\ lastInvite' \in lastInvite .. MaxInvite
        /\ lost' \subseteq Columns \cup {"row"} /\ astray' \subseteq Key /\ owed' \subseteq Text
        /\ closed' \subseteq Link /\ removed' \subseteq Friend
        /\ \A i \in Invite : /\ invites'[i].state # "none" => i <= lastInvite'
                             /\ i <= lastInvite' => invites'[i].to # NoFriend
    <2>1. /\ lastKey' = lastKey /\ lastLink' = lastLink /\ lastInvite' = lastInvite /\ lost' = lost
          /\ astray' = astray /\ owed' = owed /\ closed' = closed /\ removed' = removed
      BY <1>1 DEF drawn, history
    <2>2. \A i \in Invite : i <= lastInvite => invites[i].to # NoFriend
      BY DEF NotesInv, NotesTypes
    <2>3. lastInvite' \in lastInvite .. MaxInvite
      BY <2>1, NotesConstants DEF NotesInv, NotesTypes
    <2> QED
      BY <1>1, <1>2, <2>1, <2>2, <2>3 DEF NotesInv, NotesTypes
  <1>5. NotesTypes'
    BY <1>1, <1>3, <1>4, NoteFacts, TypesStand DEF NotesInv
  <1> QED
    BY <1>1, <1>5 DEF NotesInv, LinksHold, SharingHolds, RevisionsHold

\* An invite expires or is cleaned up.
LEMMA InvitesGo ==
  ASSUME NotesInv, UNCHANGED <<scene, row, files, drawn, req, history>>,
         invites' \in [Invite -> InviteRow],
         \A i \in Invite : /\ invites'[i].to = invites[i].to
                           /\ invites'[i].state # "none" => invites[i].state # "none"
                           /\ invites'[i].state # "accepted" \/ invites'[i] = invites[i]
  PROVE  NotesInv'
  <1>1. /\ scene' = scene /\ exists' = exists /\ note' = note /\ files' = files /\ req' = req
        /\ lost' = lost /\ astray' = astray /\ owed' = owed /\ closed' = closed
        /\ removed' = removed
        /\ lastKey' = lastKey /\ lastLink' = lastLink /\ lastInvite' = lastInvite
    BY DEF row, drawn, history
  <1>2. NotesTypes'
    <2>1. IsNote(note)' /\ (\A q \in Proc : IsRequest(req[q]))'
      BY <1>1 DEF NotesInv, NotesTypes
    <2>2. /\ \A i \in Invite : /\ invites'[i].state # "none" => i <= lastInvite'
                               /\ i <= lastInvite' => invites'[i].to # NoFriend
          /\ \A q \in Proc : req'[q].invite # None => req'[q].invite <= lastInvite'
          /\ req' = [q \in Proc |-> req'[q]]
      BY <1>1 DEF NotesInv, NotesTypes
    <2> QED
      BY <1>1, <2>1, <2>2 DEF NotesInv, NotesTypes
  <1>3. ASSUME LinksHold'
        PROVE  LinksFine'
    <2>1. LinksFine
      BY <1>1, <1>3 DEF LinksHold, Unharmed, NotesInv
    <2>2. lastLink \in Nat /\ lastLink' \in Nat /\ lastLink <= lastLink'
      BY <1>1, NotesConstants DEF NotesInv, NotesTypes
    <2>3. ASSUME NEW q \in Proc
          PROVE  LinksOf(req[q])'
      <3>1. PICK s : s = req[q]
        OBVIOUS
      <3>2. LinksOf(s)
        BY <2>1, <3>1 DEF LinksFine
      <3>3. LinksOf(s)'
        BY <1>1, <2>2, <3>2, LinksStand
      <3> QED
        BY <1>1, <3>1, <3>3
    <2>4. \A q, o \in Proc : q # o => Drawn(req[q])' \cap Drawn(req[o])' = {}
      <3>1. \A q \in Proc : Drawn(req[q])' = Drawn(req[q])
        BY <1>1 DEF Drawn
      <3> QED
        BY <2>1, <3>1 DEF LinksFine
    <2> QED
      BY <1>1, <2>1, <2>3, <2>4 DEF LinksFine
  <1>4. RevisionsHold' => RevisionsFine'
    BY <1>1 DEF NotesInv, RevisionsHold, RevisionsFine, RevisionsOf, Unharmed, Longer
  <1>5. ASSUME SharingHolds'
        PROVE  SharingFine'
    <2>1. SharingFine
      BY <1>1, <1>5 DEF SharingHolds, Unharmed, NotesInv
    <2>2. ASSUME NEW q \in Proc
          PROVE  SharingOf(req[q])'
      <3>1. PICK s : s = req[q]
        OBVIOUS
      <3>2. SharingOf(s) /\ IsRequest(s)
        BY <2>1, <3>1 DEF SharingFine, NotesInv, NotesTypes
      <3>3. /\ s.invite # None => invites'[s.invite].to = invites[s.invite].to
            /\ s.pc = "mark" => s.invite # None
        BY <3>2 DEF IsRequest, RequestRow
      <3>4. SharingOf(s)'
        BY <1>1, <3>2, <3>3, SharingStands
      <3> QED
        BY <1>1, <3>1, <3>4
    <2>3. \A i \in Invite : invites'[i].state = "accepted" => Has(invites[i].to)'
      BY <1>1, <2>1 DEF SharingFine, Has
    <2>4. (\A i \in Invite : invites[i].state = "accepted" => Has(invites[i].to))'
      BY <1>1, <2>3 DEF Has
    <2> QED
      BY <2>2, <2>4 DEF SharingFine
  <1> QED
    BY <1>2, <1>3, <1>4, <1>5 DEF NotesInv

LEMMA ExpireInviteKeepsInv ==
  ASSUME NotesInv, NEW i \in Invite, ExpireInvite(i)
  PROVE  NotesInv'
  <1>1. /\ invites \in [Invite -> InviteRow] /\ invites[i].state = "pending"
        /\ invites' = [invites EXCEPT ![i].state = "expired"]
        /\ UNCHANGED <<scene, row, files, drawn, req, history>>
    BY DEF ExpireInvite, NotesInv, NotesTypes
  <1>2. /\ [invites[i] EXCEPT !.state = "expired"] \in InviteRow
        /\ [invites[i] EXCEPT !.state = "expired"].to = invites[i].to
        /\ [invites[i] EXCEPT !.state = "expired"].state = "expired"
    BY <1>1 DEF InviteRow
  <1>3. /\ invites' \in [Invite -> InviteRow]
        /\ \A j \in Invite : /\ invites'[j].to = invites[j].to
                             /\ invites'[j].state # "none" => invites[j].state # "none"
                             /\ invites'[j].state # "accepted" \/ invites'[j] = invites[j]
    BY <1>1, <1>2
  <1> QED
    BY <1>1, <1>3, InvitesGo

LEMMA CleanupKeepsInv ==
  ASSUME NotesInv, CleanupExpiredInvites
  PROVE  NotesInv'
  <1>1. /\ invites \in [Invite -> InviteRow]
        /\ invites' = [i \in Invite |-> IF invites[i].state = "expired"
                         THEN [invites[i] EXCEPT !.state = "none"] ELSE invites[i]]
        /\ UNCHANGED <<scene, row, files, drawn, req, history>>
    BY DEF CleanupExpiredInvites, NotesInv, NotesTypes
  <1>2. \A i \in Invite : /\ [invites[i] EXCEPT !.state = "none"] \in InviteRow
                          /\ [invites[i] EXCEPT !.state = "none"].to = invites[i].to
                          /\ [invites[i] EXCEPT !.state = "none"].state = "none"
    BY <1>1 DEF InviteRow
  <1>3. /\ invites' \in [Invite -> InviteRow]
        /\ \A j \in Invite : /\ invites'[j].to = invites[j].to
                             /\ invites'[j].state # "none" => invites[j].state # "none"
                             /\ invites'[j].state # "accepted" \/ invites'[j] = invites[j]
    BY <1>1, <1>2
  <1> QED
    BY <1>1, <1>3, InvitesGo

\* What a request is after it has saved.
LEMMA SavedRequest ==
  ASSUME NotesInv, NEW p \in Proc, AfterSave(p)
  PROVE  \E r :
           /\ Become(p, r) /\ IsRequest(r) /\ r.pc \in {"idle", "mark", "clean"}
           /\ r.invite \in {None, req[p].invite} /\ (r.pc = "mark" => r.invite # None)
           /\ r.invite # None => r.invite <= lastInvite
  <1>1. Idle \in RequestRow /\ Idle.pc = "idle"
    BY IdleIsRequest DEF IsRequest, Idle
  <1>2. /\ req[p].invite \in Invite \cup {None} /\ req[p].old \in Key \cup {None}
        /\ req[p].invite # None => req[p].invite <= lastInvite
    BY DEF NotesInv, NotesTypes, IsRequest, RequestRow
  <1>3. \/ req[p].invite # None /\ Become(p, [Idle EXCEPT !.pc = "mark", !.invite = req[p].invite])
        \/ Become(p, [Idle EXCEPT !.pc = "clean", !.old = req[p].old])
        \/ Become(p, Idle)
    BY DEF AfterSave
  <1>4. CASE req[p].invite # None /\ Become(p, [Idle EXCEPT !.pc = "mark", !.invite = req[p].invite])
    <2>1. PICK r : r = [Idle EXCEPT !.pc = "mark", !.invite = req[p].invite]
      OBVIOUS
    <2>2. r \in RequestRow /\ r.pc = "mark" /\ r.key = None /\ r.old = None /\ r.invite = req[p].invite
      BY <1>1, <1>2, <2>1, NoteFacts DEF RequestRow
    <2>3. IsRequest(r)
      BY <1>4, <2>2 DEF IsRequest
    <2> QED
      BY <1>2, <1>4, <2>1, <2>2, <2>3
  <1>5. CASE Become(p, [Idle EXCEPT !.pc = "clean", !.old = req[p].old])
    <2>1. PICK r : r = [Idle EXCEPT !.pc = "clean", !.old = req[p].old]
      OBVIOUS
    <2>2. r \in RequestRow /\ r.pc = "clean" /\ r.key = None /\ r.old = req[p].old /\ r.invite = None
      BY <1>1, <1>2, <2>1, NoteFacts DEF RequestRow
    <2>3. IsRequest(r)
      BY <2>2 DEF IsRequest
    <2> QED
      BY <1>5, <2>1, <2>2, <2>3
  <1>6. CASE Become(p, Idle)
    BY <1>1, <1>6, NoteFacts
  <1> QED
    BY <1>3, <1>4, <1>5, <1>6

\* A column that has been read and compared.
Compared(r, w) ==
  /\ r.pc = "save" /\ w.pc = "write" /\ w.invite = r.invite /\ w.friend = r.friend
  /\ w.plain = r.plain
  /\ DOMAIN w.update = {c \in Columns : note[c] # r.entity[c]}
  /\ DOMAIN w.base = DOMAIN w.update \cup DOMAIN r.base
  /\ \A c \in DOMAIN w.update : w.update[c] = r.entity[c]
  /\ \A c \in DOMAIN w.base : w.base[c] = IF c \in DOMAIN r.base THEN r.base[c] ELSE r.entity[c]

LEMMA ComparedLinks ==
  ASSUME NEW r, NEW w, Compared(r, w), LinksFine, LinksOf(r)
  PROVE  LinksOf(w) /\ Drawn(w) \subseteq Drawn(r)
  <1>1. "mode" \in Columns /\ "link" \in Columns
    BY DEF Columns
  <1>2. /\ "link" \in DOMAIN w.update <=> note.link # r.entity.link
        /\ "mode" \in DOMAIN w.update <=> note.mode # r.entity.mode
        /\ "link" \in DOMAIN w.update => w.update.link = r.entity.link /\ "link" \in DOMAIN w.base
        /\ "mode" \in DOMAIN w.update => w.update.mode = r.entity.mode /\ "mode" \in DOMAIN w.base
        /\ "link" \in DOMAIN w.base =>
             w.base.link = IF "link" \in DOMAIN r.base THEN r.base.link ELSE r.entity.link
        /\ "mode" \in DOMAIN w.base =>
             w.base.mode = IF "mode" \in DOMAIN r.base THEN r.base.mode ELSE r.entity.mode
        /\ "link" \in DOMAIN r.base => "link" \in DOMAIN w.base
        /\ "mode" \in DOMAIN r.base => "mode" \in DOMAIN w.base
        /\ r.pc = "save" /\ w.pc = "write"
    BY <1>1 DEF Compared
  <1>3. Drawn(w) \subseteq Drawn(r)
    BY <1>2 DEF Drawn
  <1>4. Drawn(w) \subseteq 1 .. lastLink /\ note.link \notin Drawn(w) /\ Drawn(w) \cap closed = {}
    BY <1>3 DEF LinksOf
  <1>5. {"mode", "link"} \cap DOMAIN r.base # {} =>
          /\ {"mode", "link"} \subseteq DOMAIN r.base
          /\ r.entity.mode = "none" <=> r.entity.link = None
          /\ r.base.link # None => r.entity.link \in {None, r.base.link}
          /\ r.base.mode # "none" =>
               /\ r.base.link # None
               /\ r.base.link \in closed \/ (note.mode # "none" /\ note.link = r.base.link)
    BY <1>2 DEF LinksOf
  <1>6. note.mode # "none" => note.link # None
    BY DEF LinksFine
  <1>7. ASSUME "mode" \in DOMAIN w.update, w.update.mode # w.base.mode
        PROVE  /\ "link" \in DOMAIN w.base
               /\ w.update.mode = "none" => "link" \in DOMAIN w.update /\ w.update.link = None
               /\ w.update.mode # "none" =>
                    IF "link" \in DOMAIN w.update THEN w.update.link # None ELSE w.base.link # None
    <2>1. /\ "mode" \in DOMAIN r.base /\ "link" \in DOMAIN r.base /\ "link" \in DOMAIN w.base
          /\ r.entity.mode = "none" <=> r.entity.link = None /\ w.base.link = r.base.link
          /\ r.base.link # None => r.entity.link \in {None, r.base.link}
      BY <1>2, <1>5, <1>7
    <2>2. r.base.link = None /\ r.entity.link # None => r.entity.link \in Drawn(r)
      BY <1>2, <2>1 DEF Drawn
    <2>3. note.link \notin Drawn(r)
      BY DEF LinksOf
    <2> QED
      BY <1>2, <1>6, <1>7, <2>1, <2>2, <2>3
  <1>8. ASSUME "link" \in DOMAIN w.update, w.update.link # w.base.link
        PROVE  /\ "mode" \in DOMAIN w.base
               /\ w.update.link # None => w.base.link = None
               /\ w.update.link = None =>
                    IF "mode" \in DOMAIN w.update THEN w.update.mode = "none"
                    ELSE w.base.mode = "none" \/ w.base.link \in closed
    <2>1. "link" \in DOMAIN r.base
      BY <1>2, <1>8
    <2>2. {"mode", "link"} \cap DOMAIN r.base # {}
      BY <2>1
    <2> QED
      BY <1>2, <1>5, <1>8, <2>1, <2>2
  <1> QED
    BY <1>2, <1>3, <1>4, <1>7, <1>8 DEF LinksOf

LEMMA ComparedSharing ==
  ASSUME NEW r, NEW w, Compared(r, w), SharingOf(r)
  PROVE  SharingOf(w)
  <1>1. "sharedWith" \in Columns
    BY DEF Columns
  <1> QED
    BY <1>1 DEF Compared, SharingOf, To, Has

LEMMA ComparedRevisions ==
  ASSUME NEW r, NEW w, IsRequest(r), Compared(r, w), RevisionsOf(r)
  PROVE  RevisionsOf(w)
  <1>1. "owner" \in Columns /\ "text" \in Columns /\ "history" \in Columns
    BY DEF Columns
  <1>2. /\ "owner" \in DOMAIN w.update => w.update.owner = r.entity.owner /\ "owner" \in DOMAIN w.base
        /\ "owner" \in DOMAIN w.base =>
             w.base.owner = IF "owner" \in DOMAIN r.base THEN r.base.owner ELSE r.entity.owner
        /\ "text" \in DOMAIN w.update => w.update.text = r.entity.text /\ "text" \in DOMAIN w.base
        /\ "text" \in DOMAIN w.base =>
             w.base.text = IF "text" \in DOMAIN r.base THEN r.base.text ELSE r.entity.text
        /\ "history" \in DOMAIN w.update <=> note.history # r.entity.history
        /\ "history" \in DOMAIN w.update =>
             w.update.history = r.entity.history /\ "history" \in DOMAIN w.base
        /\ "history" \in DOMAIN w.base =>
             w.base.history = IF "history" \in DOMAIN r.base THEN r.base.history ELSE r.entity.history
        /\ "history" \in DOMAIN r.base => "history" \in DOMAIN w.base
        /\ r.pc = "save" /\ w.pc = "write" /\ w.plain = r.plain
    BY <1>1 DEF Compared
  <1>3. "owner" \in DOMAIN w.update => w.update.owner \in {w.base.owner, "user"}
    BY <1>2 DEF RevisionsOf
  <1>4. "history" \in DOMAIN r.base =>
          /\ "text" \in DOMAIN r.base
          /\ r.plain => r.entity.history = r.base.history
          /\ ~r.plain =>
               /\ note.owner = "user"
               /\ \/ /\ r.entity.history = r.base.history
                     /\ Keeps(r.base.text, r.base.history, r.entity.text)
                  \/ r.entity.history = FirstOf(<<r.base.text>> \o r.base.history)
    BY <1>2 DEF RevisionsOf
  <1>5. IsPart(r.base)
    BY PartRows DEF IsRequest, RequestRow
  <1>6. /\ "text" \in DOMAIN r.base => r.base.text \in Text
        /\ "history" \in DOMAIN r.base => r.base.history \in Seq(Text) /\ Len(r.base.history) <= MaxHistory
    BY <1>5, Values DEF IsPart
  <1>7. ASSUME "text" \in DOMAIN w.update, w.update.text # w.base.text, ~w.plain
        PROVE  /\ "history" \in DOMAIN w.base
               /\ IF "history" \in DOMAIN w.update
                  THEN \/ /\ w.update.history = w.base.history
                          /\ Keeps(w.base.text, w.base.history, w.update.text)
                       \/ w.update.history = FirstOf(<<w.base.text>> \o w.base.history)
                  ELSE \/ Keeps(w.base.text, w.base.history, w.update.text)
                       \/ Longer(note.history, w.base.history)
    <2>1. "text" \in DOMAIN r.base /\ "history" \in DOMAIN r.base
      BY <1>2, <1>7 DEF RevisionsOf
    <2>2. /\ "history" \in DOMAIN w.base /\ w.base.text = r.base.text /\ w.base.history = r.base.history
          /\ w.update.text = r.entity.text
          /\ \/ /\ r.entity.history = r.base.history
                /\ Keeps(r.base.text, r.base.history, r.entity.text)
             \/ r.entity.history = FirstOf(<<r.base.text>> \o r.base.history)
      BY <1>2, <1>4, <1>7, <2>1
    <2>3. Longer(FirstOf(<<r.base.text>> \o r.base.history), r.base.history)
      <3>1. Len(r.base.history) \in Nat
        BY <1>6, <2>1
      <3> QED
        BY <1>6, <2>1, <3>1, FirstOfFacts DEF Longer
    <2> QED
      BY <1>2, <2>2, <2>3
  <1>8. ASSUME "history" \in DOMAIN w.update, w.update.history # w.base.history
        PROVE  /\ note.owner = "user"
               /\ \E t \in Text : w.update.history = FirstOf(<<t>> \o w.base.history)
    <2>1. /\ "history" \in DOMAIN r.base /\ w.update.history = r.entity.history
          /\ w.base.history = r.base.history
      BY <1>2, <1>8
    <2>2. /\ note.owner = "user" /\ r.base.text \in Text
          /\ w.update.history = FirstOf(<<r.base.text>> \o w.base.history)
      BY <1>4, <1>6, <1>8, <2>1
    <2> QED
      BY <2>2
  <1> QED
    BY <1>2, <1>3, <1>7, <1>8 DEF RevisionsOf

LEMMA ReloadKeepsInv ==
  ASSUME NotesInv, NEW p \in Proc, Reload(p)
  PROVE  NotesInv'
  <1>1. PICK r : r = req[p]
    OBVIOUS
  <1>2. PICK differ \in SUBSET Columns : differ = {c \in Columns : note[c] # r.entity[c]}
    OBVIOUS
  <1>3. PICK cs : cs = differ \cup DOMAIN r.base
    OBVIOUS
  <1>4. PICK b : b = [c \in cs |-> IF c \in DOMAIN r.base THEN r.base[c] ELSE r.entity[c]]
    OBVIOUS
  <1>5. PICK u : u = [c \in differ |-> r.entity[c]]
    OBVIOUS
  <1>6. /\ r.pc = "save" /\ UNCHANGED <<scene, row, files, invites, drawn, history>>
        /\ \/ ~exists /\ Become(p, [r EXCEPT !.pc = "insert"])
           \/ differ = {} /\ AfterSave(p)
           \/ Become(p, [r EXCEPT !.pc = "write", !.entity = NewNote,
                                  !.base = [c \in differ \cup DOMAIN @ |->
                                              IF c \in DOMAIN r.base THEN r.base[c] ELSE r.entity[c]],
                                  !.update = [c \in differ |-> r.entity[c]]])
    BY <1>1, <1>2 DEF Reload, At
  <1>7. /\ IsRequest(r) /\ (r.invite # None => r.invite <= lastInvite) /\ r \in RequestRow
        /\ IsNote(r.entity) /\ IsPart(r.base)
    BY <1>1, NoteRows, PartRows DEF NotesInv, NotesTypes, IsRequest, RequestRow
  <1>8. /\ lastKey' = lastKey /\ lastLink' \in lastLink .. MaxLink /\ lastInvite' \in lastInvite .. MaxInvite
        /\ invites' \in [Invite -> InviteRow] /\ lastLink \in Nat /\ lastLink' \in Nat /\ lastLink <= lastLink'
        /\ note' = note /\ closed' = closed /\ removed' = removed /\ invites' = invites
        /\ \A i \in Invite : /\ i <= lastInvite => invites'[i].to = invites[i].to
                             /\ invites'[i].state # "none" => i <= lastInvite'
                             /\ i <= lastInvite' => invites'[i].to # NoFriend
    <2>1. /\ lastKey' = lastKey /\ lastLink' = lastLink /\ lastInvite' = lastInvite /\ invites' = invites
          /\ note' = note /\ closed' = closed /\ removed' = removed
      BY <1>6 DEF drawn, row, history
    <2> QED
      BY <2>1, NotesConstants DEF NotesInv, NotesTypes
  <1>9. SharingHolds => \A i \in Invite : invites'[i].state = "accepted" => Has(invites'[i].to)
    BY <1>8 DEF NotesInv, SharingFine
  <1>10. UNCHANGED <<scene, row, files, history>>
    BY <1>6
  <1>11. CASE ~exists /\ Become(p, [r EXCEPT !.pc = "insert"])
    <2>1. PICK w : w = [r EXCEPT !.pc = "insert"]
      OBVIOUS
    <2>2. w \in RequestRow /\ w.pc = "insert" /\ w.invite = r.invite
      BY <1>7, <2>1 DEF RequestRow
    <2>3. IsRequest(w)
      BY <2>2 DEF IsRequest
    <2>4. ~LinksHold /\ ~SharingHolds /\ ~RevisionsHold
      BY <1>11 DEF LinksHold, SharingHolds, RevisionsHold
    <2>5. Become(p, w)
      BY <1>11, <2>1
    <2> QED
      BY <1>6, <1>7, <1>8, <1>10, <2>2, <2>3, <2>4, <2>5, QuietStep
  <1>12. CASE differ = {} /\ AfterSave(p)
    <2>1. PICK s :
            /\ Become(p, s) /\ IsRequest(s) /\ s.pc \in {"idle", "mark", "clean"}
            /\ s.invite \in {None, r.invite} /\ (s.pc = "mark" => s.invite # None)
            /\ s.invite # None => s.invite <= lastInvite
      BY <1>1, <1>12, SavedRequest
    <2>2. "sharedWith" \in Columns
      BY DEF Columns
    <2>3. note.sharedWith = r.entity.sharedWith
      BY <1>2, <1>12, <2>2
    <2>4. LinksOf(s) /\ Drawn(s) = {} /\ RevisionsOf(s)
      BY <2>1 DEF LinksOf, Drawn, RevisionsOf
    <2>5. LinksOf(s)'
      BY <1>8, <2>4, LinksStand
    <2>6. ASSUME SharingHolds
          PROVE  SharingOf(s)'
      <3>1. SharingOf(s)
        BY <1>1, <1>6, <2>1, <2>3, <2>6 DEF NotesInv, SharingFine, SharingOf, Has, To
      <3>2. /\ s.invite # None => invites'[s.invite].to = invites[s.invite].to
            /\ s.pc = "mark" => s.invite # None
        BY <1>8, <2>1
      <3> QED
        BY <1>8, <3>1, <3>2, SharingStands
    <2> QED
      BY <1>6, <1>8, <1>9, <1>10, <2>1, <2>4, <2>5, <2>6, QuietStep
  <1>13. CASE Become(p, [r EXCEPT !.pc = "write", !.entity = NewNote,
                                  !.base = [c \in differ \cup DOMAIN @ |->
                                              IF c \in DOMAIN r.base THEN r.base[c] ELSE r.entity[c]],
                                  !.update = [c \in differ |-> r.entity[c]]])
    <2>1. PICK w : w = [r EXCEPT !.pc = "write", !.entity = NewNote, !.base = b, !.update = u]
      OBVIOUS
    <2>2. Become(p, w)
      BY <1>3, <1>4, <1>5, <1>13, <2>1
    <2>3. cs \subseteq Columns /\ DOMAIN r.base \subseteq Columns
      BY <1>3, <1>7 DEF IsPart
    <2>4. /\ DOMAIN b = cs /\ DOMAIN u = differ /\ b = [c \in DOMAIN b |-> b[c]] /\ u = [c \in DOMAIN u |-> u[c]]
          /\ \A c \in cs : b[c] = IF c \in DOMAIN r.base THEN r.base[c] ELSE r.entity[c]
          /\ \A c \in differ : u[c] = r.entity[c]
      BY <1>4, <1>5
    <2>5. IsPart(b) /\ IsPart(u)
      <3>1. /\ \A c \in cs : b[c] \in Value[c]
            /\ \A c \in differ : u[c] \in Value[c]
        BY <1>7, <2>3, <2>4 DEF IsPart, IsNote
      <3> QED
        BY <2>3, <2>4, <3>1 DEF IsPart
    <2>6. b \in PartRow /\ u \in PartRow /\ NewNote \in NoteRow
      <3>1. Idle.entity = NewNote
        BY DEF Idle
      <3> QED
        BY <2>5, <3>1, PartRows, IdleIsRequest DEF IsRequest, RequestRow
    <2>7. /\ w \in RequestRow /\ w.pc = "write" /\ w.base = b /\ w.update = u
          /\ w.invite = r.invite /\ w.friend = r.friend /\ w.plain = r.plain
      BY <1>7, <2>1, <2>6 DEF RequestRow
    <2>8. IsRequest(w)
      BY <1>3, <2>4, <2>7 DEF IsRequest
    <2>9. Compared(r, w)
      BY <1>2, <1>3, <1>6, <2>4, <2>7 DEF Compared
    <2>10. ASSUME LinksHold
           PROVE  LinksOf(w)' /\ \A q \in Proc : q # p => Drawn(w) \cap Drawn(req[q]) = {}
      <3>1. LinksFine /\ LinksOf(r)
        BY <1>1, <2>10 DEF NotesInv, LinksFine
      <3>2. LinksOf(w) /\ Drawn(w) \subseteq Drawn(r)
        BY <2>9, <3>1, ComparedLinks
      <3>3. LinksOf(w)'
        BY <1>8, <3>2, LinksStand
      <3>4. \A q \in Proc : q # p => Drawn(r) \cap Drawn(req[q]) = {}
        BY <1>1, <3>1 DEF LinksFine
      <3> QED
        BY <3>2, <3>3, <3>4
    <2>11. ASSUME SharingHolds
           PROVE  SharingOf(w)'
      <3>1. SharingOf(w)
        BY <1>1, <2>9, <2>11, ComparedSharing DEF NotesInv, SharingFine
      <3>2. /\ w.invite # None => invites'[w.invite].to = invites[w.invite].to
            /\ w.pc = "mark" => w.invite # None
        BY <1>8, <2>7
      <3> QED
        BY <1>8, <3>1, <3>2, SharingStands
    <2>12. RevisionsHold => RevisionsOf(w)
      BY <1>1, <1>7, <2>9, ComparedRevisions DEF NotesInv, RevisionsFine
    <2>13. w.invite # None => w.invite <= lastInvite
      BY <1>1, <1>7, <2>7
    <2> QED
      BY <1>6, <1>8, <1>9, <1>10, <2>2, <2>8, <2>10, <2>11, <2>12, <2>13, QuietStep
  <1> QED
    BY <1>6, <1>11, <1>12, <1>13

\* A save writes, over the row, the columns that differed, and is over.
Written(p, r, s) ==
  /\ r = req[p] /\ r.pc = "write" /\ DOMAIN r.update \subseteq DOMAIN r.base
  /\ \A c \in Columns : note'[c] = IF c \in DOMAIN r.update THEN r.update[c] ELSE note[c]
  /\ Become(p, s) /\ s.pc \in {"idle", "mark", "clean"}
  /\ s.invite \in {None, r.invite} /\ (s.pc = "mark" => s.invite # None)

LEMMA WrittenLinks ==
  ASSUME NotesInv, LinksFine, NEW p \in Proc, NEW r, NEW s, Written(p, r, s), lastLink' = lastLink,
         "link" \in DOMAIN r.base => r.base.link = note.link,
         "mode" \in DOMAIN r.base => r.base.mode = note.mode,
         closed' = IF note'.mode = "none" /\ note.mode # "none"
                   THEN (closed \cup {note.link}) \ {None} ELSE closed
  PROVE  LinksFine'
  <1>1. /\ req'[p] = s /\ \A q \in Proc : q # p => req'[q] = req[q]
    BY OtherRequests DEF NotesInv, Written
  <1>2. "mode" \in Columns /\ "link" \in Columns
    BY DEF Columns
  <1>3. /\ note'.mode = IF "mode" \in DOMAIN r.update THEN r.update.mode ELSE note.mode
        /\ note'.link = IF "link" \in DOMAIN r.update THEN r.update.link ELSE note.link
        /\ r.pc = "write" /\ r = req[p]
        /\ "link" \in DOMAIN r.update => "link" \in DOMAIN r.base
        /\ "mode" \in DOMAIN r.update => "mode" \in DOMAIN r.base
    BY <1>2 DEF Written
  <1>4. LinksOf(r)
    BY <1>3 DEF LinksFine
  <1>5. note.mode # "none" => note.link # None
    BY DEF LinksFine
  <1>6. note.link \notin closed /\ None \notin closed
    BY DEF LinksFine
  \* The ways a save may change the mode and the link.
  <1>7. \/ note'.mode = note.mode /\ note'.link = note.link
        \/ note'.mode # "none" /\ note'.link # None /\ note'.link = note.link
        \/ note'.mode = "none" /\ note'.link = None
        \/ note.mode = "none" /\ note.link = None /\ note'.link \in Drawn(r)
    <2>1. "link" \in DOMAIN r.update /\ r.update.link # r.base.link =>
            /\ "mode" \in DOMAIN r.base
            /\ r.update.link # None => r.base.link = None
            /\ r.update.link = None =>
                 IF "mode" \in DOMAIN r.update THEN r.update.mode = "none"
                 ELSE r.base.mode = "none" \/ r.base.link \in closed
      BY <1>3, <1>4 DEF LinksOf
    <2>2. "mode" \in DOMAIN r.update /\ r.update.mode # r.base.mode =>
            /\ "link" \in DOMAIN r.base
            /\ r.update.mode = "none" => "link" \in DOMAIN r.update /\ r.update.link = None
            /\ r.update.mode # "none" =>
                 IF "link" \in DOMAIN r.update THEN r.update.link # None ELSE r.base.link # None
      BY <1>3, <1>4 DEF LinksOf
    <2>3. CASE note'.link # note.link
      <3>1. "link" \in DOMAIN r.update /\ r.update.link # r.base.link /\ r.base.link = note.link
        BY <1>3, <2>3
      <3>2. CASE note'.link = None
        BY <1>3, <1>6, <2>1, <3>1, <3>2
      <3>3. CASE note'.link # None
        <4>1. note'.link \in Drawn(r)
          BY <1>3, <3>1, <3>3 DEF Drawn
        <4> QED
          BY <1>3, <1>5, <2>1, <3>1, <3>3, <4>1
      <3> QED
        BY <3>2, <3>3
    <2>4. CASE note'.link = note.link
      <3>1. CASE note'.mode # note.mode
        BY <1>3, <1>5, <2>2, <2>4, <3>1
      <3>2. CASE note'.mode = note.mode
        BY <2>4, <3>2
      <3> QED
        BY <3>1, <3>2
    <2> QED
      BY <2>3, <2>4
  <1>8. /\ closed \subseteq closed' /\ closed' \subseteq closed \cup {note.link} /\ None \notin closed'
        /\ note.mode # "none" => note.link \in closed' \/ (note'.mode # "none" /\ note'.link = note.link)
    BY <1>5, <1>6, <1>7
  <1>9. note'.link \in {None, note.link} \/ note'.link \in Drawn(r)
    BY <1>7
  <1>10. /\ lastLink \in Nat /\ None \in Nat /\ note.link \in Nat
         /\ Drawn(r) \subseteq 1 .. lastLink /\ note.link \notin Drawn(r) /\ Drawn(r) \cap closed = {}
    <2>1. note.link \in Link \cup {None}
      BY NoteFacts
    <2> QED
      BY <1>4, <2>1, NotesConstants DEF LinksOf, NotesInv, NotesTypes, Link, None
  <1>11. /\ note'.link \notin closed' /\ None \notin closed'
         /\ note'.link <= lastLink' /\ \A l \in closed' : l <= lastLink'
         /\ note'.mode # "none" => note'.link # None
    <2>1. note'.link \notin closed'
      BY <1>6, <1>7, <1>8, <1>10
    <2>2. note'.link <= lastLink'
      BY <1>9, <1>10 DEF LinksFine, None
    <2>3. \A l \in closed' : l <= lastLink'
      BY <1>8 DEF LinksFine
    <2>4. note'.mode # "none" => note'.link # None
      BY <1>5, <1>7, <1>10 DEF None
    <2> QED
      BY <1>8, <2>1, <2>2, <2>3, <2>4
  <1>12. ASSUME NEW q \in Proc
         PROVE  LinksOf(req[q])' /\ (q # p => Drawn(req[q])' = Drawn(req[q])) /\ (q = p => Drawn(req[q])' = {})
    <2>1. PICK t : t = req'[q]
      OBVIOUS
    <2>2. Drawn(req[q])' = Drawn(t)'
      BY <2>1
    <2>3. Drawn(t)' = Drawn(t)
      BY DEF Drawn
    <2>4. CASE q = p
      <3>1. t = s /\ s.pc \notin {"save", "write"}
        BY <1>1, <2>1, <2>4 DEF Written
      <3>2. Drawn(t) = {}
        BY <3>1 DEF Drawn
      <3>3. LinksOf(t)'
        BY <2>3, <3>1, <3>2 DEF LinksOf
      <3> QED
        BY <2>1, <2>2, <2>3, <2>4, <3>2, <3>3
    <2>5. CASE q # p
      <3>1. t = req[q] /\ LinksOf(t)
        BY <1>1, <2>1, <2>5 DEF LinksFine
      <3>2. Drawn(t) \subseteq 1 .. lastLink' /\ note.link \notin Drawn(t) /\ Drawn(t) \cap closed = {}
        BY <3>1 DEF LinksOf
      <3>3. Drawn(t) \cap Drawn(r) = {}
        BY <1>3, <2>5, <3>1 DEF LinksFine
      <3>4. note'.link \notin Drawn(t) /\ Drawn(t) \cap closed' = {}
        <4>1. None \notin Drawn(t)
          BY <1>10, <3>2 DEF None
        <4> QED
          BY <1>8, <1>9, <3>2, <3>3, <4>1
      <3>5. t.pc = "save" /\ {"mode", "link"} \cap DOMAIN t.base # {} =>
              /\ {"mode", "link"} \subseteq DOMAIN t.base
              /\ t.entity.mode = "none" <=> t.entity.link = None
              /\ t.base.link # None => t.entity.link \in {None, t.base.link}
              /\ t.base.mode # "none" =>
                   /\ t.base.link # None
                   /\ t.base.link \in closed' \/ (note'.mode # "none" /\ note'.link = t.base.link)
        <4>1. t.pc = "save" /\ {"mode", "link"} \cap DOMAIN t.base # {} =>
              /\ {"mode", "link"} \subseteq DOMAIN t.base
              /\ t.entity.mode = "none" <=> t.entity.link = None
              /\ t.base.link # None => t.entity.link \in {None, t.base.link}
              /\ t.base.mode # "none" =>
                   /\ t.base.link # None
                   /\ t.base.link \in closed \/ (note.mode # "none" /\ note.link = t.base.link)
          BY <3>1 DEF LinksOf
        <4> QED
          BY <1>8, <4>1
      <3>6. t.pc = "write" /\ "mode" \in DOMAIN t.update /\ t.update.mode # t.base.mode =>
              /\ "link" \in DOMAIN t.base
              /\ t.update.mode = "none" => "link" \in DOMAIN t.update /\ t.update.link = None
              /\ t.update.mode # "none" =>
                   IF "link" \in DOMAIN t.update THEN t.update.link # None ELSE t.base.link # None
        BY <3>1 DEF LinksOf
      <3>7. t.pc = "write" /\ "link" \in DOMAIN t.update /\ t.update.link # t.base.link =>
              /\ "mode" \in DOMAIN t.base
              /\ t.update.link # None => t.base.link = None
              /\ t.update.link = None =>
                   IF "mode" \in DOMAIN t.update THEN t.update.mode = "none"
                   ELSE t.base.mode = "none" \/ t.base.link \in closed'
        <4>1. t.pc = "write" /\ "link" \in DOMAIN t.update /\ t.update.link # t.base.link =>
              /\ "mode" \in DOMAIN t.base
              /\ t.update.link # None => t.base.link = None
              /\ t.update.link = None =>
                   IF "mode" \in DOMAIN t.update THEN t.update.mode = "none"
                   ELSE t.base.mode = "none" \/ t.base.link \in closed
          BY <3>1 DEF LinksOf
        <4> QED
          BY <1>8, <4>1
      <3>8. LinksOf(t)'
        BY <2>3, <3>2, <3>4, <3>5, <3>6, <3>7 DEF LinksOf
      <3> QED
        BY <2>1, <2>2, <2>3, <2>5, <3>1, <3>8
    <2> QED
      BY <2>4, <2>5
  <1>13. \A q, o \in Proc : q # o => Drawn(req[q])' \cap Drawn(req[o])' = {}
    BY <1>12 DEF LinksFine
  <1> QED
    BY <1>11, <1>12, <1>13 DEF LinksFine

LEMMA WrittenSharing ==
  ASSUME NotesInv, SharingFine, NEW p \in Proc, NEW r, NEW s, Written(p, r, s), invites' = invites,
         "sharedWith" \in DOMAIN r.base => r.base.sharedWith = note.sharedWith,
         removed' = (removed \cup {r.friend}) \ {NoFriend}
  PROVE  SharingFine'
  <1>1. /\ req'[p] = s /\ \A q \in Proc : q # p => req'[q] = req[q]
    BY OtherRequests DEF NotesInv, Written
  <1>2. "sharedWith" \in Columns
    BY DEF Columns
  <1>3. /\ note'.sharedWith = IF "sharedWith" \in DOMAIN r.update THEN r.update.sharedWith ELSE note.sharedWith
        /\ r.pc = "write" /\ r = req[p]
        /\ "sharedWith" \in DOMAIN r.update => "sharedWith" \in DOMAIN r.base
    BY <1>2 DEF Written
  <1>4. SharingOf(r)
    BY <1>3 DEF SharingFine
  <1>5. note.sharedWith \subseteq Friend /\ removed \subseteq Friend /\ NoFriend \notin Friend
    BY NoteFacts, NotesConstants DEF NotesInv, NotesTypes
  <1>6. note.sharedWith \subseteq note'.sharedWith \cup {r.friend}
    BY <1>3, <1>4 DEF SharingOf
  <1>7. \A f : Has(f) => Has(f)'
    BY <1>5, <1>6 DEF Has
  <1>8. r.invite # None => Has(To(r))'
    <2>1. CASE "sharedWith" \in DOMAIN r.update
      BY <1>3, <1>4, <2>1 DEF SharingOf, Has, To
    <2>2. CASE "sharedWith" \notin DOMAIN r.update
      <3>1. r.invite # None => Has(To(r))
        BY <1>3, <1>4, <2>2 DEF SharingOf
      <3> QED
        BY <1>7, <3>1 DEF To, Has
    <2> QED
      BY <2>1, <2>2
  <1>9. ASSUME NEW q \in Proc
        PROVE  SharingOf(req[q])'
    <2>1. PICK t : t = req'[q]
      OBVIOUS
    <2>2. To(t)' = To(t)
      BY DEF To
    <2>3. CASE q = p
      <3>1. t = s /\ s.pc \notin {"save", "write"} /\ (s.pc = "mark" => s.invite = r.invite /\ r.invite # None)
        BY <1>1, <2>1, <2>3 DEF Written
      <3>2. s.pc = "mark" => Has(To(s))'
        BY <1>8, <3>1 DEF To, Has
      <3>3. SharingOf(t)'
        BY <3>1, <3>2 DEF SharingOf
      <3> QED
        BY <2>1, <3>3
    <2>4. CASE q # p
      <3>1. t = req[q] /\ SharingOf(t)
        BY <1>1, <2>1, <2>4 DEF SharingFine
      <3>2. Has(To(t)) => Has(To(t))'
        BY <1>7, <2>2 DEF Has, To
      <3>3. SharingOf(t)'
        BY <2>2, <3>1, <3>2 DEF SharingOf
      <3> QED
        BY <2>1, <3>3
    <2> QED
      BY <2>3, <2>4
  <1>10. \A i \in Invite : invites'[i].state = "accepted" => Has(invites[i].to)'
    BY <1>7 DEF SharingFine, Has
  <1>11. (\A i \in Invite : invites[i].state = "accepted" => Has(invites[i].to))'
    BY <1>10 DEF Has
  <1> QED
    BY <1>9, <1>11 DEF SharingFine

LEMMA WrittenRevisions ==
  ASSUME NotesInv, RevisionsFine, NEW p \in Proc, NEW r, NEW s, Written(p, r, s),
         "owner" \in DOMAIN r.base => r.base.owner = note.owner,
         "text" \in DOMAIN r.base => r.base.text = note.text,
         "history" \in DOMAIN r.base => r.base.history = note.history,
         owed' = IF note'.owner = "guest" THEN {}
                 ELSE (IF r.plain THEN owed \ {note.text} ELSE owed) \cup {note'.text}
  PROVE  RevisionsFine'
  <1>1. /\ req'[p] = s /\ \A q \in Proc : q # p => req'[q] = req[q]
    BY OtherRequests DEF NotesInv, Written
  <1>2. "owner" \in Columns /\ "text" \in Columns /\ "history" \in Columns
    BY DEF Columns
  <1>3. /\ note'.owner = IF "owner" \in DOMAIN r.update THEN r.update.owner ELSE note.owner
        /\ note'.text = IF "text" \in DOMAIN r.update THEN r.update.text ELSE note.text
        /\ note'.history = IF "history" \in DOMAIN r.update THEN r.update.history ELSE note.history
        /\ r.pc = "write" /\ r = req[p]
        /\ "owner" \in DOMAIN r.update => "owner" \in DOMAIN r.base
        /\ "text" \in DOMAIN r.update => "text" \in DOMAIN r.base
        /\ "history" \in DOMAIN r.update => "history" \in DOMAIN r.base
    BY <1>2 DEF Written
  <1>4. RevisionsOf(r)
    BY <1>3 DEF RevisionsFine
  <1>5. /\ note.owner \in {"guest", "user"} /\ note.text \in Text /\ note.history \in Seq(Text)
        /\ Len(note.history) <= MaxHistory /\ Len(note.history) \in Nat /\ MaxHistory \in Nat
    BY NoteFacts, NotesConstants
  <1>6. note'.owner \in {note.owner, "user"}
    BY <1>3, <1>4 DEF RevisionsOf
  \* The revisions stay, and there is one more or none.
  <1>7. \/ note'.history = note.history
        \/ note.owner = "user" /\ \E t \in Text : note'.history = FirstOf(<<t>> \o note.history)
    BY <1>3, <1>4 DEF RevisionsOf
  <1>8. /\ Len(note'.history) = MaxHistory \/ Len(note'.history) >= Len(note.history)
        /\ Len(note'.history) \in Nat /\ Len(note'.history) <= MaxHistory
        /\ \A t \in Text :
             Len(note.history) = MaxHistory \/ (\E i \in DOMAIN note.history : note.history[i] = t) =>
             Len(note'.history) = MaxHistory \/ (\E i \in DOMAIN note'.history : note'.history[i] = t)
    <2>1. CASE note'.history = note.history
      BY <1>5, <2>1
    <2>2. ASSUME NEW t \in Text, note'.history = FirstOf(<<t>> \o note.history)
          PROVE  /\ Len(note'.history) = MaxHistory \/ Len(note'.history) >= Len(note.history)
                 /\ Len(note'.history) \in Nat /\ Len(note'.history) <= MaxHistory
                 /\ \A x \in Text :
                      Len(note.history) = MaxHistory \/ (\E i \in DOMAIN note.history : note.history[i] = x) =>
                      Len(note'.history) = MaxHistory \/ (\E i \in DOMAIN note'.history : note'.history[i] = x)
      <3>1. PICK h : h = note'.history
        OBVIOUS
      <3>2. h \in Seq(Text) /\ Len(h) <= MaxHistory
            /\ (Len(h) = MaxHistory
                \/ (Len(h) = Len(note.history) + 1 /\ \A i \in DOMAIN note.history : h[i + 1] = note.history[i]))
        BY <1>5, <2>2, <3>1, FirstOfFacts
      <3>3. Len(h) \in Nat /\ DOMAIN h = 1 .. Len(h) /\ DOMAIN note.history = 1 .. Len(note.history)
        BY <1>5, <3>2
      <3>4. \A i \in DOMAIN note.history : Len(h) = Len(note.history) + 1 => i + 1 \in DOMAIN h
        BY <1>5, <3>3
      <3> QED
        BY <1>5, <3>1, <3>2, <3>3, <3>4
    <2> QED
      BY <1>7, <2>1, <2>2
  \* A text that an edit replaced is a revision now.
  <1>9. ASSUME note.owner = "user", note'.text # note.text, ~r.plain, note.text # 0
        PROVE  \/ Len(note'.history) = MaxHistory
               \/ \E i \in DOMAIN note'.history : note'.history[i] = note.text
    <2>1. /\ "text" \in DOMAIN r.update /\ r.update.text # r.base.text /\ r.base.text = note.text
          /\ note'.text = r.update.text
      BY <1>3, <1>9
    <2>2. /\ "history" \in DOMAIN r.base /\ r.base.history = note.history
          /\ IF "history" \in DOMAIN r.update
             THEN \/ /\ r.update.history = r.base.history
                     /\ Keeps(r.base.text, r.base.history, r.update.text)
                  \/ r.update.history = FirstOf(<<r.base.text>> \o r.base.history)
             ELSE \/ Keeps(r.base.text, r.base.history, r.update.text)
                  \/ Longer(note.history, r.base.history)
      BY <1>3, <1>4, <1>9, <2>1 DEF RevisionsOf
    <2>3. \/ note'.history = note.history /\ Keeps(note.text, note.history, note'.text)
          \/ note'.history = FirstOf(<<note.text>> \o note.history)
          \/ note'.history = note.history /\ Longer(note.history, note.history)
      BY <1>3, <2>1, <2>2
    <2>4. CASE note'.history = note.history /\ Keeps(note.text, note.history, note'.text)
      <3>1. note.history # <<>> /\ Head(note.history) = note.text
        BY <1>9, <2>4 DEF Keeps
      <3>2. 1 \in DOMAIN note.history /\ note.history[1] = note.text
        BY <1>5, <3>1
      <3> QED
        BY <2>4, <3>2
    <2>5. CASE note'.history = FirstOf(<<note.text>> \o note.history)
      <3>1. PICK h : h = note'.history
        OBVIOUS
      <3>2. h \in Seq(Text) /\ (Len(h) = MaxHistory \/ (Len(h) = Len(note.history) + 1 /\ h[1] = note.text))
        BY <1>5, <2>5, <3>1, FirstOfFacts
      <3>3. Len(h) = Len(note.history) + 1 => 1 \in DOMAIN h
        BY <1>5, <3>2
      <3> QED
        BY <3>1, <3>2, <3>3
    <2>6. CASE note'.history = note.history /\ Longer(note.history, note.history)
      BY <1>5, <2>6 DEF Longer
    <2> QED
      BY <2>3, <2>4, <2>5, <2>6
  <1>10. /\ note'.owner = "guest" => owed' = {} /\ note'.history = <<>>
         /\ note'.owner = "user" => \A t \in owed' \ {0} :
              \/ t = note'.text \/ Len(note'.history) = MaxHistory
              \/ \E i \in DOMAIN note'.history : note'.history[i] = t
    <2>1. ASSUME note'.owner = "guest"
          PROVE  owed' = {} /\ note'.history = <<>>
      BY <1>6, <1>7, <2>1 DEF RevisionsFine
    <2>2. ASSUME note'.owner = "user", NEW t \in owed' \ {0}, t # note'.text
          PROVE  \/ Len(note'.history) = MaxHistory
                 \/ \E i \in DOMAIN note'.history : note'.history[i] = t
      <3>1. t \in owed /\ (r.plain => t # note.text) /\ note.owner = "user" /\ t \in Text
        BY <1>5, <2>2 DEF RevisionsFine, NotesInv, NotesTypes
      <3>2. \/ t = note.text \/ Len(note.history) = MaxHistory
            \/ \E i \in DOMAIN note.history : note.history[i] = t
        BY <2>2, <3>1 DEF RevisionsFine
      <3>3. CASE t = note.text
        BY <1>9, <2>2, <3>1, <3>3
      <3> QED
        BY <1>8, <3>1, <3>2, <3>3
    <2> QED
      BY <2>1, <2>2
  <1>11. ASSUME NEW q \in Proc
         PROVE  RevisionsOf(req[q])'
    <2>1. PICK t : t = req'[q]
      OBVIOUS
    <2>2. CASE q = p
      <3>1. t = s /\ s.pc \notin {"save", "write"}
        BY <1>1, <2>1, <2>2 DEF Written
      <3>2. RevisionsOf(t)'
        BY <3>1 DEF RevisionsOf
      <3> QED
        BY <2>1, <3>2
    <2>3. CASE q # p
      <3>1. t = req[q] /\ RevisionsOf(t)
        BY <1>1, <2>1, <2>3 DEF RevisionsFine
      <3>2. note.owner = "user" => note'.owner = "user"
        BY <1>6
      <3>3. \A h : Len(h) \in Nat /\ Longer(note.history, h) => Longer(note'.history, h)
        BY <1>5, <1>8 DEF Longer
      <3>5. "history" \in DOMAIN t.base => Len(t.base.history) \in Nat
        <4>1. IsPart(t.base)
          BY <3>1, PartRows DEF NotesInv, NotesTypes, IsRequest, RequestRow
        <4>2. "history" \in DOMAIN t.base => t.base.history \in Seq(Text)
          BY <4>1, Values DEF IsPart
        <4> QED
          BY <4>2
      <3>4. RevisionsOf(t)'
        BY <3>1, <3>2, <3>3, <3>5 DEF RevisionsOf
      <3> QED
        BY <2>1, <3>4
    <2> QED
      BY <2>2, <2>3
  <1> QED
    BY <1>10, <1>11 DEF RevisionsFine

\* What a request is when the row is saved, whether or not it learns of that.
Saved(p, s) ==
  /\ Become(p, s) /\ IsRequest(s) /\ s.pc \in {"idle", "mark", "clean"}
  /\ s.invite \in {None, req[p].invite} /\ (s.pc = "mark" => s.invite # None)
  /\ s.invite # None => s.invite <= lastInvite

LEMMA UpdateKeepsInv ==
  ASSUME NotesInv, NEW p \in Proc, NEW gone \in SUBSET Key, Update(p, gone), NEW s, Saved(p, s),
         files' \subseteq files, UNCHANGED <<scene, invites, drawn>>
  PROVE  NotesInv'
  <1>1. PICK r : r = req[p]
    OBVIOUS
  <1>2. /\ Become(p, s) /\ IsRequest(s) /\ s.pc \in {"idle", "mark", "clean"}
        /\ s.invite \in {None, r.invite} /\ (s.pc = "mark" => s.invite # None)
        /\ s.invite # None => s.invite <= lastInvite
    BY <1>1 DEF Saved
  <1>3. /\ r.pc = "write" /\ UNCHANGED <<scene, exists, invites, drawn>>
        /\ lastKey' = lastKey /\ lastLink' = lastLink /\ lastInvite' = lastInvite
    BY <1>1 DEF Update, At, drawn
  <1>4. /\ IsRequest(r) /\ DOMAIN r.update \subseteq DOMAIN r.base /\ IsPart(r.update) /\ IsPart(r.base)
        /\ r.friend \in Friend \cup {NoFriend}
    BY <1>1, <1>3, PartRows DEF NotesInv, NotesTypes, IsRequest, RequestRow
  <1>5. IsNote(note) /\ lastInvite' \in lastInvite .. MaxInvite
    BY <1>3, NotesConstants DEF NotesInv, NotesTypes
  <1>6. ASSUME IsNote(note'), lost' \subseteq Columns \cup {"row"}, astray' \subseteq Key,
               owed' \subseteq Text, closed' \subseteq Link, removed' \subseteq Friend
        PROVE  NotesTypes'
    <2>1. /\ scene' = scene /\ exists' \in BOOLEAN /\ files' \subseteq Key /\ invites' \in [Invite -> InviteRow]
          /\ lastKey' \in 0 .. MaxKey /\ lastLink' \in 0 .. MaxLink
          /\ \A i \in Invite : /\ invites'[i].state # "none" => i <= lastInvite'
                               /\ i <= lastInvite' => invites'[i].to # NoFriend
      BY <1>3 DEF NotesInv, NotesTypes
    <2> QED
      BY <1>2, <1>5, <1>6, <2>1, TypesStand DEF NotesInv
  <1>7. CASE ~exists
    <2>1. UNCHANGED <<note, history>> /\ ~exists'
      BY <1>3, <1>7 DEF Update
    <2>2. NotesTypes'
      BY <1>5, <1>6, <2>1 DEF history, NotesInv, NotesTypes
    <2> QED
      BY <2>1, <2>2 DEF NotesInv, LinksHold, SharingHolds, RevisionsHold
  <1>8. CASE exists
    <2>1. PICK n : n = [c \in Columns |-> IF c \in DOMAIN r.update THEN r.update[c] ELSE note[c]]
      OBVIOUS
    <2>2. /\ note' = n /\ lost' = lost \cup {c \in DOMAIN r.base : note[c] # r.base[c]}
          /\ Strays(p, n, gone) /\ Chronicle(p, n)
      BY <1>1, <1>8, <2>1 DEF Update
    <2>3. /\ owed' = IF note'.owner = "guest" THEN {}
                     ELSE (IF r.plain THEN owed \ {note.text} ELSE owed) \cup {note'.text}
          /\ closed' = IF note'.mode = "none" /\ note.mode # "none"
                       THEN (closed \cup {note.link}) \ {None} ELSE closed
          /\ removed' = (removed \cup {r.friend}) \ {NoFriend}
      BY <1>1, <2>2 DEF Chronicle
    <2>4. IsNote(n)
      <3>1. \A c \in Columns : n[c] \in Value[c]
        BY <1>4, <1>5, <2>1 DEF IsNote, IsPart
      <3>2. DOMAIN n = Columns /\ n = [c \in DOMAIN n |-> n[c]]
        BY <2>1
      <3> QED
        BY <3>1, <3>2 DEF IsNote, IsPart
    <2>5. n.text \in Text /\ note.link \in Link \cup {None} /\ n.images \subseteq Key
      BY <2>4, NoteFacts, Values DEF IsNote, IsPart, Columns
    <2>6. /\ lost' \subseteq Columns \cup {"row"} /\ astray' \subseteq Key /\ owed' \subseteq Text
          /\ closed' \subseteq Link /\ removed' \subseteq Friend
      BY <1>4, <2>2, <2>3, <2>5 DEF IsPart, Strays, NotesInv, NotesTypes
    <2>7. NotesTypes'
      BY <1>6, <2>2, <2>4, <2>6
    <2>8. Written(p, r, s)
      BY <1>1, <1>2, <1>3, <1>4, <2>1, <2>2 DEF Written
    <2>9. \A c \in DOMAIN r.base : c \notin lost' => r.base[c] = note[c]
      BY <2>2
    <2>10. lost \subseteq lost'
      BY <2>2
    <2>11. ASSUME LinksHold'
           PROVE  LinksFine'
      <3>1. LinksFine /\ "mode" \notin lost' /\ "link" \notin lost'
        BY <1>8, <2>10, <2>11 DEF LinksHold, Unharmed, NotesInv
      <3>2. /\ "link" \in DOMAIN r.base => r.base.link = note.link
            /\ "mode" \in DOMAIN r.base => r.base.mode = note.mode
        BY <2>9, <3>1
      <3> QED
        BY <1>3, <2>3, <2>8, <3>1, <3>2, WrittenLinks
    <2>12. ASSUME SharingHolds'
           PROVE  SharingFine'
      <3>1. SharingFine /\ "sharedWith" \notin lost'
        BY <1>8, <2>10, <2>12 DEF SharingHolds, Unharmed, NotesInv
      <3>2. "sharedWith" \in DOMAIN r.base => r.base.sharedWith = note.sharedWith
        BY <2>9, <3>1
      <3> QED
        BY <1>3, <2>3, <2>8, <3>1, <3>2, WrittenSharing
    <2>13. ASSUME RevisionsHold'
           PROVE  RevisionsFine'
      <3>1. RevisionsFine /\ "owner" \notin lost' /\ "text" \notin lost' /\ "history" \notin lost'
        BY <1>8, <2>10, <2>13 DEF RevisionsHold, Unharmed, NotesInv
      <3>2. /\ "owner" \in DOMAIN r.base => r.base.owner = note.owner
            /\ "text" \in DOMAIN r.base => r.base.text = note.text
            /\ "history" \in DOMAIN r.base => r.base.history = note.history
        BY <2>9, <3>1
      <3> QED
        BY <2>3, <2>8, <3>1, <3>2, WrittenRevisions
    <2> QED
      BY <2>7, <2>11, <2>12, <2>13 DEF NotesInv
  <1> QED
    BY <1>7, <1>8

LEMMA InsertKeepsInv ==
  ASSUME NotesInv, NEW p \in Proc, NEW gone \in SUBSET Key, Insert(p, gone), NEW s, Saved(p, s),
         files' \subseteq files, UNCHANGED <<scene, invites, drawn>>
  PROVE  NotesInv'
  <1>1. PICK r : r = req[p]
    OBVIOUS
  <1>2. Become(p, s) /\ IsRequest(s) /\ (s.invite # None => s.invite <= lastInvite)
    BY DEF Saved
  <1>3. /\ exists' = TRUE /\ note' = r.entity /\ lost' = lost \cup {"row"} /\ Chronicle(p, r.entity)
        /\ Strays(p, r.entity, gone) /\ UNCHANGED <<scene, invites, drawn>>
    BY <1>1 DEF Insert
  <1>4. IsNote(r.entity) /\ r.friend \in Friend \cup {NoFriend}
    BY <1>1, NoteRows DEF NotesInv, NotesTypes, IsRequest, RequestRow
  <1>5. r.entity.text \in Text /\ note.link \in Link \cup {None} /\ r.entity.images \subseteq Key
    BY <1>4, NoteFacts, Values DEF IsNote, IsPart, Columns
  <1>6. astray' \subseteq Key /\ owed' \subseteq Text /\ closed' \subseteq Link /\ removed' \subseteq Friend
    BY <1>1, <1>3, <1>4, <1>5 DEF Strays, Chronicle, NotesInv, NotesTypes
  <1>7. /\ scene' = scene /\ exists' \in BOOLEAN /\ files' \subseteq Key /\ invites' \in [Invite -> InviteRow]
        /\ lastKey' \in 0 .. MaxKey /\ lastLink' \in 0 .. MaxLink /\ lastInvite' \in lastInvite .. MaxInvite
        /\ lost' \subseteq Columns \cup {"row"}
        /\ \A i \in Invite : /\ invites'[i].state # "none" => i <= lastInvite'
                             /\ i <= lastInvite' => invites'[i].to # NoFriend
    <2>1. lastKey' = lastKey /\ lastLink' = lastLink /\ lastInvite' = lastInvite
      BY <1>3 DEF drawn
    <2> QED
      BY <1>3, <2>1, NotesConstants DEF NotesInv, NotesTypes
  <1>8. NotesTypes'
    BY <1>2, <1>3, <1>4, <1>6, <1>7, TypesStand DEF NotesInv
  <1>9. "row" \in lost'
    BY <1>3
  <1> QED
    BY <1>8, <1>9 DEF NotesInv, LinksHold, SharingHolds, RevisionsHold, Unharmed

LEMMA SaveKeepsInv ==
  ASSUME NotesInv, NEW p \in Proc, Write(p) \/ Reinsert(p)
  PROVE  NotesInv'
  <1>1. PICK s : Saved(p, s)
    BY SavedRequest DEF Saved, Write, Reinsert
  <1>2. Update(p, {}) \/ Insert(p, {})
    BY DEF Write, Reinsert
  <1>3. files' \subseteq files /\ UNCHANGED <<scene, invites, drawn>> /\ {} \in SUBSET Key
    BY DEF Write, Reinsert
  <1> QED
    BY <1>1, <1>2, <1>3, UpdateKeepsInv, InsertKeepsInv

LEMMA AnswerLostKeepsInv ==
  ASSUME NotesInv, NEW p \in Proc, AnswerLost(p)
  PROVE  NotesInv'
  <1>1. PICK gone \in {{}, {req[p].key} \ {None}} :
          (Update(p, gone) \/ Insert(p, gone)) /\ files' = files \ gone
    BY DEF AnswerLost
  <1>2. Saved(p, Idle)
    BY NoteFacts DEF AnswerLost, Finish, Saved, Idle
  <1>3. gone \in SUBSET Key
    BY DEF NotesInv, NotesTypes, IsRequest, RequestRow
  <1>4. files' \subseteq files /\ UNCHANGED <<scene, invites, drawn>>
    BY <1>1 DEF AnswerLost
  <1> QED
    BY <1>1, <1>2, <1>3, <1>4, UpdateKeepsInv, InsertKeepsInv

LEMMA NotesNextKeepsInv ==
  ASSUME NotesInv, NotesNext
  PROVE  NotesInv'
  <1>1. ASSUME NEW p \in Proc, TextStep(p)
        PROVE  NotesInv'
    BY <1>1, UpdateNoteKeepsInv, UpdateByShareTokenKeepsInv, SaveOtherKeepsInv, ClaimKeepsInv,
       BeginDeleteKeepsInv, DeleteNoteKeepsInv DEF TextStep
  <1>2. ASSUME NEW p \in Proc, ShareStep(p)
        PROVE  NotesInv'
    BY <1>2, UpdateShareSettingsKeepsInv, RemoveSharedUserKeepsInv, SendShareInviteKeepsInv,
       CheckPendingKeepsInv, InsertInviteKeepsInv, AcceptInviteKeepsInv, ReadForAcceptKeepsInv,
       MarkAcceptedKeepsInv DEF ShareStep
  <1>3. ASSUME NEW p \in Proc, ImageStep(p)
        PROVE  NotesInv'
    BY <1>3, UploadImageKeepsInv, PutImageKeepsInv, DeleteImageKeepsInv, CleanImageKeepsInv DEF ImageStep
  <1>4. ASSUME NEW p \in Proc, SaveStep(p)
        PROVE  NotesInv'
    BY <1>4, ReloadKeepsInv, SaveKeepsInv, FailKeepsInv, AnswerLostKeepsInv DEF SaveStep
  <1> QED
    BY <1>1, <1>2, <1>3, <1>4, ExpireInviteKeepsInv, CleanupKeepsInv DEF NotesNext

LEMMA NotesStutter ==
  ASSUME NotesInv, UNCHANGED notesVars
  PROVE  NotesInv'
  <1>1. /\ UNCHANGED <<scene, row, files, drawn, req, history>> /\ invites' = invites
    BY DEF notesVars
  <1>2. invites \in [Invite -> InviteRow]
    BY DEF NotesInv, NotesTypes
  <1> QED
    BY <1>1, <1>2, InvitesGo

\* What the parts of the invariant say of the properties.
LEMMA NotesAreRight ==
  ASSUME NotesInv
  PROVE  NotesTypeOK /\ RevisionsAreKept /\ SharingSticks
  <1>1. NotesTypeOK
    <2>1. ASSUME NEW p \in Proc
          PROVE  /\ req[p].pc \in {"idle", "upload", "save", "write", "insert", "clean", "delete",
                                   "check", "invite", "accept", "mark"}
                 /\ DOMAIN req[p].entity = Columns
                 /\ DOMAIN req[p].base \cup DOMAIN req[p].update \subseteq Columns
                 /\ {req[p].key, req[p].old} \subseteq Key \cup {None}
                 /\ req[p].invite \in Invite \cup {None} /\ req[p].friend \in Friend \cup {NoFriend}
      <3>1. req[p] \in RequestRow
        BY DEF NotesInv, NotesTypes, IsRequest
      <3>2. IsNote(req[p].entity) /\ IsPart(req[p].base) /\ IsPart(req[p].update)
        BY <3>1, NoteRows, PartRows DEF RequestRow
      <3>3. /\ DOMAIN req[p].entity = Columns
            /\ DOMAIN req[p].base \subseteq Columns /\ DOMAIN req[p].update \subseteq Columns
        BY <3>2 DEF IsNote, IsPart
      <3> QED
        BY <3>1, <3>3 DEF RequestRow
    <2>2. DOMAIN note = Columns
      BY DEF NotesInv, NotesTypes, IsNote
    <2> QED
      BY <2>1, <2>2, NoteFacts DEF NotesTypeOK, NotesInv, NotesTypes, InviteRow
  <1>2. RevisionsAreKept
    BY DEF RevisionsAreKept, NotesInv, RevisionsHold, RevisionsFine
  <1>3. ClosedLinksStayClosed
    BY DEF ClosedLinksStayClosed, NotesInv, LinksHold, LinksFine
  <1>4. AcceptedIsShared
    BY DEF AcceptedIsShared, NotesInv, SharingHolds, SharingFine, Has
  <1> QED
    BY <1>1, <1>2, <1>3, <1>4 DEF SharingSticks

\* The invariant of the notes is kept by every step, of the notes or not.
THEOREM NotesInvariant == ClientsSpec => []NotesInv
  <1>1. ClientsInit => NotesInv
    BY NotesBegin DEF ClientsInit
  <1>2. ASSUME NotesInv, [ClientsNext]_clientVars
        PROVE  NotesInv'
    <2>1. NotesNext \/ UNCHANGED notesVars
      BY <1>2 DEF ClientsNext, SignInAlone, NotesAlone, TrafficAlone, clientVars
    <2> QED
      BY <1>2, <2>1, NotesNextKeepsInv, NotesStutter
  <1> QED
    BY <1>1, <1>2, PTL DEF ClientsSpec

\* The types of the note, its invites and the requests.
THEOREM NotesTypeCorrect == ClientsSpec => []NotesTypeOK
  <1>1. NotesInv => NotesTypeOK
    BY NotesAreRight
  <1> QED
    BY <1>1, NotesInvariant, PTL

\* A text that updateNote replaced is the current text or a revision, until newer
\* revisions push it out, unless a save has written over an edit it had not seen
\* (notes.service.ts:436-471).
THEOREM RevisionsAreAlwaysKept == ClientsSpec => []RevisionsAreKept
  <1>1. NotesInv => RevisionsAreKept
    BY NotesAreRight
  <1> QED
    BY <1>1, NotesInvariant, PTL

\* A closed link is never the way to the note again, and whoever has accepted an
\* invite has the note until the owner takes it away (notes.service.ts:620-738).
THEOREM SharingAlwaysSticks == ClientsSpec => []SharingSticks
  <1>1. NotesInv => SharingSticks
    BY NotesAreRight
  <1> QED
    BY <1>1, NotesInvariant, PTL

-----------------------------------------------------------------------------
(* Notes: the images.  What one request has stored and not saved yet is    *)
(* named by nothing else, so that only that request deletes it again.      *)

Named(r) == ({r.key, r.old} \ {None}) \cup r.entity.images
              \cup (IF "images" \in DOMAIN r.update THEN r.update.images ELSE {})

\* The row does not name what a request cleans up, unless a save brings it back.
Forgets(r) ==
  r.old # None =>
    /\ r.pc \in {"save", "insert"} => r.old \notin r.entity.images
    /\ r.pc = "write" /\ "images" \in DOMAIN r.update => r.old \notin r.update.images
    /\ exists /\ (r.pc = "clean" \/ (r.pc = "write" /\ "images" \notin DOMAIN r.update)) =>
         r.old \notin note.images \ astray

ImagesFine ==
  /\ exists => note.images \ astray \subseteq files
  /\ note.images \subseteq 1 .. lastKey
  /\ \A p \in Proc :
       /\ req[p].key # None => req[p].key \in files \ note.images
       /\ Named(req[p]) \subseteq 1 .. lastKey /\ Forgets(req[p])
  /\ \A p, q \in Proc : p # q /\ req[q].key # None => req[q].key \notin Named(req[p])

LEMMA IdleNames == Named(Idle) = {} /\ Idle.key = None /\ Idle.old = None
  <1>1. DOMAIN Nothing = {} /\ NewNote.images = {}
    BY DEF Nothing, NewNote
  <1>2. Idle.key = None /\ Idle.old = None /\ Idle.entity = NewNote /\ Idle.update = Nothing
    BY DEF Idle
  <1> QED
    BY <1>1, <1>2 DEF Named

LEMMA ImagesBegin ==
  ASSUME NotesInit
  PROVE  ImagesFine
  <1>1. \A p \in Proc : req[p] = Idle
    BY DEF NotesInit
  <1>2. PICK o \in {"guest", "user"}, m \in {"none", "edit"} :
          note = [NewNote EXCEPT !.owner = o, !.text = 1, !.mode = m,
                                 !.link = IF m = "none" THEN None ELSE 1]
    BY DEF NotesInit
  <1>3. note.images = {}
    BY <1>2 DEF NewNote
  <1> QED
    BY <1>1, <1>3, IdleNames DEF ImagesFine, Forgets

\* What a request may do to the images, whatever else it does.
LEMMA ImagesStay ==
  ASSUME NotesTypes, ImagesFine, NEW p \in Proc, NEW r, Become(p, r),
         lastKey' \in Nat, lastKey <= lastKey', astray \subseteq astray',
         note'.images \subseteq note.images \cup Named(req[p]),
         note'.images \ note.images \subseteq astray' \cup {req[p].key},
         exists' => note'.images \ astray' \subseteq files',
         exists' => exists \/ note'.images \subseteq astray' \cup {req[p].key},
         files \ files' \subseteq note.images \cup Named(req[p]),
         Named(r) \subseteq note.images \cup Named(req[p]) \cup (lastKey + 1 .. lastKey'),
         r.key \in {None, req[p].key} \cup (lastKey + 1 .. lastKey'),
         r.key # None => r.key \in files' \ note'.images,
         Forgets(r)'
  PROVE  ImagesFine'
  <1>1. /\ req'[p] = r /\ \A q \in Proc : q # p => req'[q] = req[q]
        /\ lastKey \in Nat /\ None = 0
    BY OtherRequests, NotesConstants DEF NotesTypes, None
  <1>2. \A q \in Proc : Named(req[q])' = Named(req'[q])
    BY DEF Named
  <1>3. /\ note.images \subseteq 1 .. lastKey /\ \A q \in Proc : Named(req[q]) \subseteq 1 .. lastKey
        /\ \A q \in Proc : req[q].key # None =>
             req[q].key \in files \ note.images /\ req[q].key \in Named(req[q])
        /\ \A q, o \in Proc : o # q /\ req[q].key # None => req[q].key \notin Named(req[o])
    BY DEF ImagesFine, Named
  <1>4. note'.images \subseteq 1 .. lastKey' /\ Named(r) \subseteq 1 .. lastKey'
    BY <1>1, <1>3
  <1>5. ASSUME NEW q \in Proc, q # p
        PROVE  /\ req[q].key # None => req[q].key \in files' \ note'.images
               /\ req[q].key # None => req[q].key \notin Named(r)
               /\ r.key # None => r.key \notin Named(req[q])
               /\ Named(req[q]) \subseteq 1 .. lastKey'
               /\ Forgets(req[q])'
    <2>1. req[q].key # None => req[q].key \in files' \ note'.images
      BY <1>3, <1>5
    <2>2. req[q].key # None => req[q].key \notin Named(r)
      BY <1>1, <1>3, <1>5
    <2>3. r.key # None => r.key \notin Named(req[q])
      BY <1>1, <1>3, <1>5
    <2>4. Named(req[q]) \subseteq 1 .. lastKey'
      BY <1>1, <1>3
    <2>5. Forgets(req[q])'
      <3>1. PICK t : t = req[q]
        OBVIOUS
      <3>2. Forgets(t)
        BY <3>1 DEF ImagesFine
      <3>3. req'[q] = t
        BY <1>1, <1>5, <3>1
      <3>4. t.old # None => t.old # req[p].key
        <4>1. t.old # None => t.old \in Named(t)
          BY DEF Named
        <4> QED
          BY <1>3, <1>5, <3>1, <4>1
      <3>5. /\ t.old # None /\ exists'
            /\ exists => t.old \notin note.images \ astray
            => t.old \notin note'.images \ astray'
        BY <3>4
      <3>6. Forgets(t)'
        BY <3>2, <3>5 DEF Forgets
      <3> QED
        BY <3>3, <3>6 DEF Forgets
    <2> QED
      BY <2>1, <2>2, <2>3, <2>4, <2>5
  <1>6. \A q \in Proc : Forgets(req[q])'
    BY <1>1, <1>5 DEF Forgets
  <1>7. \A q \in Proc : /\ req'[q].key # None => req'[q].key \in files' \ note'.images
                        /\ Named(req'[q]) \subseteq 1 .. lastKey'
    BY <1>1, <1>4, <1>5
  <1>8. \A q, o \in Proc : o # q /\ req'[q].key # None => req'[q].key \notin Named(req'[o])
    BY <1>1, <1>3, <1>5
  <1> QED
    BY <1>2, <1>4, <1>6, <1>7, <1>8 DEF ImagesFine

\* An edit that names no image that the row does not.
LEMMA ImagesAreRead ==
  ASSUME NotesInv, ImagesFine, NEW p \in Proc, NEW r, Become(p, r),
         r.key = None, r.update \in {Nothing, req[p].update}, r.entity.images \subseteq note.images,
         r.old \in {None} \cup note.images,
         r.old # None => r.pc = "save" /\ r.old \notin r.entity.images,
         UNCHANGED <<row, files, lastKey, astray>>
  PROVE  ImagesFine'
  <1>1. DOMAIN Nothing = {}
    BY DEF Nothing
  <1>2. Named(r) \subseteq note.images \cup Named(req[p]) /\ Forgets(r)'
    BY <1>1 DEF Named, Forgets
  <1>3. /\ NotesTypes /\ lastKey \in Nat /\ lastKey' = lastKey /\ astray' = astray /\ note' = note
        /\ exists' = exists /\ files' = files
    BY NoteFacts DEF NotesInv, row
  <1>4. exists' => note'.images \ astray' \subseteq files'
    BY <1>3 DEF ImagesFine
  <1> QED
    BY <1>2, <1>3, <1>4, ImagesStay

\* A step that is about something else.
LEMMA ImagesAreLeft ==
  ASSUME NotesInv, ImagesFine, NEW p \in Proc, NEW r, Become(p, r),
         r.key = None, r.old = None, Named(r) \subseteq Named(req[p]),
         note' = note, exists' => exists, UNCHANGED <<files, lastKey, astray>>
  PROVE  ImagesFine'
  <1>1. NotesTypes /\ lastKey \in Nat
    BY NoteFacts DEF NotesInv
  <1>2. exists' => note'.images \ astray' \subseteq files'
    BY DEF ImagesFine
  <1>3. Forgets(r)'
    BY DEF Forgets
  <1> QED
    BY <1>1, <1>2, <1>3, ImagesStay

LEMMA OtherColumns ==
  ASSUME NEW n, IsNote(n)
  PROVE  \A v : /\ [n EXCEPT !.owner = v].images = n.images
                /\ [n EXCEPT !.text = v].images = n.images
                /\ \A w : [n EXCEPT !.text = v, !.history = w].images = n.images
                /\ \A w : [n EXCEPT !.mode = v, !.link = w].images = n.images
                /\ [n EXCEPT !.sharedWith = v].images = n.images
                /\ [n EXCEPT !.images = v].images = v
  <1>1. "images" \in DOMAIN n /\ n = [c \in DOMAIN n |-> n[c]]
    BY DEF IsNote, IsPart, Columns
  <1> QED
    BY <1>1

\* A request that begins to save an edit of what it has read.
LEMMA SaveOfRead ==
  ASSUME NotesInv, ImagesFine, NEW p \in Proc, NEW e, e.images = note.images, NEW cs, NEW r0,
         r0 \in RequestRow, r0.key = None, r0.old = None, r0.update \in {Nothing, req[p].update},
         Save(p, e, cs, r0),
         UNCHANGED <<row, files, lastKey, astray>>
  PROVE  ImagesFine'
  <1>1. PICK b : b = [c \in cs |-> note[c]]
    OBVIOUS
  <1>2. PICK r : r = [r0 EXCEPT !.pc = "save", !.entity = e, !.base = b]
    OBVIOUS
  <1>3. Become(p, r)
    BY <1>1, <1>2 DEF Save
  <1>4. r.key = None /\ r.old = None /\ r.entity = e /\ r.update \in {Nothing, req[p].update}
    BY <1>2 DEF RequestRow
  <1> QED
    BY <1>3, <1>4, ImagesAreRead

LEMMA IdleFields ==
  /\ Idle \in RequestRow /\ Idle.key = None /\ Idle.old = None /\ Idle.update = Nothing
  /\ Idle.entity.images = {} /\ DOMAIN Nothing = {}
  <1>1. Idle \in RequestRow
    BY IdleIsRequest DEF IsRequest
  <1>2. NewNote.images = {}
    BY DEF NewNote
  <1>3. Idle.key = None /\ Idle.old = None /\ Idle.update = Nothing /\ Idle.entity = NewNote
    BY DEF Idle
  <1>4. DOMAIN Nothing = {}
    BY DEF Nothing
  <1> QED
    BY <1>1, <1>2, <1>3, <1>4

LEMMA TextStepKeepsImages ==
  ASSUME NotesInv, ImagesFine, NEW p \in Proc, TextStep(p)
  PROVE  ImagesFine'
  <1>1. IsNote(note)
    BY NoteFacts
  <1>2. ASSUME UpdateNote(p)
        PROVE  ImagesFine'
    <2>1. PICK t \in Text :
            Save(p, Revised(note, t), {"text", "history"}, [Idle EXCEPT !.plain = note.owner = "guest"])
      BY <1>2 DEF UpdateNote
    <2>2. Revised(note, t).images = note.images
      <3>1. \E h : Revised(note, t) = [note EXCEPT !.text = t, !.history = h]
        BY DEF Revised
      <3> QED
        BY <1>1, <3>1, OtherColumns
    <2>3. PICK x \in BOOLEAN : x = (note.owner = "guest")
      OBVIOUS
    <2>4. PICK r0 : r0 = [Idle EXCEPT !.plain = x]
      OBVIOUS
    <2>5. r0 \in RequestRow /\ r0.key = None /\ r0.old = None /\ r0.update = Nothing
      BY <2>4, IdleFields DEF RequestRow
    <2>6. Save(p, Revised(note, t), {"text", "history"}, r0)
      BY <2>1, <2>3, <2>4
    <2>7. UNCHANGED <<row, files, lastKey, astray>>
      BY <1>2 DEF UpdateNote, drawn, history
    <2> QED
      BY <2>2, <2>5, <2>6, <2>7, SaveOfRead
  <1>3. ASSUME UpdateByShareToken(p)
        PROVE  ImagesFine'
    <2>1. PICK t \in Text : Save(p, [note EXCEPT !.text = t], {"text"}, [Idle EXCEPT !.plain = TRUE])
      BY <1>3 DEF UpdateByShareToken
    <2>2. PICK e : e = [note EXCEPT !.text = t]
      OBVIOUS
    <2>3. PICK r0 : r0 = [Idle EXCEPT !.plain = TRUE]
      OBVIOUS
    <2>4. r0 \in RequestRow /\ r0.key = None /\ r0.old = None /\ r0.update = Nothing
      BY <2>3, IdleFields DEF RequestRow
    <2>5. e.images = note.images
      BY <1>1, <2>2, OtherColumns
    <2>6. Save(p, e, {"text"}, r0) /\ UNCHANGED <<row, files, lastKey, astray>>
      BY <1>3, <2>1, <2>2, <2>3 DEF UpdateByShareToken, drawn, history
    <2> QED
      BY <2>4, <2>5, <2>6, SaveOfRead
  <1>4. ASSUME SaveOther(p)
        PROVE  ImagesFine'
    <2>1. Save(p, note, {}, Idle) /\ UNCHANGED <<row, files, lastKey, astray>>
      BY <1>4 DEF SaveOther, drawn, history
    <2> QED
      BY <2>1, IdleFields, SaveOfRead
  <1>5. ASSUME ClaimGuestNotes(p)
        PROVE  ImagesFine'
    <2>1. PICK e : e = [note EXCEPT !.owner = "user"]
      OBVIOUS
    <2>2. Save(p, e, {"owner"}, Idle) /\ UNCHANGED <<row, files, lastKey, astray>>
      BY <1>5, <2>1 DEF ClaimGuestNotes, drawn, history
    <2>3. e.images = note.images
      BY <1>1, <2>1, OtherColumns
    <2> QED
      BY <2>2, <2>3, IdleFields, SaveOfRead
  <1>6. ASSUME BeginDelete(p)
        PROVE  ImagesFine'
    <2>1. PICK r : r = [Idle EXCEPT !.pc = "delete"]
      OBVIOUS
    <2>2. r.key = None /\ r.old = None /\ r.update = Nothing /\ r.entity.images = {}
      BY <2>1, IdleFields DEF RequestRow
    <2>3. Named(r) = {} /\ Forgets(r)'
      BY <2>2, IdleFields DEF Named, Forgets
    <2>4. PICK unlinked \in SUBSET note.images :
            files' = files \ unlinked /\ astray' = astray \cup unlinked
      BY <1>6 DEF BeginDelete
    <2>5. /\ Become(p, r) /\ note' = note /\ exists' = exists /\ lastKey' = lastKey
          /\ lastKey \in Nat /\ NotesTypes
      BY <1>6, <2>1, NoteFacts DEF BeginDelete, row, drawn, NotesInv
    <2>6. exists' => note'.images \ astray' \subseteq files'
      BY <2>4, <2>5 DEF ImagesFine
    <2> QED
      BY <2>2, <2>3, <2>4, <2>5, <2>6, ImagesStay
  <1>7. ASSUME DeleteNote(p)
        PROVE  ImagesFine'
    <2>1. /\ Become(p, Idle) /\ note' = note /\ exists' = FALSE /\ UNCHANGED <<files, lastKey, astray>>
      BY <1>7 DEF DeleteNote, Finish, drawn, history
    <2> QED
      BY <2>1, IdleNames, ImagesAreLeft
  <1> QED
    BY <1>2, <1>3, <1>4, <1>5, <1>6, <1>7 DEF TextStep

LEMMA ShareStepKeepsImages ==
  ASSUME NotesInv, ImagesFine, NEW p \in Proc, ShareStep(p)
  PROVE  ImagesFine'
  <1>1. IsNote(note) /\ IsRequest(req[p]) /\ req[p] \in RequestRow
    BY NoteFacts DEF NotesInv, NotesTypes, IsRequest
  <1>2. ASSUME UpdateShareSettings(p)
        PROVE  ImagesFine'
    <2>1. PICK m, l : Save(p, [note EXCEPT !.mode = m, !.link = l], {"mode", "link"}, Idle)
      BY <1>2 DEF UpdateShareSettings
    <2>2. PICK e : e = [note EXCEPT !.mode = m, !.link = l]
      OBVIOUS
    <2>3. e.images = note.images
      BY <1>1, <2>2, OtherColumns
    <2>4. Save(p, e, {"mode", "link"}, Idle) /\ UNCHANGED <<row, files, lastKey, astray>>
      BY <1>2, <2>1, <2>2 DEF UpdateShareSettings, history
    <2> QED
      BY <2>3, <2>4, IdleFields, SaveOfRead
  <1>3. ASSUME RemoveSharedUser(p)
        PROVE  ImagesFine'
    <2>1. PICK f \in Friend : Save(p, [note EXCEPT !.sharedWith = @ \ {f}], {"sharedWith"},
                                   [Idle EXCEPT !.friend = f])
      BY <1>3 DEF RemoveSharedUser
    <2>2. PICK e : e = [note EXCEPT !.sharedWith = @ \ {f}]
      OBVIOUS
    <2>3. PICK r0 : r0 = [Idle EXCEPT !.friend = f]
      OBVIOUS
    <2>4. r0 \in RequestRow /\ r0.key = None /\ r0.old = None /\ r0.update = Nothing
      BY <2>3, IdleFields DEF RequestRow
    <2>5. e.images = note.images
      BY <1>1, <2>2, OtherColumns
    <2>6. Save(p, e, {"sharedWith"}, r0) /\ UNCHANGED <<row, files, lastKey, astray>>
      BY <1>3, <2>1, <2>2, <2>3 DEF RemoveSharedUser, drawn, history
    <2> QED
      BY <2>4, <2>5, <2>6, SaveOfRead
  <1>4. ASSUME ReadForAccept(p), ~Become(p, Idle), ~Become(p, [req[p] EXCEPT !.pc = "mark"])
        PROVE  ImagesFine'
    <2>1. PICK s : Save(p, [note EXCEPT !.sharedWith = s], {"sharedWith"}, req[p])
      BY <1>4 DEF ReadForAccept, Finish
    <2>2. PICK e : e = [note EXCEPT !.sharedWith = s]
      OBVIOUS
    <2>3. e.images = note.images
      BY <1>1, <2>2, OtherColumns
    <2>4. Save(p, e, {"sharedWith"}, req[p]) /\ UNCHANGED <<row, files, lastKey, astray>>
      BY <1>4, <2>1, <2>2 DEF ReadForAccept, drawn, history
    <2>5. req[p].key = None /\ req[p].old = None
      BY <1>1, <1>4 DEF ReadForAccept, At, IsRequest
    <2> QED
      BY <1>1, <2>3, <2>4, <2>5, SaveOfRead
  <1>5. ASSUME NEW r, Become(p, r), r.key = None, r.old = None, Named(r) \subseteq Named(req[p]),
               UNCHANGED <<row, files, lastKey, astray>>
        PROVE  ImagesFine'
    BY <1>5, ImagesAreLeft DEF row
  <1>6. ASSUME Become(p, Idle), UNCHANGED <<row, files, lastKey, astray>>
        PROVE  ImagesFine'
    BY <1>5, <1>6, IdleNames
  <1>7. ASSUME At(p, "check") \/ At(p, "accept"), NEW c, Become(p, [req[p] EXCEPT !.pc = c]),
               UNCHANGED <<row, files, lastKey, astray>>
        PROVE  ImagesFine'
    <2>1. PICK r : r = [req[p] EXCEPT !.pc = c]
      OBVIOUS
    <2>2. /\ r.key = req[p].key /\ r.old = req[p].old /\ r.entity = req[p].entity
          /\ r.update = req[p].update
      BY <1>1, <2>1 DEF RequestRow
    <2>3. r.key = None /\ r.old = None
      BY <1>1, <1>7, <2>2 DEF At, IsRequest
    <2>4. Named(r) = Named(req[p])
      BY <2>2 DEF Named
    <2> QED
      BY <1>5, <1>7, <2>1, <2>3, <2>4
  <1>8. ASSUME SendShareInvite(p)
        PROVE  ImagesFine'
    <2>1. PICK f \in Friend : Become(p, [Idle EXCEPT !.pc = "check", !.friend = f])
      BY <1>8 DEF SendShareInvite
    <2>2. PICK r : r = [Idle EXCEPT !.pc = "check", !.friend = f]
      OBVIOUS
    <2>3. r.key = None /\ r.old = None /\ r.update = Nothing /\ r.entity.images = {}
      BY <2>2, IdleFields DEF RequestRow
    <2>4. Named(r) = {}
      BY <2>3, IdleFields DEF Named
    <2>5. UNCHANGED <<row, files, lastKey, astray>>
      BY <1>8 DEF SendShareInvite, drawn, history
    <2> QED
      BY <1>5, <2>1, <2>2, <2>3, <2>4, <2>5
  <1>9. ASSUME AcceptInvite(p)
        PROVE  ImagesFine'
    <2>1. PICK i \in Invite : Become(p, [Idle EXCEPT !.pc = "accept", !.invite = i])
      BY <1>9 DEF AcceptInvite
    <2>2. PICK r : r = [Idle EXCEPT !.pc = "accept", !.invite = i]
      OBVIOUS
    <2>3. r.key = None /\ r.old = None /\ r.update = Nothing /\ r.entity.images = {}
      BY <2>2, IdleFields DEF RequestRow
    <2>4. Named(r) = {}
      BY <2>3, IdleFields DEF Named
    <2>5. UNCHANGED <<row, files, lastKey, astray>>
      BY <1>9 DEF AcceptInvite, drawn, history
    <2> QED
      BY <1>5, <2>1, <2>2, <2>3, <2>4, <2>5
  <1>10. ASSUME CheckPending(p)
         PROVE  ImagesFine'
    <2>1. /\ At(p, "check") /\ UNCHANGED <<row, files, lastKey, astray>>
          /\ Become(p, [req[p] EXCEPT !.pc = "invite"]) \/ Become(p, Idle)
      BY <1>10 DEF CheckPending, Finish, drawn, history
    <2> QED
      BY <1>6, <1>7, <2>1
  <1>11. ASSUME InsertInvite(p) \/ MarkAccepted(p)
         PROVE  ImagesFine'
    <2>1. Become(p, Idle) /\ UNCHANGED <<row, files, lastKey, astray>>
      BY <1>11 DEF InsertInvite, MarkAccepted, Finish, drawn, history
    <2> QED
      BY <1>6, <2>1
  <1>12. ASSUME ReadForAccept(p)
         PROVE  ImagesFine'
    <2>1. At(p, "accept") /\ UNCHANGED <<row, files, lastKey, astray>>
      BY <1>12 DEF ReadForAccept, drawn, history
    <2> QED
      BY <1>4, <1>6, <1>7, <1>12, <2>1
  <1> QED
    BY <1>2, <1>3, <1>8, <1>9, <1>10, <1>11, <1>12 DEF ShareStep

LEMMA ImageStepKeepsImages ==
  ASSUME NotesInv, ImagesFine, NEW p \in Proc, ImageStep(p)
  PROVE  ImagesFine'
  <1>1. /\ NotesTypes /\ IsNote(note) /\ note.images \subseteq Key /\ files \subseteq Key
        /\ lastKey \in Nat /\ req[p] \in RequestRow /\ IsNote(req[p].entity) /\ None \notin Key
    <2>1. NotesTypes /\ req[p] \in RequestRow
      BY DEF NotesInv, NotesTypes, IsRequest
    <2>2. IsNote(req[p].entity)
      BY <2>1, NoteRows DEF RequestRow
    <2> QED
      BY <2>1, <2>2, NoteFacts DEF NotesTypes, Key, None
  <1>2. ASSUME UploadImage(p)
        PROVE  ImagesFine'
    <2>1. PICK r : r = [Idle EXCEPT !.pc = "upload", !.entity = note]
      OBVIOUS
    <2>2. r.key = None /\ r.old = None /\ r.update = Nothing /\ r.entity = note
      BY <2>1, IdleFields DEF RequestRow
    <2>3. Become(p, r) /\ UNCHANGED <<row, files, lastKey, astray>>
      BY <1>2, <2>1 DEF UploadImage, drawn, history
    <2> QED
      BY <2>2, <2>3, ImagesAreRead
  <1>3. ASSUME DeleteImage(p)
        PROVE  ImagesFine'
    <2>1. PICK k \in note.images : Save(p, [note EXCEPT !.images = @ \ {k}], {"images"},
                                        [Idle EXCEPT !.old = k])
      BY <1>3 DEF DeleteImage
    <2>2. PICK e : e = [note EXCEPT !.images = @ \ {k}]
      OBVIOUS
    <2>3. e.images = note.images \ {k}
      BY <1>1, <2>1, <2>2, OtherColumns
    <2>4. PICK b : b = [c \in {"images"} |-> note[c]]
      OBVIOUS
    <2>5. PICK r : r = [Idle EXCEPT !.old = k, !.pc = "save", !.entity = e, !.base = b]
      OBVIOUS
    <2>6. Become(p, r)
      BY <2>1, <2>2, <2>4, <2>5 DEF Save
    <2>7. r.key = None /\ r.update = Nothing /\ r.old = k /\ r.pc = "save" /\ r.entity = e
      BY <2>5, IdleFields DEF RequestRow
    <2>8. UNCHANGED <<row, files, lastKey, astray>>
      BY <1>3 DEF DeleteImage, drawn, history
    <2> QED
      BY <2>3, <2>6, <2>7, <2>8, ImagesAreRead
  <1>4. ASSUME PutImage(p)
        PROVE  ImagesFine'
    <2>1. PICK k, n : k = lastKey + 1 /\ n = req[p].entity
      OBVIOUS
    <2>2. PICK b, s, e : /\ b = [c \in {"images"} |-> n[c]] /\ s = n.images \cup {k}
                         /\ e = [n EXCEPT !.images = s]
      OBVIOUS
    <2>3. PICK r : r = [Idle EXCEPT !.pc = "save", !.key = k, !.base = b, !.entity = e]
      OBVIOUS
    <2>4. /\ k \in Key /\ lastKey' = k /\ files' = files \cup {k} /\ Become(p, r)
          /\ UNCHANGED <<row, history>>
      BY <1>4, <2>1, <2>2, <2>3 DEF PutImage, Put
    <2>5. e.images = n.images \cup {k}
      BY <1>1, <2>1, <2>2, OtherColumns
    <2>6. r.key = k /\ r.old = None /\ r.update = Nothing /\ r.entity = e
      BY <2>3, IdleFields DEF RequestRow
    <2>7. Named(r) \subseteq Named(req[p]) \cup {k} /\ Forgets(r)'
      BY <2>1, <2>5, <2>6, IdleFields DEF Named, Forgets
    <2>8. /\ note' = note /\ exists' = exists /\ astray' = astray
          /\ lastKey' \in Nat /\ lastKey <= lastKey' /\ k \in lastKey + 1 .. lastKey'
      BY <1>1, <2>1, <2>4 DEF row, history
    <2>9. note.images \subseteq 1 .. lastKey /\ (exists => note.images \ astray \subseteq files)
      BY DEF ImagesFine
    <2>10. k \notin note.images
      BY <1>1, <2>1, <2>9
    <2> QED
      BY <1>1, <2>4, <2>6, <2>7, <2>8, <2>9, <2>10, ImagesStay
  <1>5. ASSUME CleanImage(p)
        PROVE  ImagesFine'
    <2>1. /\ At(p, "clean") /\ files' = files \ {req[p].old} /\ Become(p, Idle)
          /\ note' = note /\ exists' = exists /\ astray' = astray /\ lastKey' = lastKey
      BY <1>5 DEF CleanImage, Finish, row, drawn, history
    <2>2. exists /\ req[p].old # None => req[p].old \notin note.images \ astray
      BY <2>1 DEF ImagesFine, Forgets, At
    <2>3. exists => note.images \ astray \subseteq files
      BY DEF ImagesFine
    <2>4. exists' => note'.images \ astray' \subseteq files'
      BY <1>1, <2>1, <2>2, <2>3
    <2>5. files \ files' \subseteq Named(req[p])
      BY <1>1, <2>1 DEF Named
    <2>6. Forgets(Idle)'
      BY IdleNames DEF Forgets
    <2> QED
      BY <1>1, <2>1, <2>4, <2>5, <2>6, IdleNames, ImagesStay
  <1> QED
    BY <1>2, <1>3, <1>4, <1>5 DEF ImageStep

LEMMA AfterSaveNames ==
  ASSUME NotesInv, NEW p \in Proc, AfterSave(p)
  PROVE  \E s : /\ Become(p, s) /\ s.key = None /\ s.old \in {None, req[p].old}
                /\ s.old # None => s.pc = "clean"
                /\ Named(s) \subseteq Named(req[p])
  <1>1. \/ Become(p, [Idle EXCEPT !.pc = "mark", !.invite = req[p].invite])
        \/ req[p].old # None /\ Become(p, [Idle EXCEPT !.pc = "clean", !.old = req[p].old])
        \/ Become(p, Idle)
    BY DEF AfterSave
  <1>2. CASE Become(p, [Idle EXCEPT !.pc = "mark", !.invite = req[p].invite])
    <2>1. PICK s : s = [Idle EXCEPT !.pc = "mark", !.invite = req[p].invite]
      OBVIOUS
    <2>2. s.key = None /\ s.old = None /\ s.update = Nothing /\ s.entity.images = {}
      BY <2>1, IdleFields DEF RequestRow
    <2>3. Named(s) = {}
      BY <2>2, IdleFields DEF Named
    <2> QED
      BY <1>2, <2>1, <2>2, <2>3
  <1>3. CASE req[p].old # None /\ Become(p, [Idle EXCEPT !.pc = "clean", !.old = req[p].old])
    <2>1. PICK s : s = [Idle EXCEPT !.pc = "clean", !.old = req[p].old]
      OBVIOUS
    <2>2. /\ s.key = None /\ s.old = req[p].old /\ s.update = Nothing /\ s.entity.images = {}
          /\ s.pc = "clean"
      BY <2>1, IdleFields DEF RequestRow
    <2>3. Named(s) \subseteq Named(req[p])
      BY <2>2, IdleFields DEF Named
    <2> QED
      BY <1>3, <2>1, <2>2, <2>3
  <1>4. CASE Become(p, Idle)
    BY <1>4, IdleNames
  <1> QED
    BY <1>1, <1>2, <1>3, <1>4

\* The row is saved, with or without an answer.
LEMMA SavedImages ==
  ASSUME NotesInv, ImagesFine, NEW p \in Proc, NEW gone \in SUBSET ({req[p].key} \ {None}),
         Update(p, gone) \/ Insert(p, gone), files' = files \ gone, lastKey' = lastKey,
         NEW s, Become(p, s), s.key = None, s.old \in {None, req[p].old},
         s.old # None => s.pc = "clean", Named(s) \subseteq Named(req[p])
  PROVE  ImagesFine'
  <1>1. PICK r : r = req[p]
    OBVIOUS
  <1>2. /\ NotesTypes /\ lastKey \in Nat /\ "images" \in Columns
        /\ exists => note.images \ astray \subseteq files
        /\ r.key # None => r.key \in files \ note.images
        /\ Forgets(r) /\ None \notin note.images \cup Named(r)
    <2>1. NotesTypes /\ lastKey \in Nat
      BY NoteFacts DEF NotesInv
    <2>2. note.images \subseteq 1 .. lastKey /\ Named(r) \subseteq 1 .. lastKey
      BY <1>1 DEF ImagesFine
    <2>3. None \notin 1 .. lastKey
      BY <2>1 DEF None
    <2>4. "images" \in Columns
      BY DEF Columns
    <2>5. /\ exists => note.images \ astray \subseteq files
          /\ r.key # None => r.key \in files \ note.images
          /\ Forgets(r)
      BY <1>1 DEF ImagesFine
    <2> QED
      BY <2>1, <2>2, <2>3, <2>4, <2>5
  <1>3. gone \subseteq Named(r) /\ (s.old # None => s.old = r.old)
    BY <1>1 DEF Named
  <1>4. CASE Update(p, gone) /\ ~exists
    <2>1. note' = note /\ exists' = exists /\ astray' = astray
      BY <1>4 DEF Update, history
    <2>2. Forgets(s)'
      BY <1>4, <2>1 DEF Forgets
    <2> QED
      BY <1>1, <1>2, <1>3, <1>4, <2>1, <2>2, ImagesStay
  <1>5. CASE Update(p, gone) /\ exists
    <2>1. PICK n : n = [c \in Columns |-> IF c \in DOMAIN r.update THEN r.update[c] ELSE note[c]]
      OBVIOUS
    <2>2. /\ note' = n /\ exists' = exists /\ r.pc = "write"
          /\ astray' = astray \cup gone \cup (n.images \ (note.images \cup {r.key}))
      BY <1>1, <1>5, <2>1 DEF Update, Strays, At
    <2>3. n.images = IF "images" \in DOMAIN r.update THEN r.update.images ELSE note.images
      BY <1>2, <2>1
    <2>4. note'.images \subseteq note.images \cup Named(r)
      BY <2>2, <2>3 DEF Named
    <2>5. exists' => note'.images \ astray' \subseteq files'
      BY <1>2, <1>5, <2>2, <2>4
    <2>6. Forgets(s)'
      BY <1>2, <1>3, <1>5, <2>2, <2>3 DEF Forgets
    <2> QED
      BY <1>1, <1>2, <1>3, <1>5, <2>2, <2>4, <2>5, <2>6, ImagesStay
  <1>6. CASE Insert(p, gone)
    <2>1. /\ note' = r.entity /\ exists' = TRUE /\ r.pc = "insert" /\ ~exists
          /\ astray' = astray \cup gone \cup (r.entity.images \ {r.key})
      BY <1>1, <1>6 DEF Insert, Strays, At
    <2>2. note'.images \subseteq Named(r)
      BY <2>1 DEF Named
    <2>3. exists' => note'.images \ astray' \subseteq files'
      BY <1>2, <2>1, <2>2
    <2>4. Forgets(s)'
      BY <1>2, <1>3, <2>1 DEF Forgets
    <2> QED
      BY <1>1, <1>2, <1>3, <2>1, <2>2, <2>3, <2>4, ImagesStay
  <1> QED
    BY <1>4, <1>5, <1>6

LEMMA ReloadKeepsImages ==
  ASSUME NotesInv, ImagesFine, NEW p \in Proc, Reload(p)
  PROVE  ImagesFine'
  <1>1. PICK r : r = req[p]
    OBVIOUS
  <1>2. PICK differ \in SUBSET Columns : differ = {c \in Columns : note[c] # r.entity[c]}
    OBVIOUS
  <1>3. PICK u : u = [c \in differ |-> r.entity[c]]
    OBVIOUS
  <1>4. /\ r.pc = "save" /\ UNCHANGED <<row, files, lastKey, astray>>
        /\ \/ Become(p, [r EXCEPT !.pc = "insert"])
           \/ differ = {} /\ AfterSave(p)
           \/ \E b : Become(p, [r EXCEPT !.pc = "write", !.entity = NewNote, !.base = b, !.update = u])
    BY <1>1, <1>2, <1>3 DEF Reload, At, drawn, history
  <1>5. /\ r \in RequestRow /\ "images" \in Columns /\ Forgets(r)
        /\ r.key # None => r.key \in files \ note.images
    BY <1>1 DEF NotesInv, NotesTypes, IsRequest, Columns, ImagesFine
  <1>6. "images" \notin differ => note.images = r.entity.images
    BY <1>2, <1>5
  <1>7. ASSUME NEW s, Become(p, s), Named(s) \subseteq Named(r), s.key \in {None, r.key}, Forgets(s)'
        PROVE  ImagesFine'
    <2>1. /\ NotesTypes /\ lastKey' = lastKey /\ lastKey \in Nat /\ note' = note /\ exists' = exists
          /\ files' = files /\ astray' = astray
      BY <1>4, NoteFacts DEF NotesInv, row
    <2>2. exists' => note'.images \ astray' \subseteq files'
      BY <2>1 DEF ImagesFine
    <2> QED
      BY <1>1, <1>5, <1>7, <2>1, <2>2, ImagesStay
  <1>8. CASE Become(p, [r EXCEPT !.pc = "insert"])
    <2>1. PICK s : s = [r EXCEPT !.pc = "insert"]
      OBVIOUS
    <2>2. /\ s.pc = "insert" /\ s.key = r.key /\ s.old = r.old /\ s.entity = r.entity
          /\ s.update = r.update
      BY <1>5, <2>1 DEF RequestRow
    <2>3. Named(s) = Named(r) /\ Forgets(s)'
      BY <1>4, <1>5, <2>2 DEF Named, Forgets
    <2> QED
      BY <1>7, <1>8, <2>1, <2>2, <2>3
  <1>9. CASE differ = {} /\ AfterSave(p)
    <2>1. PICK s : /\ Become(p, s) /\ s.key = None /\ s.old \in {None, req[p].old}
                   /\ s.old # None => s.pc = "clean"
                   /\ Named(s) \subseteq Named(req[p])
      BY <1>9, AfterSaveNames
    <2>2. Forgets(s)'
      BY <1>1, <1>4, <1>5, <1>6, <1>9, <2>1 DEF Forgets, row
    <2> QED
      BY <1>1, <1>7, <2>1, <2>2
  <1>10. ASSUME NEW b, Become(p, [r EXCEPT !.pc = "write", !.entity = NewNote, !.base = b, !.update = u])
         PROVE  ImagesFine'
    <2>1. PICK s : s = [r EXCEPT !.pc = "write", !.entity = NewNote, !.base = b, !.update = u]
      OBVIOUS
    <2>2. s.pc = "write" /\ s.key = r.key /\ s.old = r.old /\ s.entity = NewNote /\ s.update = u
      BY <1>5, <2>1 DEF RequestRow
    <2>3. /\ NewNote.images = {} /\ DOMAIN u = differ
          /\ "images" \in differ => u.images = r.entity.images
      BY <1>3 DEF NewNote
    <2>4. Named(s) \subseteq Named(r)
      BY <2>2, <2>3 DEF Named
    <2>5. Forgets(s)'
      BY <1>4, <1>5, <1>6, <2>2, <2>3 DEF Forgets, row
    <2> QED
      BY <1>7, <1>10, <2>1, <2>2, <2>4, <2>5
  <1> QED
    BY <1>4, <1>8, <1>9, <1>10

LEMMA SaveStepKeepsImages ==
  ASSUME NotesInv, ImagesFine, NEW p \in Proc, SaveStep(p)
  PROVE  ImagesFine'
  <1>1. ASSUME Write(p) \/ Reinsert(p)
        PROVE  ImagesFine'
    <2>1. PICK s : /\ Become(p, s) /\ s.key = None /\ s.old \in {None, req[p].old}
                   /\ s.old # None => s.pc = "clean"
                   /\ Named(s) \subseteq Named(req[p])
      BY <1>1, AfterSaveNames DEF Write, Reinsert
    <2>2. Update(p, {}) \/ Insert(p, {})
      BY <1>1 DEF Write, Reinsert
    <2>3. files' = files \ {} /\ lastKey' = lastKey /\ {} \in SUBSET ({req[p].key} \ {None})
      BY <1>1 DEF Write, Reinsert, drawn
    <2> QED
      BY <2>1, <2>2, <2>3, SavedImages
  <1>2. ASSUME AnswerLost(p)
        PROVE  ImagesFine'
    <2>1. PICK gone \in SUBSET ({req[p].key} \ {None}) :
            (Update(p, gone) \/ Insert(p, gone)) /\ files' = files \ gone
      BY <1>2 DEF AnswerLost
    <2>2. Become(p, Idle) /\ lastKey' = lastKey
      BY <1>2 DEF AnswerLost, Finish, drawn
    <2> QED
      BY <2>1, <2>2, IdleNames, SavedImages
  <1>3. ASSUME Fail(p)
        PROVE  ImagesFine'
    <2>1. /\ files' \in {files, files \ {req[p].key}} /\ Become(p, Idle)
          /\ note' = note /\ exists' = exists /\ astray' = astray /\ lastKey' = lastKey
      BY <1>3 DEF Fail, Finish, row, drawn, history
    <2>2. NotesTypes /\ lastKey \in Nat /\ files \subseteq Key /\ None \notin Key /\ note.images \subseteq Key
      <3>1. NotesTypes /\ files \subseteq Key
        BY DEF NotesInv, NotesTypes
      <3>2. lastKey \in Nat /\ note.images \subseteq Key
        BY NoteFacts
      <3> QED
        BY <3>1, <3>2 DEF Key, None
    <2>3. /\ req[p].key # None => req[p].key \notin note.images
          /\ exists => note.images \ astray \subseteq files
      BY DEF ImagesFine
    <2>4. exists' => note'.images \ astray' \subseteq files'
      BY <2>1, <2>2, <2>3
    <2>5. files \ files' \subseteq Named(req[p])
      BY <2>1, <2>2 DEF Named
    <2>6. Forgets(Idle)'
      BY IdleNames DEF Forgets
    <2> QED
      BY <2>1, <2>2, <2>4, <2>5, <2>6, IdleNames, ImagesStay
  <1> QED
    BY <1>1, <1>2, <1>3, ReloadKeepsImages DEF SaveStep

LEMMA OthersKeepImages ==
  ASSUME ImagesFine, UNCHANGED <<row, files, drawn, req, history>>
  PROVE  ImagesFine'
  BY DEF ImagesFine, Named, Forgets, row, drawn, history

LEMMA NotesNextKeepsImages ==
  ASSUME NotesInv, ImagesFine, NotesNext \/ UNCHANGED notesVars
  PROVE  ImagesFine'
  <1>1. ASSUME NEW i \in Invite, ExpireInvite(i)
        PROVE  UNCHANGED <<row, files, drawn, req, history>>
    BY <1>1 DEF ExpireInvite
  <1>2. CleanupExpiredInvites \/ UNCHANGED notesVars => UNCHANGED <<row, files, drawn, req, history>>
    BY DEF CleanupExpiredInvites, notesVars
  <1> QED
    BY <1>1, <1>2, OthersKeepImages, TextStepKeepsImages, ShareStepKeepsImages, ImageStepKeepsImages,
       SaveStepKeepsImages DEF NotesNext

\* What is stored is named by the row, is on its way into it, or is on its way out,
\* after every step (notes.service.ts:589-618, 759-817, 868-901).
THEOREM ImagesInvariant == ClientsSpec => []ImagesFine
  <1>1. ClientsInit => ImagesFine
    BY ImagesBegin DEF ClientsInit
  <1>2. ASSUME NotesInv, ImagesFine, [ClientsNext]_clientVars
        PROVE  ImagesFine'
    <2>1. NotesNext \/ UNCHANGED notesVars
      BY <1>2 DEF ClientsNext, SignInAlone, NotesAlone, TrafficAlone, clientVars
    <2> QED
      BY <1>2, <2>1, NotesNextKeepsImages
  <1> QED
    BY <1>1, <1>2, NotesInvariant, PTL DEF ClientsSpec

\* Every image the note names can be read, whatever uploads and deletions run or
\* fail, but for those that were unlinked to delete the note, that a save has
\* brought back, or that were deleted when the answer to their save was lost
\* (notes.service.ts:589-618, 759-817, 868-901).
THEOREM ImagesAreAlwaysStored == ClientsSpec => []ImagesAreStored
  <1>1. ImagesFine => ImagesAreStored
    BY DEF ImagesFine, ImagesAreStored, Readable
  <1> QED
    BY <1>1, ImagesInvariant, PTL
=============================================================================
