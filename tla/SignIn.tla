------------------------------- MODULE SignIn -------------------------------
(***************************************************************************)
(* Signing in with an OAuth provider, from several tabs of one browser:    *)
(* the signed state cookie of each provider, which the tabs share          *)
(* (oauth-state.guard.ts), the account that is found or made for the       *)
(* provider's profile (users.service.ts), and the one-time code with which *)
(* an application fetches its own session (sso.controller.ts,              *)
(* SsoPage.jsx).  Passwords and the profile's other data are left out.     *)
(***************************************************************************)
EXTENDS Naturals, FiniteSets

CONSTANTS
    Tab,
    Provider,
    Account,       \* accounts people have at the providers
    ProviderOf,    \* the provider of each
    Address,       \* e-mail addresses as they are spelled
    AddressOf,     \* the spelling each account gives
    Lower,         \* the same address in lower case
    Origin,        \* web origins of the applications
    Allowed,       \* those of getOAuthRedirectOrigins
    Absent,        \* no address, target, user, code or account
    MaxUser, MaxState, MaxCode   \* bounds: users, sign-ins started, codes issued

ASSUME SignInConstants ==
    /\ ProviderOf \in [Account -> Provider]
    /\ AddressOf \in [Account -> Address]
    /\ Lower \in [Address -> Address]
    /\ \A e \in Address : Lower[Lower[e]] = Lower[e]
    /\ Allowed \subseteq Origin
    /\ Absent \notin Address \cup Origin \cup Account \cup Tab
    /\ MaxUser \in Nat /\ MaxState \in Nat /\ MaxCode \in Nat

User == 1..MaxUser
Code == 1..MaxCode

VARIABLES
    users,     \* the e-mail column of each user, Absent where there is no row
    verified,  \* users whose address is verified
    links,     \* oauth_accounts: the user of each provider account
    codes,     \* sessions rows that hold a login code
    codeLock,  \* the tab whose request has locked each code
    state,     \* states drawn so far
    issued,    \* codes issued so far
    cookie,    \* the state cookie of each provider
    signedIn,  \* the user of the browser's session at the sign-in page
    tab,       \* what each tab is doing
    opened     \* history: sessions opened with a code

tables == <<users, verified, links>>
codeVars == <<codes, codeLock, issued>>
browser == <<cookie, signedIn, state>>
signInVars == <<tables, codeVars, browser, tab, opened>>

\* No OAuthStatePayload
NoCookie == [state |-> 0, target |-> Absent]
IdleTab == [pc |-> "idle", provider |-> Absent, state |-> 0, wanted |-> Absent,
            target |-> Absent, account |-> Absent, user |-> 0, code |-> 0]
NoCode == [user |-> 0, origin |-> Absent, live |-> FALSE]

SignInInit ==
    /\ users = [u \in User |-> Absent]
    /\ verified = {}
    /\ links = [a \in Account |-> 0]
    /\ codes = [c \in Code |-> NoCode]
    /\ codeLock = [c \in Code |-> Absent]
    /\ state = 0
    /\ issued = 0
    /\ cookie = [p \in Provider |-> NoCookie]
    /\ signedIn = 0
    /\ tab = [t \in Tab |-> IdleTab]
    /\ opened = {}

\* resolveAllowedRedirectUrl
Resolved(target) == IF target \in Allowed THEN target ELSE Absent

\* createOAuthStateGrant: what the signed cookie holds.
Grant(number, target) == [state |-> number, target |-> Resolved(target)]

TabTo(t, pc) == tab' = [tab EXCEPT ![t].pc = pc]

HasRow(u) == users[u] # Absent
NextUser == Cardinality({u \in User : HasRow(u)}) + 1

---------------------------------------------------------------------------
(* The start of a sign-in and the way to the provider                      *)

\* prepareOAuthStart: the cookie of the provider is overwritten.
StartSignIn(t, p, target) ==
    /\ tab[t].pc = "idle"
    /\ state < MaxState
    /\ state' = state + 1
    /\ cookie' = [cookie EXCEPT ![p] = Grant(state + 1, target)]
    /\ tab' = [tab EXCEPT ![t] = [IdleTab EXCEPT !.pc = "provider", !.provider = p,
                                              !.state = state + 1, !.wanted = target]]
    /\ UNCHANGED <<tables, codeVars, signedIn, opened>>

\* Five minutes have passed.
LapseCookie(p) ==
    /\ cookie[p] # NoCookie
    /\ cookie' = [cookie EXCEPT ![p] = NoCookie]
    /\ UNCHANGED <<tables, codeVars, signedIn, state, tab, opened>>

\* The provider sends the browser back with the profile of an account.
Authenticate(t, a) ==
    /\ tab[t].pc = "provider"
    /\ ProviderOf[a] = tab[t].provider
    /\ tab' = [tab EXCEPT ![t].pc = "callback", ![t].account = a]
    /\ UNCHANGED <<tables, codeVars, browser, opened>>

---------------------------------------------------------------------------
(* The callback                                                            *)

\* A cookie that is signed and not too old is enough.
RestoresAny(t) == cookie[tab[t].provider] # NoCookie
\* restoreOAuthStateGrant
Restores(t) == cookie[tab[t].provider] # NoCookie /\ cookie[tab[t].provider].state = tab[t].state

RestoreGrant(t) ==
    /\ tab[t].pc = "callback"
    /\ Restores(t)
    /\ tab' = [tab EXCEPT ![t].pc = "link", ![t].target = cookie[tab[t].provider].target]
    /\ UNCHANGED <<tables, codeVars, browser, opened>>

RefuseState(t) ==
    /\ tab[t].pc = "callback"
    /\ ~Restores(t)
    /\ tab' = [tab EXCEPT ![t] = IdleTab]
    /\ UNCHANGED <<tables, codeVars, browser, opened>>

\* The response clears the cookie, also the one another tab has set meanwhile.
ClearCookie(t) == cookie' = [cookie EXCEPT ![tab[t].provider] = NoCookie]

\* findOrCreateOAuthUser: the account is known.
FindLink(t) ==
    /\ tab[t].pc = "link"
    /\ tab' = IF links[tab[t].account] # 0
                THEN [tab EXCEPT ![t].pc = "session", ![t].user = links[tab[t].account]]
                ELSE [tab EXCEPT ![t].pc = "find"]
    /\ UNCHANGED <<tables, codeVars, browser, opened>>

\* findByEmail
FindUser(t) ==
    LET found == {u \in User : users[u] = Lower[AddressOf[tab[t].account]]}
    IN /\ tab[t].pc = "find"
       /\ \/ \E u \in found :
               tab' = [tab EXCEPT ![t].pc = "insertLink", ![t].user = u]
          \/ found = {} /\ TabTo(t, "insertUser")
       /\ UNCHANGED <<tables, codeVars, browser, opened>>

\* A column without the index
NeverTaken(address) == FALSE
\* The unique index on users.email
Taken(address) == \E u \in User : users[u] = address

InsertUser(t) ==
    /\ tab[t].pc = "insertUser"
    /\ ~Taken(AddressOf[tab[t].account])
    /\ NextUser \in User
    /\ users' = [users EXCEPT ![NextUser] = AddressOf[tab[t].account]]
    /\ verified' = verified \cup {NextUser}
    /\ tab' = [tab EXCEPT ![t].pc = "insertLink", ![t].user = NextUser]
    /\ UNCHANGED <<links, codeVars, browser, opened>>

\* The unique index on provider and providerId
Linked(account) == links[account] # 0

InsertLink(t) ==
    /\ tab[t].pc = "insertLink"
    /\ ~Linked(tab[t].account)
    /\ links' = [links EXCEPT ![tab[t].account] = tab[t].user]
    /\ TabTo(t, "session")
    /\ UNCHANGED <<users, verified, codeVars, browser, opened>>

\* oauthLogin: the address counts as verified, and a session is opened.
OpenSession(t) ==
    /\ tab[t].pc = "session"
    /\ verified' = verified \cup {tab[t].user}
    /\ IF tab[t].target = Absent
         THEN /\ signedIn' = tab[t].user
              /\ ClearCookie(t)
              /\ tab' = [tab EXCEPT ![t] = IdleTab]
         ELSE UNCHANGED <<signedIn, cookie>> /\ TabTo(t, "code")
    /\ UNCHANGED <<users, links, codeVars, state, opened>>

\* createOAuthLoginCode
NewCode(u, origin) ==
    /\ issued < MaxCode
    /\ issued' = issued + 1
    /\ codes' = [codes EXCEPT ![issued + 1] = [user |-> u, origin |-> origin, live |-> TRUE]]
    /\ UNCHANGED codeLock

\* The code is made for whom the browser is signed in as by then.
IssueCodeForBrowser(t) ==
    /\ tab[t].pc = "code"
    /\ signedIn # 0
    /\ NewCode(signedIn, tab[t].target)
    /\ signedIn' = tab[t].user
    /\ ClearCookie(t)
    /\ tab' = [tab EXCEPT ![t].pc = "landed", ![t].code = issued + 1]
    /\ UNCHANGED <<tables, state, opened>>

IssueCode(t) ==
    /\ tab[t].pc = "code"
    /\ NewCode(tab[t].user, tab[t].target)
    /\ signedIn' = tab[t].user
    /\ ClearCookie(t)
    /\ tab' = [tab EXCEPT ![t].pc = "landed", ![t].code = issued + 1]
    /\ UNCHANGED <<tables, state, opened>>

\* A unique index, the database or the provider refuses: the response is an
\* error, and it clears the cookie as well.
CallbackFails(t) ==
    /\ tab[t].pc \in {"link", "find", "insertUser", "insertLink", "session", "code"}
    /\ ClearCookie(t)
    /\ tab' = [tab EXCEPT ![t] = IdleTab]
    /\ UNCHANGED <<tables, codeVars, signedIn, state, opened>>

---------------------------------------------------------------------------
(* Codes                                                                   *)

\* issueOAuthCode, which the sign-in page asks for when it has a session.
IssueForApp(t, target) ==
    /\ tab[t].pc = "idle"
    /\ signedIn # 0
    /\ Resolved(target) # Absent
    /\ NewCode(signedIn, target)
    /\ tab' = [tab EXCEPT ![t] = [IdleTab EXCEPT !.pc = "landed", !.user = signedIn,
                                    !.wanted = target, !.target = target, !.code = issued + 1]]
    /\ UNCHANGED <<tables, browser, opened>>

\* Sixty seconds have passed.
LapseCode(c) ==
    /\ codes[c].live
    /\ codes' = [codes EXCEPT ![c].live = FALSE]
    /\ UNCHANGED <<tables, codeLock, issued, browser, tab, opened>>

\* A tab with a code in its address is opened a second time.
Duplicate(t, u) ==
    /\ tab[t].pc = "landed"
    /\ tab[u].pc = "idle"
    /\ tab' = [tab EXCEPT ![u] = tab[t]]
    /\ UNCHANGED <<tables, codeVars, browser, opened>>

\* A SELECT that does not lock
CodeAlwaysFree(c) == TRUE
\* FOR UPDATE
CodeFree(c) == codeLock[c] = Absent

\* consumeOAuthLoginCode: the row of the code and of the page's origin.
LockCode(t) ==
    LET c == tab[t].code
    IN /\ tab[t].pc = "landed"
       /\ CodeFree(c)
       /\ IF codes[c].live /\ codes[c].origin = tab[t].target
            THEN /\ codeLock' = [codeLock EXCEPT ![c] = t]
                 /\ TabTo(t, "delete")
            ELSE /\ tab' = [tab EXCEPT ![t] = IdleTab]
                 /\ UNCHANGED codeLock
       /\ UNCHANGED <<tables, codes, issued, browser, opened>>

DeleteCode(t) ==
    /\ tab[t].pc = "delete"
    /\ codes' = [codes EXCEPT ![tab[t].code] = NoCode]
    /\ codeLock' = [codeLock EXCEPT ![tab[t].code] = Absent]
    /\ TabTo(t, "exchange")
    /\ UNCHANGED <<tables, issued, browser, opened>>

\* createSessionForUser: the application has a session, and so has the browser.
Exchange(t) ==
    /\ tab[t].pc = "exchange"
    /\ opened' = opened \cup {[tab |-> t, code |-> tab[t].code, user |-> tab[t].user,
                               origin |-> tab[t].target]}
    /\ signedIn' = tab[t].user
    /\ tab' = [tab EXCEPT ![t].pc = "app"]
    /\ UNCHANGED <<tables, codeVars, cookie, state>>

\* The exchange fails before or after the code was deleted.
ExchangeFails(t) ==
    /\ tab[t].pc \in {"delete", "exchange"}
    /\ codeLock' = IF tab[t].pc = "delete" THEN [codeLock EXCEPT ![tab[t].code] = Absent]
                                           ELSE codeLock
    /\ tab' = [tab EXCEPT ![t] = IdleTab]
    /\ UNCHANGED <<tables, codes, issued, browser, opened>>

---------------------------------------------------------------------------
\* createUser: registration with a password.
Register(address) ==
    /\ ~Taken(Lower[address])
    /\ NextUser \in User
    /\ users' = [users EXCEPT ![NextUser] = Lower[address]]
    /\ UNCHANGED <<verified, links, codeVars, browser, tab, opened>>

\* The tab is closed or goes on to something else.
Leave(t) ==
    /\ tab[t].pc \in {"provider", "landed", "app"}
    /\ tab' = [tab EXCEPT ![t] = IdleTab]
    /\ UNCHANGED <<tables, codeVars, browser, opened>>

TabStep(t) ==
    \/ \E p \in Provider, target \in Origin \cup {Absent} : StartSignIn(t, p, target)
    \/ \E a \in Account : Authenticate(t, a)
    \/ RestoreGrant(t)
    \/ RefuseState(t)
    \/ FindLink(t)
    \/ FindUser(t)
    \/ InsertUser(t)
    \/ InsertLink(t)
    \/ OpenSession(t)
    \/ IssueCode(t)
    \/ CallbackFails(t)
    \/ \E target \in Origin : IssueForApp(t, target)
    \/ \E u \in Tab : Duplicate(t, u)
    \/ LockCode(t)
    \/ DeleteCode(t)
    \/ Exchange(t)
    \/ ExchangeFails(t)
    \/ Leave(t)

SignInNext ==
    \/ \E t \in Tab : TabStep(t)
    \/ \E p \in Provider : LapseCookie(p)
    \/ \E c \in Code : LapseCode(c)
    \/ \E e \in Address : Register(e)

SignInSpec == SignInInit /\ [][SignInNext]_signInVars

---------------------------------------------------------------------------
SignInTypeOK ==
    /\ users \in [User -> Address \cup {Absent}]
    /\ verified \subseteq {u \in User : HasRow(u)}
    /\ links \in [Account -> {0} \cup {u \in User : HasRow(u)}]
    /\ \A c \in Code : codes[c].user \in {0} \cup User /\ codes[c].origin \in Allowed \cup {Absent}
    /\ codeLock \in [Code -> Tab \cup {Absent}]
    /\ \A p \in Provider : cookie[p].target \in Allowed \cup {Absent}
    /\ signedIn \in {0} \cup {u \in User : HasRow(u)}
    /\ \A t \in Tab : tab[t].target \in Allowed \cup {Absent}

\* A sign-in that succeeds ends at the application it was started from,
\* although all tabs share one state cookie per provider and every start
\* overwrites it (oauth-state.util.ts:130-142, oauth-state.guard.ts:95-111).
LandsWhereItStarted ==
    \A t \in Tab :
        tab[t].pc \in {"link", "find", "insertUser", "insertLink", "session", "code", "landed",
                       "delete", "exchange", "app"}
            => tab[t].target = Resolved(tab[t].wanted)

\* However often a page with a code is opened, and however its exchanges
\* interleave, one session comes of it (users.service.ts:381-397).
CodesAreSpentOnce ==
    \A x, y \in opened : x.code = y.code => x = y

\* Who signs in at an application with a provider is the user that provider
\* account is linked to, whoever else signs in from another tab meanwhile.
AccountsSignInThemselves ==
    \A t \in Tab :
        /\ tab[t].pc \in {"session", "code", "landed", "delete", "exchange", "app"}
        /\ tab[t].account # Absent
        => /\ links[tab[t].account] = tab[t].user
           /\ tab[t].pc \in {"landed", "delete"} /\ codes[tab[t].code] # NoCode
                => codes[tab[t].code].user = tab[t].user

\* Accounts of different providers with the same address, spelled in lower
\* case, are one user's, although finding that user and making it are apart
\* (users.service.ts:313-336).
SameAddressSameUser ==
    \A a, b \in Account :
        /\ Linked(a) /\ Linked(b)
        /\ AddressOf[a] = AddressOf[b]
        /\ AddressOf[a] = Lower[AddressOf[a]]
        => links[a] = links[b]

\* A provider account signs in one user: the one it is linked to, who also has
\* every other provider account with the same address (users.service.ts:293-338,
\* sso.controller.ts:326-364).
AccountsKeepToTheirUser == AccountsSignInThemselves /\ SameAddressSameUser

\* There is one user for an address, however it is spelled: users.service.ts:313
\* says "Check if user exists with this email" where findByEmail looks for the
\* spelling in lower case, and an OAuth user keeps the spelling of its provider.
OneUserPerAddress ==
    \A u, v \in User :
        HasRow(u) /\ HasRow(v) /\ Lower[users[u]] = Lower[users[v]] => u = v
=============================================================================
