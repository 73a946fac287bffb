--------------------------- MODULE WalletSession ---------------------------
(***************************************************************************)
(* Who is signed in to the web front end, and on which chain, while the    *)
(* user works in MetaMask and in the page at the same time.                *)
(*                                                                         *)
(* The session is metaAddress and networkID of the store (app.js), kept in *)
(* sessionStorage.  Header.vue shows it (addrChild) and follows MetaMask:  *)
(* it asks for the chain (walletInfo), and hears accountsChanged and       *)
(* chainChanged.  The login and the upload page ask for the account (Init, *)
(* web3.js).  The router guards pages by the session.  Pages are loaded    *)
(* when they are first visited, after their guard has run.                 *)
(*                                                                         *)
(* MetaMask's answers and events reach the page in the order they are sent *)
(* (inbox).  A reload of the page forgets all that is under way.           *)
(***************************************************************************)
EXTENDS Integers, Sequences

CONSTANTS
    Accounts,    \* the user's accounts
    Mumbai,      \* the chain the site is for (80001)
    OtherChains, \* other chains the wallet may be on
    None,        \* no address, no chain, no page
    MaxChanges,  \* bound: changes in the wallet
    MaxQueue     \* bound: questions and messages under way when the user acts

Chains == OtherChains \cup {Mumbai}
Pages == {"upload", "login", "files"}      \* "files" for the pages behind the guard
Guarded == {"files", "back"}               \* "back" is supplierAllBack

ASSUME ConstantsAssumption ==
    /\ None \notin Accounts /\ None \notin Chains /\ Mumbai \notin OtherChains
    /\ None \notin Pages \cup Guarded
    /\ MaxChanges \in Nat /\ MaxQueue \in Nat

VARIABLES
    wallet,       \* MetaMask: the account shown to the site, and the chain
    changes,
    asked,        \* eth_chainId requests MetaMask has not answered
    inits,        \* who waits for eth_requestAccounts
    inbox,        \* answers and events on their way to the page
    metaAddress, networkID,   \* the session
    addrChild,    \* the address the header shows
    meta,         \* Home.vue: a login of this page is to be completed
    nav           \* the page shown, the redirect of its query, and a page being loaded

session == <<metaAddress, networkID>>
metamask == <<wallet, changes>>
vars == <<metamask, asked, inits, inbox, session, addrChild, meta, nav>>

(***************************************************************************)
(* The router.                                                             *)
(***************************************************************************)
Place(page, redirect) == [page |-> page, redirect |-> redirect]
NoPlace == Place(None, None)

\* beforeEnter: without an address the login page is shown instead.
Target(page, address) ==
    IF page \in Guarded /\ address = None THEN Place("login", page) ELSE Place(page, None)

\* The login page sends a user away who is signed in (isLogin).
Landed(place, address, network) ==
    [at |-> place,
     pending |-> IF place.page = "login" /\ address # None /\ network = Mumbai
                 THEN Place("upload", None) ELSE NoPlace]

\* The login page looks for a session when it is mounted, not when its query changes.
Shows(place, address, network) ==
    IF place.page = nav.at.page THEN [at |-> place, pending |-> NoPlace]
    ELSE Landed(place, address, network)

\* push: the page is shown at once, or when its code has been loaded; a second push replaces
\* the first; a push to the page shown does nothing else.
Push(place, address, network) ==
    IF place = nav.at THEN nav' = [nav EXCEPT !.pending = NoPlace]
    ELSE nav' \in {Shows(place, address, network), [nav EXCEPT !.pending = place]}

Init ==
    /\ wallet \in [account : Accounts, chain : Chains] /\ changes = 0
    /\ asked = 0 /\ inits = {} /\ inbox = <<>>
    /\ metaAddress = None /\ networkID = None
    /\ addrChild = None /\ meta = FALSE
    /\ nav = Landed(Place("upload", None), None, None)

(***************************************************************************)
(* MetaMask.                                                               *)
(***************************************************************************)
Send(message) == inbox' = Append(inbox, message)

Change(new, event) ==
    /\ changes < MaxChanges /\ changes' = changes + 1
    /\ wallet' = new
    /\ Send(event)
    /\ UNCHANGED <<asked, inits, session, addrChild, meta, nav>>

\* The user switches the account, or locks the wallet (None), or unlocks it.
SwitchAccount(a) ==
    /\ a # wallet.account
    /\ Change([wallet EXCEPT !.account = a], [kind |-> "accountsChanged", value |-> a])

SwitchChain(c) ==
    /\ c # wallet.chain
    /\ Change([wallet EXCEPT !.chain = c], [kind |-> "chainChanged", value |-> c])

AnswerChain ==
    /\ asked > 0 /\ asked' = asked - 1
    /\ Send([kind |-> "chain", value |-> wallet.chain])
    /\ UNCHANGED <<metamask, inits, session, addrChild, meta, nav>>

\* eth_requestAccounts: the user lets the site see the account.
AnswerAccounts(who) ==
    /\ who \in inits /\ inits' = inits \ {who}
    /\ wallet.account # None
    /\ Send([kind |-> who, value |-> wallet.account])
    /\ UNCHANGED <<metamask, asked, session, addrChild, meta, nav>>

Refuse(who) ==
    /\ who \in inits /\ inits' = inits \ {who}
    /\ UNCHANGED <<metamask, asked, inbox, session, addrChild, meta, nav>>

(***************************************************************************)
(* The page hears from MetaMask.                                           *)
(***************************************************************************)
Heard(kind) == inbox # <<>> /\ Head(inbox).kind = kind

\* walletInfo asks for the chain if the header has an address.
WalletInfo(address) == asked' = IF address = None THEN asked ELSE asked + 1

\* The page is loaded anew with the session as it is: the guard runs again, and the header
\* asks for the account if there was one.
Reload(at, address, network) ==
    /\ inbox' = <<>> /\ asked' = 0
    /\ inits' = IF address = None THEN {} ELSE {"header"}
    /\ addrChild' = None /\ meta' = FALSE
    /\ nav' = Landed(IF at.page \in Guarded THEN Target(at.page, address) ELSE at, address, network)

\* setMetaAddress and setMetaNetworkId: in the store and in sessionStorage.
SetSession(address, network) == metaAddress' = address /\ networkID' = network

\* Mutant: the session ends, the header still shows the address.
SignedOutHeaderStays(stay) ==
    /\ SetSession(None, None) /\ UNCHANGED addrChild
    /\ IF stay /\ nav.at.page = "upload" THEN UNCHANGED nav
       ELSE Push(Target("back", None), None, None)
    /\ UNCHANGED <<asked, inits, meta>>

\* signOutFun of the header stays on the upload page.
SignedOut(stay) ==
    /\ SetSession(None, None) /\ addrChild' = None
    /\ IF stay /\ nav.at.page = "upload" THEN UNCHANGED nav
       ELSE Push(Target("back", None), None, None)
    /\ UNCHANGED <<asked, inits, meta>>

\* Mutant: another account is taken over, the page is not told.
AccountsChangedQuietly ==
    LET a == Head(inbox).value
    IN /\ Heard("accountsChanged") /\ inbox' = Tail(inbox)
       /\ IF metaAddress # None /\ a # None
          THEN UNCHANGED <<session, addrChild, meta, nav, asked, inits>>
          ELSE SignedOut(TRUE)
       /\ UNCHANGED metamask

\* accountsChanged: another account of a user signed in reloads the page; else he is
\* signed out.
AccountsChanged ==
    LET a == Head(inbox).value
    IN /\ Heard("accountsChanged")
       /\ IF metaAddress # None /\ a # None
          THEN /\ SetSession(a, networkID)
               /\ Reload(nav.at, a, networkID)
          ELSE SignedOut(TRUE) /\ inbox' = Tail(inbox)
       /\ UNCHANGED metamask

\* Mutant: a new chain is not asked for.
ChainChangedUnasked ==
    /\ Heard("chainChanged") /\ inbox' = Tail(inbox)
    /\ UNCHANGED <<metamask, asked, inits, session, addrChild, meta, nav>>

ChainChanged ==
    /\ Heard("chainChanged") /\ inbox' = Tail(inbox)
    /\ WalletInfo(addrChild)
    /\ UNCHANGED <<metamask, inits, session, addrChild, meta, nav>>

\* The answer for the account.  The store's watcher gives it to the header; a page still
\* shown tells Home.vue that a login is to be completed.  The header asks for the chain (two
\* requests sent at once are one).
AccountsAnswer(who) ==
    LET a == Head(inbox).value
        asks == who = "header" \/ metaAddress # a \/ meta' # meta
    IN /\ Heard(who) /\ inbox' = Tail(inbox)
       /\ SetSession(a, networkID)
       /\ addrChild' = IF who = "header" \/ metaAddress # a THEN a ELSE addrChild
       /\ meta' = (meta \/ nav.at.page = who)
       /\ WalletInfo(IF asks THEN addrChild' ELSE None)
       /\ UNCHANGED <<metamask, inits, nav>>

\* Where a login leads to: the redirect of the login page, or the upload page.
AfterLogin ==
    IF nav.at.redirect \in {None, "back"} THEN Place("upload", None)
    ELSE Target(nav.at.redirect, metaAddress)

\* Mutant: the chain is noted, the login goes nowhere.
ChainAnswerNoted ==
    /\ Heard("chain") /\ inbox' = Tail(inbox)
    /\ networkID' = Head(inbox).value
    /\ UNCHANGED <<metamask, asked, inits, metaAddress, addrChild, meta, nav>>

\* The chain.  A login that was to be completed is, if the chain is right: the next page is
\* pushed, and unless the upload page is shown by now the page is reloaded where it is, which
\* forgets a push still loading.
ChainAnswer ==
    LET id == Head(inbox).value
        loggedIn == meta /\ id = Mumbai
        upload == Place("upload", None)
    IN /\ Heard("chain")
       /\ SetSession(metaAddress, id)
       /\ \/ /\ ~loggedIn
             /\ inbox' = Tail(inbox)
             /\ UNCHANGED <<asked, inits, addrChild, meta, nav>>
          \/ /\ loggedIn /\ AfterLogin = upload
             /\ nav' = [at |-> upload, pending |-> NoPlace] /\ meta' = FALSE
             /\ inbox' = Tail(inbox)
             /\ UNCHANGED <<asked, inits, addrChild>>
          \/ /\ loggedIn /\ nav.at.page # "upload"
             /\ \E at \in {nav.at, AfterLogin} \ {upload} : Reload(at, metaAddress, id)
       /\ UNCHANGED metamask

(***************************************************************************)
(* The user and the router.                                                *)
(***************************************************************************)
Quiet == asked = 0 /\ inbox = <<>>
Idle == asked + Len(inbox) < MaxQueue

\* signFun of the login and the upload page.  MetaMask refuses a request while it shows one.
Connect(who) ==
    /\ Idle /\ nav.at.page = who /\ metaAddress = None
    /\ inits = {} /\ inits' = {who}
    /\ UNCHANGED <<metamask, asked, inbox, session, addrChild, meta, nav>>

\* Disconnect of the header, on wide screens, and logout of the sidebar, on narrow ones.
SignOut(stay) ==
    /\ Idle /\ (stay => addrChild # None)
    /\ SignedOut(stay)
    /\ UNCHANGED <<metamask, inbox>>

\* A link of the sidebar or of the header.
Navigate(page) ==
    /\ Idle /\ (page = "login" => addrChild = None)
    /\ Push(Target(page, metaAddress), metaAddress, networkID)
    /\ UNCHANGED <<metamask, asked, inits, inbox, session, addrChild, meta>>

\* The code of a page has been loaded.
Arrive ==
    /\ nav.pending # NoPlace
    /\ nav' = Shows(nav.pending, metaAddress, networkID)
    /\ UNCHANGED <<metamask, asked, inits, inbox, session, addrChild, meta>>

\* F5, another language, a window resized over a breakpoint.
UserReload ==
    /\ Idle
    /\ Reload(nav.at, metaAddress, networkID)
    /\ UNCHANGED <<metamask, session>>

\* Connect and Disconnect of the header.
HeaderBar == Navigate("login") \/ SignOut(TRUE)

\* The menu of the sidebar, and its logout.
SideBar == SignOut(FALSE) \/ \E page \in Pages \ {"login"} : Navigate(page)

\* The alert above every page: connected, but to another chain.
Warned == metaAddress # None /\ networkID # Mumbai

Asks == {"login", "upload", "header"}
Answered == \E who \in Asks : AccountsAnswer(who)
Hear == AccountsChanged \/ ChainChanged \/ Answered \/ ChainAnswer

Next ==
    \/ \E a \in Accounts \cup {None} : SwitchAccount(a)
    \/ \E c \in Chains : SwitchChain(c)
    \/ \E who \in Asks : AnswerAccounts(who) \/ Refuse(who)
    \/ AnswerChain \/ Hear \/ Arrive
    \/ \E who \in {"login", "upload"} : Connect(who)
    \/ HeaderBar \/ SideBar \/ UserReload

Spec == Init /\ [][Next]_vars

\* MetaMask and the page go on; the user need not do anything.
FairSpec == Spec /\ WF_vars(AnswerChain) /\ WF_vars(Hear) /\ WF_vars(Arrive)

(***************************************************************************)
(* Properties.                                                             *)
(***************************************************************************)
Message == [kind : {"accountsChanged"} \cup Asks, value : Accounts \cup {None}]
           \cup [kind : {"chainChanged", "chain"}, value : Chains]
Places == [page : Pages \cup {None}, redirect : Guarded \cup {None}]

\* Types.  In particular the router never ends on supplierAllBack, which would go back to the
\* page the user was signed out of, and no page but the login page has a redirect.
TypeOK ==
    /\ wallet \in [account : Accounts \cup {None}, chain : Chains] /\ changes \in 0 .. MaxChanges
    /\ asked \in Nat /\ inits \subseteq Asks /\ inbox \in Seq(Message)
    /\ metaAddress \in Accounts \cup {None} /\ networkID \in Chains \cup {None}
    /\ addrChild \in Accounts \cup {None} /\ meta \in BOOLEAN
    /\ nav \in [at : Places, pending : Places]
    /\ nav.at.page # None
    /\ \A place \in {nav.at, nav.pending} : place.redirect # None => place.page = "login"

\* The header shows the address of the session or none: the store's watcher, the callback of
\* the header and the sign-outs of header and sidebar agree.
HeaderShowsSession == addrChild # None => addrChild = metaAddress

\* When everything asked is answered and every event is heard, the header shows the account
\* and the chain of the wallet, or no address: no event is lost that a reload does not make
\* up for, and no answer overtakes an event; then the alert tells whether the chain is
\* right.  (The pages send transactions from metaAddress when networkID is right.)
QuietHeaderIsTrue ==
    Quiet /\ addrChild # None =>
        /\ addrChild = wallet.account /\ networkID = wallet.chain
        /\ Warned <=> wallet.chain # Mumbai

\* The header always catches up with the wallet.
HeaderCatchesUp ==
    []<>(addrChild = None \/ (addrChild = wallet.account /\ networkID = wallet.chain))

\* A user who connected on the login page while his wallet is on the right chain leaves that
\* page (the page he is sent to shown or being loaded), unless he is signed out, reloads it
\* before the chain is known, or changes chain.
LoginGoesOn ==
    (meta /\ nav.at.page = "login" /\ wallet.chain = Mumbai) ~>
        \/ nav.at.page # "login" \/ nav.pending # NoPlace
        \/ wallet.chain # Mumbai \/ metaAddress = None \/ (~meta /\ networkID # Mumbai)

\* What holds of the session whatever is under way.
SessionInv == TypeOK /\ HeaderShowsSession
=============================================================================
