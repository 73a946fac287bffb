------------------------ MODULE WalletSessionProofs ------------------------
(***************************************************************************)
(* Proofs about WalletSession: whatever the wallet does and the user       *)
(* clicks while questions are under way, the header is right in the end.   *)
(*                                                                         *)
(* MetaMask's messages arrive in the order they are sent, so what the      *)
(* header will show is what the last message under way tells: the account, *)
(* if one tells an account; the chain, if one tells it, but a message that *)
(* the chain has changed makes the header ask.                             *)
(***************************************************************************)
EXTENDS WalletSession, SequenceTheorems, TLAPS

\* A place the router may show.
Shown(place) ==
    place \in Places /\ place.page # None /\ (place.redirect # None => place.page = "login")
NavOK(n) ==
    /\ n \in [at : Places, pending : Places] /\ Shown(n.at)
    /\ n.pending.redirect # None => n.pending.page = "login"

\* The messages that tell an account, and those about the chain.
AccountNews == {"accountsChanged"} \cup Asks
ChainNews == {"chainChanged", "chain"}

LastIn(q, kinds, i) ==
    /\ i \in DOMAIN q /\ q[i].kind \in kinds
    /\ \A j \in DOMAIN q : j > i => q[j].kind \notin kinds
NoneIn(q, kinds) == \A i \in DOMAIN q : q[i].kind \notin kinds

\* With the messages q under way, the last one that tells an account tells a; if there is none,
\* the header shows it.
AccountKnown(q, a, address) ==
    /\ \A i \in DOMAIN q : LastIn(q, AccountNews, i) => q[i].value = a
    /\ NoneIn(q, AccountNews) /\ address # None => address = a

\* The last one about the chain tells c, unless it is an event, which makes the header ask; if
\* there is none, the session has it.
ChainKnown(q, c, id) ==
    /\ \A i \in DOMAIN q : LastIn(q, ChainNews, i) /\ q[i].kind = "chain" => q[i].value = c
    /\ NoneIn(q, ChainNews) => id = c

WalletKnown ==
    /\ HeaderShowsSession
    /\ AccountKnown(inbox, wallet.account, addrChild)
    /\ addrChild # None /\ asked = 0 => ChainKnown(inbox, wallet.chain, networkID)

LEMMA MessageSent ==
    ASSUME NEW q \in Seq(Message), NEW m \in Message, NEW kinds
    PROVE  /\ Append(q, m) \in Seq(Message)
           /\ m.kind \in kinds => /\ ~NoneIn(Append(q, m), kinds)
                                  /\ \A i : LastIn(Append(q, m), kinds, i) => Append(q, m)[i] = m
           /\ m.kind \notin kinds => /\ NoneIn(Append(q, m), kinds) => NoneIn(q, kinds)
                                     /\ \A i : LastIn(Append(q, m), kinds, i) =>
                                           LastIn(q, kinds, i) /\ Append(q, m)[i] = q[i]
<1> DEFINE p == Append(q, m)
           n == Len(q) + 1
<1>1. /\ p \in Seq(Message) /\ DOMAIN p = DOMAIN q \cup {n} /\ n \notin DOMAIN q /\ p[n] = m
      /\ \A i \in DOMAIN q : p[i] = q[i] /\ n > i
  OBVIOUS
<1> HIDE DEF p, n
<1>2. QED
  BY <1>1 DEF NoneIn, LastIn, p

LEMMA MessageHeard ==
    ASSUME NEW q \in Seq(Message), q # <<>>, NEW kinds
    PROVE  /\ Tail(q) \in Seq(Message) /\ Head(q) \in Message /\ Head(q) = q[1]
              /\ 1 \in DOMAIN q
           /\ \A i : LastIn(Tail(q), kinds, i) => LastIn(q, kinds, i + 1) /\ Tail(q)[i] = q[i + 1]
           /\ NoneIn(Tail(q), kinds)
              => IF Head(q).kind \in kinds THEN LastIn(q, kinds, 1) ELSE NoneIn(q, kinds)
<1> DEFINE p == Tail(q)
<1>1. /\ Len(q) \in Nat /\ Len(q) > 0 /\ DOMAIN q = 1 .. Len(q)
      /\ p \in Seq(Message) /\ DOMAIN p = 1 .. (Len(q) - 1)
         /\ \A i \in DOMAIN p : p[i] = q[i + 1]
      /\ Head(q) = q[1] /\ q[1] \in Message
  OBVIOUS
<1> HIDE DEF p
<1>2. \A j \in DOMAIN q : j > 1 => j - 1 \in DOMAIN p /\ p[j - 1] = q[j]
  BY <1>1
<1>3. ASSUME NEW i, LastIn(p, kinds, i) PROVE LastIn(q, kinds, i + 1) /\ p[i] = q[i + 1]
  <2>1. i \in DOMAIN p /\ i \in Nat /\ i + 1 \in DOMAIN q /\ p[i] = q[i + 1]
    BY <1>1, <1>3 DEF LastIn
  <2>2. ASSUME NEW j \in DOMAIN q, j > i + 1 PROVE q[j].kind \notin kinds
    <3>1. j - 1 \in DOMAIN p /\ j - 1 > i /\ p[j - 1] = q[j]
      BY <1>1, <1>2, <2>1, <2>2
    <3>2. QED
      BY <1>3, <3>1 DEF LastIn
  <2>3. QED
    BY <1>3, <2>1, <2>2 DEF LastIn
<1>4. ASSUME NoneIn(p, kinds) PROVE \A j \in DOMAIN q : j > 1 => q[j].kind \notin kinds
  BY <1>2, <1>4 DEF NoneIn
<1>5. ASSUME NoneIn(p, kinds)
      PROVE  IF Head(q).kind \in kinds THEN LastIn(q, kinds, 1) ELSE NoneIn(q, kinds)
  <2>1. CASE Head(q).kind \in kinds
    BY <1>1, <1>4, <1>5, <2>1 DEF LastIn
  <2>2. CASE Head(q).kind \notin kinds
    <3>1. \A j \in DOMAIN q : j = 1 \/ j > 1
      BY <1>1
    <3>2. QED
      BY <1>1, <1>4, <1>5, <2>2, <3>1 DEF NoneIn
  <2>3. QED
    BY <2>1, <2>2
<1>6. \A i : LastIn(p, kinds, i) => LastIn(q, kinds, i + 1) /\ p[i] = q[i + 1]
  BY <1>3
<1>7. 1 \in DOMAIN q
  BY <1>1
<1>8. QED
  BY <1>1, <1>5, <1>6, <1>7, Zenon DEF p

\* A message is sent with what the wallet has by then, or tells nothing of it.
LEMMA AccountSent ==
    ASSUME NEW q \in Seq(Message), NEW m \in Message, NEW a, NEW old, NEW address,
           IF m.kind \in AccountNews THEN m.value = a ELSE old = a, AccountKnown(q, old, address)
    PROVE  AccountKnown(Append(q, m), a, address)
<1> DEFINE p == Append(q, m)
<1>1. m.kind \in AccountNews =>
        ~NoneIn(p, AccountNews) /\ \A i : LastIn(p, AccountNews, i) => p[i] = m
  BY MessageSent
<1>2. m.kind \notin AccountNews =>
        /\ NoneIn(p, AccountNews) => NoneIn(q, AccountNews)
        /\ \A i : LastIn(p, AccountNews, i) => LastIn(q, AccountNews, i) /\ p[i] = q[i]
  BY MessageSent
<1> HIDE DEF p
<1>3. \A i : LastIn(q, AccountNews, i) => i \in DOMAIN q
  BY DEF LastIn
<1>4. CASE m.kind \in AccountNews
  BY <1>1, <1>4 DEF AccountKnown, p
<1>5. CASE m.kind \notin AccountNews
  BY <1>2, <1>3, <1>5 DEF AccountKnown, p
<1>6. QED
  BY <1>4, <1>5

LEMMA ChainSent ==
    ASSUME NEW q \in Seq(Message), NEW m \in Message, NEW c, NEW old, NEW id,
           \/ m.kind = "chainChanged"
           \/ m.kind = "chain" /\ m.value = c
           \/ m.kind \notin ChainNews /\ c = old /\ ChainKnown(q, old, id)
    PROVE  ChainKnown(Append(q, m), c, id)
<1> DEFINE p == Append(q, m)
<1>1. m.kind \in ChainNews =>
        ~NoneIn(p, ChainNews) /\ \A i : LastIn(p, ChainNews, i) => p[i] = m
  BY MessageSent
<1>2. m.kind \notin ChainNews =>
        /\ NoneIn(p, ChainNews) => NoneIn(q, ChainNews)
        /\ \A i : LastIn(p, ChainNews, i) => LastIn(q, ChainNews, i) /\ p[i] = q[i]
  BY MessageSent
<1> HIDE DEF p
<1>3. \A i : LastIn(q, ChainNews, i) => i \in DOMAIN q
  BY DEF LastIn
<1>4. CASE m.kind \in ChainNews
  <2>1. m.kind = "chain" => m.value = c
    BY <1>4 DEF ChainNews
  <2>2. QED
    BY <1>1, <1>4, <2>1 DEF ChainKnown, p
<1>5. CASE m.kind \notin ChainNews
  <2>1. c = old /\ ChainKnown(q, old, id)
    BY <1>5 DEF ChainNews
  <2>2. QED
    BY <1>2, <1>3, <1>5, <2>1 DEF ChainKnown, p
<1>6. QED
  BY <1>4, <1>5

\* The account told takes the place of the one shown.
LEMMA AccountHeard ==
    ASSUME NEW q \in Seq(Message), q # <<>>, NEW a, NEW old, NEW address,
           AccountKnown(q, a, old),
           IF Head(q).kind \in AccountNews THEN address \in {None, Head(q).value}
                                         ELSE address \in {None, old}
    PROVE  AccountKnown(Tail(q), a, address)
<1> DEFINE p == Tail(q)
<1>1. \A i : LastIn(p, AccountNews, i) => LastIn(q, AccountNews, i + 1) /\ p[i] = q[i + 1]
  BY MessageHeard
<1>2. NoneIn(p, AccountNews) =>
        IF Head(q).kind \in AccountNews THEN LastIn(q, AccountNews, 1) ELSE NoneIn(q, AccountNews)
  BY MessageHeard
<1>3. Head(q) = q[1]
  BY MessageHeard
<1> HIDE DEF p
<1>4. \A i \in DOMAIN q : LastIn(q, AccountNews, i) => q[i].value = a
  BY DEF AccountKnown
<1>5. \A i : LastIn(q, AccountNews, i) => i \in DOMAIN q
  BY DEF LastIn
<1>6. \A i \in DOMAIN p : LastIn(p, AccountNews, i) => p[i].value = a
  BY <1>1, <1>4, <1>5
<1>7. NoneIn(p, AccountNews) /\ address # None => address = a
  BY <1>2, <1>3, <1>4, <1>5 DEF AccountKnown
<1>8. QED
  BY <1>6, <1>7 DEF AccountKnown, p

LEMMA ChainHeard ==
    ASSUME NEW q \in Seq(Message), q # <<>>, NEW c, NEW old, NEW id, ChainKnown(q, c, old),
           Head(q).kind # "chainChanged",
           IF Head(q).kind = "chain" THEN id = Head(q).value ELSE id = old
    PROVE  ChainKnown(Tail(q), c, id)
<1> DEFINE p == Tail(q)
<1>1. \A i : LastIn(p, ChainNews, i) => LastIn(q, ChainNews, i + 1) /\ p[i] = q[i + 1]
  BY MessageHeard
<1>2. NoneIn(p, ChainNews) =>
        IF Head(q).kind \in ChainNews THEN LastIn(q, ChainNews, 1) ELSE NoneIn(q, ChainNews)
  BY MessageHeard
<1>3. Head(q) = q[1] /\ 1 \in DOMAIN q
  BY MessageHeard
<1> HIDE DEF p
<1>4. \A i \in DOMAIN q : LastIn(q, ChainNews, i) /\ q[i].kind = "chain" => q[i].value = c
  BY DEF ChainKnown
<1>5. \A i : LastIn(q, ChainNews, i) => i \in DOMAIN q
  BY DEF LastIn
<1>6. \A i \in DOMAIN p : LastIn(p, ChainNews, i) /\ p[i].kind = "chain" => p[i].value = c
  BY <1>1, <1>4, <1>5
<1>7. ASSUME NoneIn(p, ChainNews) PROVE id = c
  <2>1. CASE Head(q).kind = "chain"
    BY <1>2, <1>3, <1>4, <1>7, <2>1 DEF ChainNews
  <2>2. CASE Head(q).kind # "chain"
    BY <1>2, <1>7, <2>2 DEF ChainNews, ChainKnown
  <2>3. QED
    BY <2>1, <2>2
<1>8. QED
  BY <1>6, <1>7 DEF ChainKnown, p

\* The types of all but the router.
WalletTypes ==
    /\ wallet \in [account : Accounts \cup {None}, chain : Chains]
       /\ changes \in 0 .. MaxChanges
    /\ asked \in Nat /\ inits \subseteq Asks /\ inbox \in Seq(Message)
    /\ metaAddress \in Accounts \cup {None} /\ networkID \in Chains \cup {None}
    /\ addrChild \in Accounts \cup {None} /\ meta \in BOOLEAN

LEMMA TypesSplit == TypeOK <=> WalletTypes /\ NavOK(nav)
<1>1. TypeOK => WalletTypes /\ NavOK(nav)
  BY DEF TypeOK, WalletTypes, NavOK, Shown, Places
<1>2. WalletTypes /\ NavOK(nav) => TypeOK
  BY DEF TypeOK, WalletTypes, NavOK, Shown
<1>3. QED
  BY <1>1, <1>2

(* The router.                                                              *)
LEMMA TargetShown ==
    ASSUME NEW p, NEW address,
           p \in Pages \/ (address = None /\ p \in Guarded)
    PROVE  Shown(Target(p, address))
<1>1. None \notin Pages \cup Guarded
  BY ConstantsAssumption
<1>2. CASE p \in Guarded /\ address = None
  BY <1>1, <1>2 DEF Target, Place, Shown, Places, Pages
<1>3. CASE ~(p \in Guarded /\ address = None)
  BY <1>1, <1>3 DEF Target, Place, Shown, Places
<1>4. QED
  BY <1>2, <1>3

LEMMA LandedOK ==
    ASSUME NEW place, Shown(place), NEW address, NEW id
    PROVE  NavOK(Landed(place, address, id))
           /\ NavOK([at |-> place, pending |-> NoPlace])
<1> DEFINE upload == Place("upload", None)
<1>1. /\ upload \in Places /\ upload.redirect = None
      /\ NoPlace \in Places /\ NoPlace.redirect = None
         /\ place \in Places
  BY DEF NoPlace, Place, Places, Pages, Shown
<1> HIDE DEF upload
<1>2. ASSUME NEW pending \in Places, pending.redirect = None
      PROVE  NavOK([at |-> place, pending |-> pending])
  BY <1>1, <1>2 DEF NavOK
<1>3. Landed(place, address, id) \in
        {[at |-> place, pending |-> upload], [at |-> place, pending |-> NoPlace]}
  BY DEF Landed, upload
<1>4. QED
  BY <1>1, <1>2, <1>3

LEMMA PushOK ==
    ASSUME NavOK(nav), NEW place, Shown(place), NEW address, NEW id,
           Push(place, address, id)
    PROVE  NavOK(nav')
<1>1. NoPlace \in Places /\ NoPlace.redirect = None
      /\ place \in Places
  BY DEF NoPlace, Place, Places, Shown
<1>2. ASSUME NEW pending \in Places, pending.redirect # None => pending.page = "login"
      PROVE  NavOK([nav EXCEPT !.pending = pending])
  BY <1>1, <1>2 DEF NavOK
<1>3. nav' \in {[nav EXCEPT !.pending = NoPlace], [nav EXCEPT !.pending = place],
                [at |-> place, pending |-> NoPlace], Landed(place, address, id)}
  BY DEF Push, Shows
<1>4. NavOK([at |-> place, pending |-> NoPlace])
      /\ NavOK(Landed(place, address, id))
  BY LandedOK
<1>5. NavOK([nav EXCEPT !.pending = NoPlace]) /\ NavOK([nav EXCEPT !.pending = place])
  BY <1>1, <1>2 DEF Shown
<1>6. QED
  BY <1>3, <1>4, <1>5

LEMMA ReloadOK ==
    ASSUME WalletTypes, NEW at, Shown(at),
           NEW address, NEW id, Reload(at, address, id)
    PROVE  NavOK(nav')
<1> DEFINE target == IF at.page \in Guarded THEN Target(at.page, address) ELSE at
<1>1. at.page \in Pages
  BY DEF Shown, Places
<1>2. Shown(target)
  BY <1>1, TargetShown
<1>3. nav' = Landed(target, address, id)
  BY DEF Reload
<1> HIDE DEF target
<1>4. QED
  BY <1>2, <1>3, LandedOK

\* A sign-out ends on the login page or stays on the upload page; the header shows nothing.
LEMMA SignedOutOK ==
    ASSUME NavOK(nav), NEW stay, SignedOut(stay)
    PROVE  NavOK(nav')
<1>1. Shown(Target("back", None))
  BY TargetShown DEF Guarded
<1>2. nav' = nav \/ Push(Target("back", None), None, None)
  BY DEF SignedOut
<1>3. CASE nav' = nav
  BY <1>3
<1>4. CASE Push(Target("back", None), None, None)
  BY <1>1, <1>4, PushOK
<1>5. QED
  BY <1>2, <1>3, <1>4

(* The steps.                                                               *)
SessionSound == WalletTypes /\ NavOK(nav) /\ WalletKnown

\* Nothing that tells of the wallet moves.
LEMMA StillKnown ==
    ASSUME SessionSound,
           UNCHANGED <<wallet, changes, asked, inbox, metaAddress, networkID, addrChild>>,
           inits' \subseteq Asks, meta' \in BOOLEAN, NavOK(nav')
    PROVE  SessionSound'
<1>1. WalletTypes'
  BY DEF SessionSound, WalletTypes
<1>2. WalletKnown'
  BY DEF SessionSound, WalletKnown, HeaderShowsSession
<1>3. NavOK(nav)'
  OBVIOUS
<1>4. QED
  BY <1>1, <1>2, <1>3 DEF SessionSound

\* A header without an address shows nothing untrue.
LEMMA EmptyHeader ==
    ASSUME AccountKnown(inbox', wallet.account', None), addrChild' = None
    PROVE  WalletKnown'
BY DEF WalletKnown, HeaderShowsSession

LEMMA ReloadKnown ==
    ASSUME SessionSound, NEW at, Shown(at),
           NEW address \in Accounts \cup {None}, NEW id \in Chains \cup {None},
           SetSession(address, id), Reload(at, address, id),
           UNCHANGED metamask
    PROVE  SessionSound'
<1>1. /\ inbox' = <<>> /\ asked' = 0 /\ inits' \subseteq {"header"} /\ addrChild' = None
         /\ meta' = FALSE
      /\ metaAddress' = address /\ networkID' = id /\ UNCHANGED <<wallet, changes>>
  BY DEF Reload, SetSession, metamask
<1>2. WalletTypes'
  <2>1. inbox' \in Seq(Message) /\ asked' \in Nat /\ inits' \subseteq Asks
    BY <1>1 DEF Asks
  <2>2. QED
    BY <1>1, <2>1 DEF SessionSound, WalletTypes
<1>3. NavOK(nav)'
  BY ReloadOK DEF SessionSound
<1>4. AccountKnown(<<>>, wallet.account', None)
  BY DEF AccountKnown
<1>5. WalletKnown'
  BY <1>1, <1>4, EmptyHeader
<1>6. QED
  BY <1>2, <1>3, <1>5 DEF SessionSound

\* MetaMask tells what it has by then.
LEMMA MetaMaskStep ==
    ASSUME SessionSound,
           \/ \E a \in Accounts \cup {None} : SwitchAccount(a)
           \/ \E c \in Chains : SwitchChain(c)
           \/ AnswerChain
           \/ \E who \in Asks : AnswerAccounts(who)
    PROVE  SessionSound'
<1>1. /\ WalletTypes /\ NavOK(nav) /\ HeaderShowsSession
         /\ AccountKnown(inbox, wallet.account, addrChild)
      /\ addrChild # None /\ asked = 0 => ChainKnown(inbox, wallet.chain, networkID)
  BY DEF SessionSound, WalletKnown
<1>2. /\ wallet.account \in Accounts \cup {None} /\ wallet.chain \in Chains
         /\ inbox \in Seq(Message)
      /\ changes < MaxChanges => changes + 1 \in 0 .. MaxChanges
  BY <1>1, ConstantsAssumption DEF WalletTypes
<1>3. ASSUME NEW m \in Message, inbox' = Append(inbox, m),
             wallet' \in [account : Accounts \cup {None}, chain : Chains],
             changes' \in 0 .. MaxChanges, asked' \in Nat, inits' \subseteq Asks,
             UNCHANGED <<session, addrChild, meta, nav>>,
             IF m.kind \in AccountNews THEN m.value = wallet'.account
             ELSE wallet'.account = wallet.account,
             asked' = 0 =>
                 \/ m.kind = "chainChanged"
                 \/ m.kind = "chain" /\ m.value = wallet'.chain
                 \/ m.kind \notin ChainNews /\ wallet'.chain = wallet.chain /\ asked = 0
      PROVE  SessionSound'
  <2>1. inbox' \in Seq(Message)
    BY <1>2, <1>3
  <2>2. WalletTypes' /\ NavOK(nav)' /\ HeaderShowsSession'
    BY <1>1, <1>3, <2>1 DEF WalletTypes, session, HeaderShowsSession
  <2>3. AccountKnown(Append(inbox, m), wallet'.account, addrChild)
    BY <1>1, <1>2, <1>3, AccountSent
  <2>4. ASSUME addrChild # None, asked' = 0
        PROVE  ChainKnown(Append(inbox, m), wallet'.chain, networkID)
    BY <1>1, <1>2, <1>3, <2>4, ChainSent
  <2>5. addrChild' = addrChild /\ networkID' = networkID
    BY <1>3 DEF session
  <2>6. AccountKnown(inbox, wallet.account, addrChild)'
    BY <1>3, <2>3, <2>5
  <2>7. (addrChild # None /\ asked = 0 => ChainKnown(inbox, wallet.chain, networkID))'
    BY <1>3, <2>4, <2>5
  <2>8. QED
    BY <2>2, <2>6, <2>7 DEF SessionSound, WalletKnown
<1>4. ASSUME NEW a \in Accounts \cup {None}, SwitchAccount(a) PROVE SessionSound'
  <2> DEFINE m == [kind |-> "accountsChanged", value |-> a]
  <2>1. m \in Message /\ m.kind = "accountsChanged" /\ m.value = a
    BY DEF Message
  <2>2. /\ inbox' = Append(inbox, m) /\ wallet' = [wallet EXCEPT !.account = a]
        /\ changes' = changes + 1 /\ changes < MaxChanges
        /\ UNCHANGED <<asked, inits, session, addrChild, meta, nav>>
    BY <1>4 DEF SwitchAccount, Change, Send
  <2>3. /\ wallet' \in [account : Accounts \cup {None}, chain : Chains]
        /\ wallet'.account = a /\ wallet'.chain = wallet.chain
    BY <1>1, <2>2 DEF WalletTypes
  <2>4. changes' \in 0 .. MaxChanges /\ asked' \in Nat /\ inits' \subseteq Asks
        /\ asked' = asked
    BY <1>1, <1>2, <2>2 DEF WalletTypes
  <2>5. "accountsChanged" \in AccountNews /\ "accountsChanged" \notin ChainNews
    BY DEF AccountNews, ChainNews
  <2> HIDE DEF m
  <2>6. QED
    BY <1>3, <2>1, <2>2, <2>3, <2>4, <2>5
<1>5. ASSUME NEW c \in Chains, SwitchChain(c) PROVE SessionSound'
  <2> DEFINE m == [kind |-> "chainChanged", value |-> c]
  <2>1. m \in Message /\ m.kind = "chainChanged"
    BY DEF Message
  <2>2. /\ inbox' = Append(inbox, m) /\ wallet' = [wallet EXCEPT !.chain = c]
        /\ changes' = changes + 1 /\ changes < MaxChanges
        /\ UNCHANGED <<asked, inits, session, addrChild, meta, nav>>
    BY <1>5 DEF SwitchChain, Change, Send
  <2>3. /\ wallet' \in [account : Accounts \cup {None}, chain : Chains]
        /\ wallet'.account = wallet.account
    BY <1>1, <2>2 DEF WalletTypes
  <2>4. changes' \in 0 .. MaxChanges /\ asked' \in Nat /\ inits' \subseteq Asks
    BY <1>1, <1>2, <2>2 DEF WalletTypes
  <2>5. "chainChanged" \notin AccountNews
    BY DEF AccountNews, Asks
  <2> HIDE DEF m
  <2>6. QED
    BY <1>3, <2>1, <2>2, <2>3, <2>4, <2>5
<1>6. CASE AnswerChain
  <2> DEFINE m == [kind |-> "chain", value |-> wallet.chain]
  <2>1. m \in Message /\ m.kind = "chain" /\ m.value = wallet.chain
    BY <1>2 DEF Message
  <2>2. /\ inbox' = Append(inbox, m) /\ wallet' = wallet /\ changes' = changes
        /\ asked' = asked - 1 /\ asked > 0
        /\ UNCHANGED <<inits, session, addrChild, meta, nav>>
    BY <1>6 DEF AnswerChain, Send, metamask
  <2>3. /\ wallet' \in [account : Accounts \cup {None}, chain : Chains]
        /\ changes' \in 0 .. MaxChanges /\ asked' \in Nat /\ inits' \subseteq Asks
    BY <1>1, <1>2, <2>2 DEF WalletTypes
  <2>4. "chain" \notin AccountNews
    BY DEF AccountNews, Asks
  <2> HIDE DEF m
  <2>5. QED
    BY <1>3, <2>1, <2>2, <2>3, <2>4
<1>7. ASSUME NEW who \in Asks, AnswerAccounts(who) PROVE SessionSound'
  <2> DEFINE m == [kind |-> who, value |-> wallet.account]
  <2>1. m \in Message /\ m.kind = who /\ m.value = wallet.account
    BY <1>2 DEF Message
  <2>2. /\ inbox' = Append(inbox, m) /\ wallet' = wallet /\ changes' = changes
           /\ asked' = asked
        /\ inits' = inits \ {who}
        /\ UNCHANGED <<session, addrChild, meta, nav>>
    BY <1>7 DEF AnswerAccounts, Send, metamask
  <2>3. /\ wallet' \in [account : Accounts \cup {None}, chain : Chains]
        /\ changes' \in 0 .. MaxChanges /\ asked' \in Nat /\ inits' \subseteq Asks
    BY <1>1, <1>2, <2>2 DEF WalletTypes
  <2>4. who \in AccountNews /\ who \notin ChainNews
    BY <1>7 DEF AccountNews, ChainNews, Asks
  <2> HIDE DEF m
  <2>5. QED
    BY <1>3, <2>1, <2>2, <2>3, <2>4
<1>8. QED
  BY <1>4, <1>5, <1>6, <1>7

\* The page hears a message.
LEMMA HearStep ==
    ASSUME SessionSound, Hear
    PROVE  SessionSound'
<1> DEFINE h == Head(inbox)
           rest == Tail(inbox)
<1>1. /\ WalletTypes /\ NavOK(nav) /\ HeaderShowsSession
         /\ AccountKnown(inbox, wallet.account, addrChild)
      /\ addrChild # None /\ asked = 0 => ChainKnown(inbox, wallet.chain, networkID)
  BY DEF SessionSound, WalletKnown
<1>2. inbox \in Seq(Message) /\ inbox # <<>> /\ asked \in Nat
  BY <1>1 DEF WalletTypes, Hear, AccountsChanged, ChainChanged,
     Answered, AccountsAnswer, ChainAnswer, Heard
<1>3. h \in Message /\ rest \in Seq(Message)
  BY <1>2, MessageHeard
<1>4. /\ h.kind \in AccountNews => h.value \in Accounts \cup {None}
      /\ h.kind = "chain" => h.value \in Chains
  BY <1>3 DEF Message, AccountNews, Asks
<1>5. /\ "accountsChanged" \in AccountNews /\ "chain" \notin AccountNews
         /\ "chainChanged" \notin AccountNews
      /\ Asks \subseteq AccountNews /\ \A who \in Asks : who \notin ChainNews
      /\ "accountsChanged" \notin ChainNews
  BY DEF AccountNews, ChainNews, Asks
<1>6. ASSUME UNCHANGED metamask, AccountKnown(inbox', wallet.account, addrChild'),
             addrChild' # None /\ asked' = 0 => ChainKnown(inbox', wallet.chain, networkID'),
             addrChild' # None => addrChild' = metaAddress'
      PROVE  WalletKnown'
  BY <1>6 DEF WalletKnown, HeaderShowsSession, metamask
<1>7. CASE AccountsChanged
  <2>1. h.kind = "accountsChanged"
    BY <1>7 DEF AccountsChanged, Heard
  <2>2. CASE metaAddress # None /\ h.value # None
    <3>1. SetSession(h.value, networkID) /\ Reload(nav.at, h.value, networkID)
          /\ UNCHANGED metamask
      BY <1>7, <2>2 DEF AccountsChanged
    <3>2. h.value \in Accounts \cup {None} /\ networkID \in Chains \cup {None}
          /\ Shown(nav.at)
      BY <1>1, <1>4, <1>5, <2>1 DEF WalletTypes, NavOK
    <3> HIDE DEF h
    <3>3. QED
      BY <3>1, <3>2, ReloadKnown
  <2>3. CASE ~(metaAddress # None /\ h.value # None)
    <3>1. SignedOut(TRUE) /\ inbox' = rest /\ UNCHANGED metamask
      BY <1>7, <2>3 DEF AccountsChanged
    <3>2. /\ metaAddress' = None /\ networkID' = None /\ addrChild' = None
          /\ UNCHANGED <<asked, inits, meta, wallet, changes>>
      BY <3>1 DEF SignedOut, SetSession, metamask
    <3>3. NavOK(nav)'
      BY <1>1, <3>1, SignedOutOK
    <3>4. AccountKnown(rest, wallet.account, None)
      BY <1>1, <1>2, AccountHeard
    <3> HIDE DEF h, rest
    <3>5. WalletTypes'
      BY <1>1, <1>3, <3>1, <3>2 DEF WalletTypes
    <3>6. WalletKnown'
      BY <1>6, <3>1, <3>2, <3>4
    <3>7. QED
      BY <3>3, <3>5, <3>6 DEF SessionSound
  <2>4. QED
    BY <2>2, <2>3
<1>8. CASE ChainChanged
  <2>1. /\ h.kind = "chainChanged" /\ inbox' = rest
           /\ asked' = IF addrChild = None THEN asked ELSE asked + 1
        /\ UNCHANGED <<wallet, changes, inits, metaAddress, networkID, addrChild, meta, nav,
           metamask>>
    BY <1>8 DEF ChainChanged, Heard, WalletInfo, metamask,
       session
  <2>2. AccountKnown(rest, wallet.account, addrChild)
    BY <1>1, <1>2, <1>5, <2>1, AccountHeard
  <2> HIDE DEF h, rest
  <2>3. WalletTypes' /\ NavOK(nav)'
    BY <1>1, <1>3, <2>1 DEF WalletTypes
  <2>4. WalletKnown'
    <3>1. addrChild' # None => asked' # 0
      BY <1>2, <2>1
    <3>2. addrChild' # None => addrChild' = metaAddress'
      BY <1>1, <2>1 DEF HeaderShowsSession
    <3>3. QED
      BY <1>6, <2>1, <2>2, <3>1, <3>2
  <2>5. QED
    BY <2>3, <2>4 DEF SessionSound
<1>9. ASSUME NEW who \in Asks, AccountsAnswer(who) PROVE SessionSound'
  <2> DEFINE asks == who = "header" \/ metaAddress # h.value \/ meta' # meta
  <2>1. /\ h.kind = who /\ inbox' = rest /\ metaAddress' = h.value /\ networkID' = networkID
        /\ addrChild' = IF who = "header" \/ metaAddress # h.value THEN h.value ELSE addrChild
        /\ meta' = (meta \/ nav.at.page = who)
        /\ WalletInfo(IF asks THEN addrChild' ELSE None)
        /\ UNCHANGED <<wallet, changes, inits, nav, metamask>>
    BY <1>9 DEF AccountsAnswer, Heard, SetSession, metamask
  <2>2. ~asks => addrChild' = addrChild
    BY <2>1
  <2>3. asks /\ addrChild' # None => asked' = asked + 1
    BY <2>1 DEF WalletInfo
  <2>4. ~asks \/ addrChild' = None => asked' = asked
    BY <2>1 DEF WalletInfo
  <2> HIDE DEF asks
  <2>5. addrChild' \in {None, h.value}
    BY <1>1, <2>1 DEF HeaderShowsSession
  <2>6. AccountKnown(rest, wallet.account, addrChild')
    BY <1>1, <1>2, <1>5, <2>1, <2>5, AccountHeard
  <2>7. asked = 0 /\ addrChild # None => ChainKnown(rest, wallet.chain, networkID)
    BY <1>1, <1>2, <1>5, <2>1, ChainHeard DEF ChainNews
  <2>8. h.value \in Accounts \cup {None}
    BY <1>4, <1>5, <2>1
  <2> HIDE DEF h, rest
  <2>9. WalletTypes' /\ NavOK(nav)'
    <3>1. asked' \in Nat
      BY <1>2, <2>3, <2>4
    <3>2. meta' \in BOOLEAN
      BY <2>1
    <3>3. QED
      BY <1>1, <1>3, <2>1, <2>5, <2>8, <3>1, <3>2 DEF WalletTypes
  <2>10. WalletKnown'
    <3>1. addrChild' # None /\ asked' = 0 => ChainKnown(rest, wallet.chain, networkID)
      BY <1>2, <2>2, <2>3, <2>4, <2>7
    <3>2. addrChild' # None => addrChild' = metaAddress'
      BY <2>1, <2>5
    <3>3. QED
      BY <1>6, <2>1, <2>6, <3>1, <3>2
  <2>11. QED
    BY <2>9, <2>10 DEF SessionSound
<1>10. CASE ChainAnswer
  <2>1. /\ h.kind = "chain" /\ SetSession(metaAddress, h.value)
           /\ UNCHANGED metamask
    BY <1>10 DEF ChainAnswer, Heard
  <2>2. metaAddress \in Accounts \cup {None} /\ h.value \in Chains \cup {None}
        /\ Shown(nav.at)
    BY <1>1, <1>4, <2>1 DEF WalletTypes, NavOK
  <2>3. ASSUME inbox' = rest, UNCHANGED <<asked, inits, addrChild>>, meta' \in BOOLEAN,
               NavOK(nav')
        PROVE  SessionSound'
    <3>1. AccountKnown(rest, wallet.account, addrChild)
      BY <1>1, <1>2, <1>5, <2>1, AccountHeard
    <3>2. ASSUME addrChild # None, asked = 0 PROVE ChainKnown(rest, wallet.chain, h.value)
      BY <1>1, <1>2, <2>1, <3>2, ChainHeard
    <3> HIDE DEF h, rest
    <3>3. metaAddress' = metaAddress /\ networkID' = h.value /\ UNCHANGED <<wallet, changes>>
      BY <2>1 DEF SetSession, metamask
    <3>4. WalletTypes' /\ NavOK(nav)'
      BY <1>1, <1>3, <2>2, <2>3, <3>3 DEF WalletTypes
    <3>5. WalletKnown'
      <4>1. addrChild' # None => addrChild' = metaAddress'
        BY <1>1, <2>3, <3>3 DEF HeaderShowsSession
      <4>2. addrChild' # None /\ asked' = 0 => ChainKnown(inbox', wallet.chain, networkID')
        BY <2>3, <3>2, <3>3
      <4>3. QED
        BY <1>6, <2>1, <2>3, <3>1, <4>1, <4>2
    <3>6. QED
      BY <3>4, <3>5 DEF SessionSound
  <2>4. CASE inbox' = rest /\ UNCHANGED <<asked, inits, addrChild, meta, nav>>
    BY <1>1, <2>3, <2>4 DEF WalletTypes
  <2>5. CASE /\ nav' = [at |-> Place("upload", None), pending |-> NoPlace]
                /\ meta' = FALSE
             /\ inbox' = rest /\ UNCHANGED <<asked, inits, addrChild>>
    <3>1. Shown(Place("upload", None))
      BY TargetShown DEF Target, Pages, Guarded
    <3>2. NavOK([at |-> Place("upload", None), pending |-> NoPlace])
      BY <3>1, LandedOK
    <3>3. QED
      BY <2>3, <2>5, <3>2
  <2>6. CASE \E at \in {nav.at, AfterLogin} : Reload(at, metaAddress, h.value)
    <3>1. Shown(AfterLogin)
      <4>1. CASE nav.at.redirect \in {None, "back"}
        BY <4>1, TargetShown DEF AfterLogin, Target, Pages, Guarded
      <4>2. CASE nav.at.redirect \notin {None, "back"}
        <5>1. nav.at.redirect \in Pages
          BY <1>1, <4>2 DEF NavOK, Places, Pages, Guarded
        <5>2. QED
          BY <4>2, <5>1, TargetShown DEF AfterLogin
      <4>3. QED
        BY <4>1, <4>2
    <3>2. PICK at \in {nav.at, AfterLogin} : Reload(at, metaAddress, h.value)
      BY <2>6
    <3>3. Shown(at)
      BY <2>2, <3>1, <3>2
    <3> HIDE DEF h
    <3>4. QED
      BY <2>1, <2>2, <3>2, <3>3, ReloadKnown
  <2>7. QED
    BY <1>10, <2>4, <2>5, <2>6 DEF ChainAnswer
<1>11. QED
  BY <1>7, <1>8, <1>9, <1>10 DEF Hear, Answered

\* The user signs out.
LEMMA SignOutStep ==
    ASSUME SessionSound, NEW stay, SignOut(stay)
    PROVE  SessionSound'
<1>1. SignedOut(stay) /\ UNCHANGED <<wallet, changes, inbox>>
  BY DEF SignOut, metamask
<1>2. /\ metaAddress' = None /\ networkID' = None /\ addrChild' = None
      /\ UNCHANGED <<asked, inits, meta>>
  BY <1>1 DEF SignedOut, SetSession
<1>3. WalletTypes'
  BY <1>1, <1>2 DEF SessionSound, WalletTypes
<1>4. NavOK(nav)'
  BY <1>1, SignedOutOK DEF SessionSound
<1>5. AccountKnown(inbox, wallet.account, None)
  BY DEF SessionSound, WalletKnown, AccountKnown
<1>6. WalletKnown'
  BY <1>1, <1>2, <1>5, EmptyHeader
<1>7. QED
  BY <1>3, <1>4, <1>6 DEF SessionSound

LEMMA SessionStep ==
    ASSUME SessionSound, [Next]_vars
    PROVE  SessionSound'
<1>1. WalletTypes /\ NavOK(nav) /\ Shown(nav.at) /\ inits \subseteq Asks /\ meta \in BOOLEAN
  BY DEF SessionSound, WalletTypes, NavOK
<1>2. CASE \/ \E a \in Accounts \cup {None} : SwitchAccount(a)
           \/ \E c \in Chains : SwitchChain(c)
           \/ AnswerChain
           \/ \E who \in Asks : AnswerAccounts(who)
  BY <1>2, MetaMaskStep
<1>3. ASSUME NEW who \in Asks, Refuse(who) PROVE SessionSound'
  <2>1. inits' \subseteq Asks
        /\ UNCHANGED <<wallet, changes, asked, inbox, metaAddress, networkID, addrChild, meta,
           nav>>
    BY <1>1, <1>3 DEF Refuse, metamask, session
  <2>2. QED
    BY <1>1, <2>1, StillKnown
<1>4. ASSUME NEW who \in {"login", "upload"}, Connect(who) PROVE SessionSound'
  <2>1. inits' \subseteq Asks
        /\ UNCHANGED <<wallet, changes, asked, inbox, metaAddress, networkID, addrChild, meta,
           nav>>
    BY <1>4 DEF Connect, metamask, session, Asks
  <2>2. QED
    BY <1>1, <2>1, StillKnown
<1>5. ASSUME NEW p \in Pages, Navigate(p) PROVE SessionSound'
  <2>1. /\ Push(Target(p, metaAddress), metaAddress, networkID)
        /\ UNCHANGED <<wallet, changes, asked, inits, inbox, metaAddress, networkID, addrChild,
           meta>>
    BY <1>5 DEF Navigate, metamask, session
  <2>2. NavOK(nav')
    BY <1>1, <2>1, TargetShown, PushOK
  <2>3. QED
    BY <1>1, <2>1, <2>2, StillKnown
<1>6. CASE Arrive
  <2>1. /\ nav.pending # NoPlace
           /\ nav' = Shows(nav.pending, metaAddress, networkID)
        /\ UNCHANGED <<wallet, changes, asked, inits, inbox, metaAddress, networkID, addrChild,
           meta>>
    BY <1>6 DEF Arrive, metamask, session
  <2>2. Shown(nav.pending)
    <3>1. nav.pending \in Places
          /\ (nav.pending.redirect # None => nav.pending.page = "login")
      BY <1>1 DEF NavOK
    <3>2. nav.pending.page # None
      <4>1. SUFFICES ASSUME nav.pending.page = None PROVE FALSE
        OBVIOUS
      <4>2. nav.pending.redirect = None
        BY <3>1, <4>1, ConstantsAssumption DEF Pages
      <4>3. nav.pending = NoPlace
        BY <3>1, <4>1, <4>2 DEF Places, NoPlace, Place
      <4>4. QED
        BY <2>1, <4>3
    <3>3. QED
      BY <3>1, <3>2 DEF Shown
  <2>3. NavOK(nav')
    BY <2>1, <2>2, LandedOK DEF Shows
  <2>4. QED
    BY <1>1, <2>1, <2>3, StillKnown
<1>7. CASE UserReload
  <2>1. /\ metaAddress \in Accounts \cup {None} /\ networkID \in Chains \cup {None}
        /\ SetSession(metaAddress, networkID)
           /\ Reload(nav.at, metaAddress, networkID)
        /\ UNCHANGED metamask
    BY <1>1, <1>7 DEF UserReload, SetSession, session, WalletTypes
  <2>2. QED
    BY <1>1, <2>1, ReloadKnown
<1>8. CASE HeaderBar \/ SideBar
  <2>1. \/ \E p \in Pages : Navigate(p)
        \/ SignOut(TRUE) \/ SignOut(FALSE)
    BY <1>8 DEF HeaderBar, SideBar, Pages
  <2>2. QED
    BY <1>5, <2>1, SignOutStep
<1>9. CASE UNCHANGED vars
  <2>1. UNCHANGED <<wallet, changes, asked, inits, inbox, metaAddress, networkID, addrChild,
        meta, nav>>
    BY <1>9 DEF vars, metamask, session
  <2>2. QED
    BY <1>1, <2>1, StillKnown
<1>10. CASE Hear
  BY <1>10, HearStep
<1>11. QED
  BY <1>2, <1>3, <1>4, <1>6, <1>7, <1>8, <1>9, <1>10 DEF Next

LEMMA SessionInit ==
    ASSUME Init
    PROVE  SessionSound
<1>1. WalletTypes
  <2>1. wallet \in [account : Accounts \cup {None}, chain : Chains]
    BY DEF Init
  <2>2. changes \in 0 .. MaxChanges /\ inbox \in Seq(Message)
    BY ConstantsAssumption DEF Init
  <2>3. QED
    BY <2>1, <2>2 DEF Init, WalletTypes
<1>2. Shown(Place("upload", None))
  BY TargetShown DEF Target, Pages, Guarded
<1>3. NavOK(nav)
  BY <1>2, LandedOK DEF Init
<1>4. WalletKnown
  BY DEF Init, WalletKnown, HeaderShowsSession, AccountKnown
<1>5. QED
  BY <1>1, <1>3, <1>4 DEF SessionSound

LEMMA AlwaysSessionSound == Spec => []SessionSound
BY SessionInit, SessionStep, PTL DEF Spec

\* For any accounts, chains and bounds: the session and the router keep their types, and the
\* header shows the address of the session or none (Header.vue:314, 434).
THEOREM SessionKept == Spec => []SessionInv
<1>1. SessionSound => SessionInv
  BY TypesSplit DEF SessionSound, WalletKnown, SessionInv
<1>2. QED
  BY <1>1, AlwaysSessionSound, PTL

\* For any accounts, chains and bounds: when everything asked is answered and every event is
\* heard (Header.vue:351, 434, 450), the header shows the account and the chain of the wallet,
\* or no address.
THEOREM QuietHeader == Spec => []QuietHeaderIsTrue
<1>1. SessionSound => QuietHeaderIsTrue
  <2> SUFFICES ASSUME SessionSound, Quiet, addrChild # None
               PROVE  addrChild = wallet.account /\ networkID = wallet.chain
                      /\ (Warned <=> wallet.chain # Mumbai)
    BY DEF QuietHeaderIsTrue
  <2>1. inbox = <<>> /\ asked = 0 /\ addrChild = metaAddress
    BY DEF Quiet, SessionSound, WalletKnown, HeaderShowsSession
  <2>2. NoneIn(inbox, AccountNews) /\ NoneIn(inbox, ChainNews)
    BY <2>1 DEF NoneIn
  <2>3. addrChild = wallet.account /\ networkID = wallet.chain
    BY <2>1, <2>2 DEF SessionSound, WalletKnown, AccountKnown, ChainKnown
  <2>4. QED
    BY <2>1, <2>3 DEF Warned
<1>2. QED
  BY <1>1, AlwaysSessionSound, PTL
=============================================================================
