------------------------- MODULE AccountPagesProofs -------------------------
(***************************************************************************)
(* Proofs about AccountPages.  Every page is entered through Where, which  *)
(* is all that is needed of the mounted hooks; between two pages the       *)
(* session only loses what no page on the screen rests on.  That a button  *)
(* waits for one countdown takes more: which requests under way have       *)
(* callbacks that see the page shown (Sound).                              *)
(***************************************************************************)
EXTENDS AccountPages, SequenceTheorems, TLAPS

\* What the page shown rests on.
Founded ==
    /\ LoginPageMeansSignedOut
    /\ page = "success" => resetMail # None
    /\ PagesHaveTheirMail

\* The mounted hooks (login/index.vue:235, mailForget/index.vue:41 and the like): a page that
\* lacks what it needs is not where the push ends.
LEMMA WhereNeeds ==
    ASSUME NEW p, NEW mail
    PROVE  /\ Where(p, mail) = "login" => token' = None
           /\ Where(p, mail) = "success" => resetMail' # None
           /\ Where(p, mail) = "activation" => registerMail' # None
           /\ Where(p, mail) = "mail_forget" => forgetMail' # None
           /\ Where(p, mail) \in {"activate", "reset"} => mail # None
BY DEF Where

\* A page that is mounted has what it needs.
LEMMA MountFounded ==
    ASSUME NEW p, NEW mail, NEW rs, NEW running, Mount(Where(p, mail), mail, rs, running)
    PROVE  Founded'
<1> DEFINE w == Where(p, mail)
<1>1. /\ page' = w
      /\ form' = IF w = "activation" THEN registerMail'
                 ELSE IF w = "mail_forget" THEN forgetMail' ELSE mail
  BY DEF Mount, Show
<1>2. /\ w = "login" => token' = None
      /\ w = "success" => resetMail' # None
      /\ w = "activation" => registerMail' # None
      /\ w = "mail_forget" => forgetMail' # None
      /\ w \in {"activate", "reset"} => mail # None
  BY WhereNeeds
<1> HIDE DEF w
<1>3. QED
  BY <1>1, <1>2 DEF Founded, LoginPageMeansSignedOut, PagesHaveTheirMail

\* A push to the page shown mounts nothing, and finds there what a mounted page would.
LEMMA PushFounded ==
    ASSUME Founded, NEW p, NEW rs, Push(p, rs)
    PROVE  Founded'
<1>1. CASE Where(p, None) = page
  <2>1. page' = page /\ form' = form
    BY <1>1 DEF Push, instance
  <2>2. /\ page = "login" => token' = None
        /\ page = "success" => resetMail' # None
    BY <1>1, WhereNeeds
  <2>3. QED
    BY <2>1, <2>2 DEF Founded, LoginPageMeansSignedOut, PagesHaveTheirMail
<1>2. CASE Where(p, None) # page
  BY <1>2, MountFounded DEF Push
<1>3. QED
  BY <1>1, <1>2

\* The timer shows the login page, or the page behind it.
LEMMA JumpFounded ==
    ASSUME Founded, Jump
    PROVE  Founded'
<1>1. UNCHANGED <<token, resetMail>>
  BY DEF Jump, storage
<1>2. CASE Where("login", None) = page
  BY <1>1, <1>2 DEF Jump, instance, Founded, LoginPageMeansSignedOut, PagesHaveTheirMail
<1>3. CASE Where("login", None) # page
  <2>1. page' = Where("login", None)
    BY <1>3 DEF Jump, Show
  <2>2. Where("login", None) \in {"login", "away"}
    BY DEF Where
  <2>3. QED
    BY <2>1, <2>2, WhereNeeds DEF Founded, LoginPageMeansSignedOut, PagesHaveTheirMail
<1>4. QED
  BY <1>2, <1>3

\* The page stays, and the user at most types or is signed out under it.
Stays ==
    /\ page' = page /\ resetMail' = resetMail /\ token' \in {token, None}
    /\ form' = form \/ page \in {"login", "register", "forget"}

LEMMA StaysFounded == Founded /\ Stays => Founded'
BY DEF Founded, Stays, LoginPageMeansSignedOut, PagesHaveTheirMail

\* The callbacks of an answer stay on the page, push another or, after status 401, mount one.
LEMMA AnswerFounded ==
    ASSUME Founded, NEW i \in DOMAIN requests, Answer(i)
    PROVE  Founded'
<1> DEFINE r == requests[i]
           rs == RemoveAt(requests, i)
<1>1. CASE Succeeded(r, rs)
  <2>1. CASE \/ LoginSucceeded(r, rs) \/ RegisterSucceeded(r, rs) \/ ForgetSucceeded(r, rs)
             \/ ResetSucceeded(r, rs) \/ SettingsSucceeded(r, rs)
    <3>1. \E p : Push(p, rs)
      BY <2>1 DEF LoginSucceeded, RegisterSucceeded, ForgetSucceeded, ResetSucceeded,
                  SettingsSucceeded
    <3>2. QED
      BY <3>1, PushFounded
  <2>2. CASE SentAgain(r, rs) \/ Activated(r, rs)
    <3>1. Stays
      BY <2>2 DEF SentAgain, Activated, Here, Stays, storage
    <3>2. QED
      BY <3>1, StaysFounded
  <2>3. QED
    BY <1>1, <2>1, <2>2 DEF Succeeded
<1>2. CASE Refused(r, rs) \/ Failed(r, rs)
  <2>1. Stays
    BY <1>2 DEF Refused, Failed, Here, Stays, storage
  <2>2. QED
    BY <2>1, StaysFounded
<1>3. CASE NotSignedIn(r, rs)
  <2>1. CASE page = "login"
    <3>1. Stays
      BY <1>3, <2>1 DEF NotSignedIn, LoggedOut, Here, Stays
    <3>2. QED
      BY <3>1, StaysFounded
  <2>2. CASE page # "login"
    <3>1. Push("login", rs)
      BY <1>3, <2>2 DEF NotSignedIn
    <3>2. QED
      BY <3>1, PushFounded
  <2>3. QED
    BY <2>1, <2>2
<1>4. CASE Unauthorized(r, rs)
  BY <1>4, MountFounded DEF Unauthorized
<1>5. CASE UNCHANGED <<instance, jumps, asked, storage>>
  <2>1. Stays
    BY <1>5 DEF instance, storage, Stays
  <2>2. QED
    BY <2>1, StaysFounded
<1>6. QED
  BY <1>1, <1>2, <1>3, <1>4, <1>5 DEF Answer

LEMMA FoundedStep == Founded /\ [Next]_vars => Founded'
<1> SUFFICES ASSUME Founded, [Next]_vars PROVE Founded'
  OBVIOUS
<1>1. ASSUME NEW p, GoTo(p) PROVE Founded'
  BY <1>1, PushFounded DEF GoTo
<1>2. ASSUME NEW p, NEW mail, Load(p, mail) PROVE Founded'
  BY <1>2, MountFounded DEF Load
<1>3. ASSUME NEW mail, Edit(mail) PROVE Founded'
  <2>1. Stays
    BY <1>3 DEF Edit, Stays, storage
  <2>2. QED
    BY <2>1, StaysFounded
<1>4. ASSUME NEW api, NEW mail, Send(api, mail) PROVE Founded'
  <2>1. Stays
    BY <1>4 DEF Send, Stays, storage
  <2>2. QED
    BY <2>1, StaysFounded
<1>5. CASE AgainCode
  BY <1>5, PushFounded DEF AgainCode
<1>6. CASE CountdownEnds \/ Ages \/ UNCHANGED vars
  <2>1. Stays
    BY <1>6 DEF CountdownEnds, Ages, vars, instance, storage, Stays
  <2>2. QED
    BY <2>1, StaysFounded
<1>7. CASE LoginPage \/ RegisterPage \/ ForgetPage \/ ResetPage
  BY <1>7, <1>3, <1>4 DEF LoginPage, RegisterPage, ForgetPage, ResetPage, Submit
<1>8. CASE SettingsPage \/ ActivationPage \/ MailForgetPage
  BY <1>8, <1>4, <1>6 DEF SettingsPage, SubmitSettings, ActivationPage, MailForgetPage, SendAgain
<1>9. CASE \/ \E p \in {"activate", "reset"}, mail \in Emails : OpenLink(p, mail)
           \/ Reload
  BY <1>9, <1>2 DEF OpenLink, Reload
<1>10. QED
  BY <1>1, <1>5, <1>6, <1>7, <1>8, <1>9, JumpFounded, AnswerFounded DEF Next, ActivatePage

LEMMA AlwaysFounded == Spec => []Founded
<1>1. Init => Founded
  BY DEF Init, Founded, LoginPageMeansSignedOut, PagesHaveTheirMail
<1>2. QED
  BY <1>1, FoundedStep, PTL DEF Spec

\* For any accounts, pages and number of requests: the login page (login/index.vue) is never
\* shown to a user who is signed in, whichever answers and timers come late.
THEOREM SignedOutAtLogin == Spec => []LoginPageMeansSignedOut
BY AlwaysFounded, PTL DEF Founded

\* For any accounts, pages and number of requests: a page that mails knows whom to
\* (mailForget/index.vue:41, accountActivation/index.vue:46, mailResetPassword/index.vue:86).
THEOREM MailKnown == Spec => []PagesHaveTheirMail
BY AlwaysFounded, PTL DEF Founded
-----------------------------------------------------------------------------
(* The reset of a password.                                                 *)

\* The address in the session is that of a reset the backend did.
ResetDone == resetMail = None \/ resetMail \in changed

\* Only the backend's answer to a reset writes the address, and the backend forgets no reset.
ResetStep ==
    /\ changed \subseteq changed'
    /\ resetMail' = resetMail \/ resetMail' \in changed'

LEMMA AnswerResets ==
    ASSUME NEW i \in DOMAIN requests, Answer(i)
    PROVE  ResetStep
<1> DEFINE r == requests[i]
           rs == RemoveAt(requests, i)
<1>1. Done(r) \/ UNCHANGED backend
  BY DEF Answer
<1>2. changed \subseteq changed'
  BY <1>1 DEF Done, backend
<1>3. CASE Done(r) /\ Succeeded(r, rs)
  <2>1. CASE ResetSucceeded(r, rs)
    BY <1>2, <1>3, <2>1 DEF ResetSucceeded, Done, ResetStep
  <2>2. CASE \/ LoginSucceeded(r, rs) \/ RegisterSucceeded(r, rs) \/ ForgetSucceeded(r, rs)
             \/ SettingsSucceeded(r, rs) \/ SentAgain(r, rs) \/ Activated(r, rs)
    BY <1>2, <2>2 DEF LoginSucceeded, RegisterSucceeded, ForgetSucceeded, SettingsSucceeded,
                      SentAgain, Activated, storage, ResetStep
  <2>3. QED
    BY <1>3, <2>1, <2>2 DEF Succeeded
<1>4. CASE \/ Refused(r, rs) \/ Failed(r, rs) \/ NotSignedIn(r, rs) \/ Unauthorized(r, rs)
           \/ UNCHANGED storage
  BY <1>2, <1>4 DEF Refused, Failed, NotSignedIn, Unauthorized, LoggedOut, storage, ResetStep
<1>5. QED
  BY <1>3, <1>4 DEF Answer

\* No other step writes it.
LEMMA OthersReset ==
    ASSUME [Next]_vars, \A i \in DOMAIN requests : ~Answer(i)
    PROVE  UNCHANGED <<resetMail, changed>>
<1> USE DEF storage, backend
<1>1. ASSUME NEW mail, Edit(mail) PROVE UNCHANGED <<resetMail, changed>>
  BY <1>1 DEF Edit
<1>2. ASSUME NEW api, NEW mail, Send(api, mail) PROVE UNCHANGED <<resetMail, changed>>
  BY <1>2 DEF Send
<1>3. ASSUME NEW p, NEW mail, Load(p, mail) PROVE UNCHANGED <<resetMail, changed>>
  BY <1>3 DEF Load
<1>4. CASE CountdownEnds \/ Ages \/ Jump \/ AgainCode \/ UNCHANGED vars
  BY <1>4 DEF CountdownEnds, Ages, Jump, AgainCode, vars
<1>5. CASE \E p \in Visited : GoTo(p)
  BY <1>5 DEF GoTo
<1>6. CASE LoginPage \/ RegisterPage \/ ForgetPage \/ ResetPage
  BY <1>6, <1>1, <1>2 DEF LoginPage, RegisterPage, ForgetPage, ResetPage, Submit
<1>7. CASE SettingsPage \/ ActivationPage \/ MailForgetPage
  BY <1>7, <1>2, <1>4 DEF SettingsPage, SubmitSettings, ActivationPage, MailForgetPage, SendAgain
<1>8. CASE \/ \E p \in {"activate", "reset"}, mail \in Emails : OpenLink(p, mail)
           \/ Reload
  BY <1>8, <1>3 DEF OpenLink, Reload
<1>9. QED
  BY <1>4, <1>5, <1>6, <1>7, <1>8 DEF Next, ActivatePage

LEMMA AlwaysReset == Spec => []ResetDone
<1>1. Init => ResetDone
  BY DEF Init, ResetDone
<1>2. ASSUME ResetDone, [Next]_vars PROVE ResetDone'
  <2>1. CASE \E i \in DOMAIN requests : Answer(i)
    BY <1>2, <2>1, AnswerResets DEF ResetStep, ResetDone
  <2>2. CASE \A i \in DOMAIN requests : ~Answer(i)
    BY <1>2, <2>2, OthersReset DEF ResetDone
  <2>3. QED
    BY <2>1, <2>2
<1>3. QED
  BY <1>1, <1>2, PTL DEF Spec

\* For any accounts, pages and number of requests: the page that tells of a reset password
\* (mailForgetSuccess/index.vue) is shown only after the backend reset it.
THEOREM SuccessTold == Spec => []SuccessIsTrue
<1>1. Founded /\ ResetDone => SuccessIsTrue
  BY DEF Founded, ResetDone, SuccessIsTrue
<1>2. QED
  BY <1>1, AlwaysFounded, AlwaysReset, PTL
------------------------------------------------------------------------------
(* The requests under way.  Those whose callbacks see the page shown were   *)
(* sent by it; a page of a mail sent waits for one at a time, masked and    *)
(* without a countdown, so that their answers start one countdown only.     *)

RequestKinds == {"live", "orphan", "lost"}
RequestType == [api : Apis, mail : Mail, form : Mail, kind : RequestKinds]

\* The requests of a list are of the backend's APIs, and links are somebody's.
Formed(rs) ==
    /\ rs \in Seq(RequestType)
    /\ \A i \in DOMAIN rs : rs[i].api \in {"activate", "reset"} => rs[i].mail # None

NoneLive(rs) == \A i \in DOMAIN rs : rs[i].kind # "live"

MailPages == {"activation", "mail_forget"}

\* What the page shown waits for among the requests rs.
WaitsFor(rs) ==
    /\ \A i \in DOMAIN rs : rs[i].kind = "live" => rs[i].api = page
    /\ page \in MailPages =>
          /\ \A i \in DOMAIN rs : rs[i].kind = "live" => mask /\ countdowns = 0
          /\ \A i, j \in DOMAIN rs : rs[i].kind = "live" /\ rs[j].kind = "live" => i = j

PageTypes ==
    /\ page \in Pages /\ form \in Mail /\ mask \in BOOLEAN /\ blocked \in BOOLEAN
    /\ countdowns \in Nat /\ jumps \in Nat /\ asked \in Nat
SessionTypes == {token, email, registerMail, forgetMail, resetMail} \subseteq Mail /\ fresh \in BOOLEAN
BackendTypes ==
    /\ accounts \subseteq Emails /\ active \subseteq Emails /\ changed \subseteq Emails
    /\ mails \subseteq {"activate", "reset"} \X Emails

Screen == PageTypes /\ OneCountdown /\ Formed(requests) /\ WaitsFor(requests)
Sound == Screen /\ SessionTypes /\ BackendTypes

LEMMA RequestFields ==
    ASSUME NEW r \in RequestType
    PROVE  r.api \in Apis /\ r.mail \in Mail /\ r.form \in Mail /\ r.kind \in RequestKinds
BY DEF RequestType

\* The other requests keep their order when one is answered.
LEMMA Removed ==
    ASSUME NEW rs, Formed(rs), NEW i \in DOMAIN rs
    PROVE  /\ RemoveAt(rs, i) \in Seq(RequestType)
           /\ \A k \in DOMAIN RemoveAt(rs, i) :
                 \E m \in DOMAIN rs : RemoveAt(rs, i)[k] = rs[m] /\ m = IF k < i THEN k ELSE k + 1
<1> DEFINE head == SubSeq(rs, 1, i - 1)
           tail == SubSeq(rs, i + 1, Len(rs))
<1>1. rs \in Seq(RequestType) /\ i \in 1 .. Len(rs) /\ Len(rs) \in Nat
  BY DEF Formed
<1>2. /\ head \in Seq(RequestType) /\ Len(head) = i - 1
      /\ \A k \in 1 .. (i - 1) : head[k] = rs[k]
  BY <1>1
<1>3. /\ tail \in Seq(RequestType) /\ Len(tail) = Len(rs) - i
      /\ \A k \in 1 .. (Len(rs) - i) : tail[k] = rs[i + k]
  BY <1>1
<1>4. RemoveAt(rs, i) = head \o tail
  BY DEF RemoveAt
<1> HIDE DEF head, tail
<1>5. /\ head \o tail \in Seq(RequestType) /\ Len(head \o tail) = Len(rs) - 1
      /\ \A k \in 1 .. (Len(rs) - 1) :
            (head \o tail)[k] = IF k <= i - 1 THEN head[k] ELSE tail[k - (i - 1)]
  <2>1. (i - 1) + (Len(rs) - i) = Len(rs) - 1
    BY <1>1
  <2>2. /\ head \o tail \in Seq(RequestType) /\ Len(head \o tail) = Len(head) + Len(tail)
        /\ \A k \in 1 .. Len(head) + Len(tail) :
              (head \o tail)[k] = IF k <= Len(head) THEN head[k] ELSE tail[k - Len(head)]
    BY <1>2, <1>3, ConcatProperties
  <2>3. QED
    BY <1>2, <1>3, <2>1, <2>2
<1>6. ASSUME NEW k \in 1 .. (Len(rs) - 1)
      PROVE  \E m \in DOMAIN rs : (head \o tail)[k] = rs[m] /\ m = IF k < i THEN k ELSE k + 1
  <2>1. CASE k < i
    BY <1>1, <1>2, <1>5, <2>1
  <2>2. CASE ~(k < i)
    <3>1. k - (i - 1) \in 1 .. (Len(rs) - i) /\ i + (k - (i - 1)) = k + 1 /\ k + 1 \in DOMAIN rs
      BY <1>1, <2>2
    <3>2. (head \o tail)[k] = tail[k - (i - 1)]
      BY <1>1, <1>5, <2>2
    <3>3. tail[k - (i - 1)] = rs[i + (k - (i - 1))]
      BY <1>3, <3>1
    <3>4. QED
      BY <2>2, <3>1, <3>2, <3>3
  <2>3. QED
    BY <2>1, <2>2
<1>7. DOMAIN (head \o tail) = 1 .. (Len(rs) - 1)
  BY <1>5
<1>8. QED
  BY <1>4, <1>5, <1>6, <1>7

LEMMA RemovedFormed ==
    ASSUME NEW rs, Formed(rs), NEW i \in DOMAIN rs
    PROVE  Formed(RemoveAt(rs, i))
BY Removed DEF Formed

\* The page waits for those that are left; for none, if it waited for that one only.
LEMMA RemovedWaits ==
    ASSUME Formed(requests), WaitsFor(requests), NEW i \in DOMAIN requests
    PROVE  /\ WaitsFor(RemoveAt(requests, i))
           /\ page \in MailPages /\ requests[i].kind = "live" => NoneLive(RemoveAt(requests, i))
<1> DEFINE rs == RemoveAt(requests, i)
<1>1. \A k \in DOMAIN rs : \E m \in DOMAIN requests : rs[k] = requests[m]
      /\ m = IF k < i THEN k ELSE k + 1
  BY Removed
<1>2. rs \in Seq(RequestType) /\ i \in Int
  BY Removed DEF Formed
<1> HIDE DEF rs
<1>3. \A k \in DOMAIN rs : k \in Int
  BY <1>2
<1>4. \A k \in DOMAIN rs : rs[k].kind = "live" => rs[k].api = page
  BY <1>1 DEF WaitsFor
<1>5. page \in MailPages => \A k \in DOMAIN rs : rs[k].kind = "live" => mask /\ countdowns = 0
  BY <1>1 DEF WaitsFor
<1>6. ASSUME page \in MailPages, NEW j \in DOMAIN rs, NEW k \in DOMAIN rs,
             rs[j].kind = "live", rs[k].kind = "live"
      PROVE  j = k
  BY <1>1, <1>2, <1>3, <1>6 DEF WaitsFor
<1>7. ASSUME page \in MailPages, requests[i].kind = "live", NEW k \in DOMAIN rs
      PROVE  rs[k].kind # "live"
  BY <1>1, <1>2, <1>3, <1>7 DEF WaitsFor
<1>8. WaitsFor(rs) /\ (page \in MailPages /\ requests[i].kind = "live" => NoneLive(rs))
  BY <1>4, <1>5, <1>6, <1>7 DEF WaitsFor, NoneLive
<1>9. QED
  BY <1>8 DEF rs

\* Nobody waits for the requests of a page that was left.
LEMMA LeftRequests ==
    ASSUME NEW rs, Formed(rs), form \in Mail
    PROVE  Formed(Orphaned(rs)) /\ NoneLive(Orphaned(rs)) /\ Formed(Lost(rs)) /\ NoneLive(Lost(rs))
<1>1. rs \in Seq(RequestType) /\ DOMAIN rs = 1 .. Len(rs)
      /\ \A i \in DOMAIN rs : rs[i] \in RequestType
  BY DEF Formed
<1>2. ASSUME NEW qs, NEW i \in DOMAIN rs,
             qs[i] \in {rs[i], [rs[i] EXCEPT !.kind = "orphan", !.form = form],
             [rs[i] EXCEPT !.kind = "lost"]}
      PROVE  qs[i] \in RequestType /\ qs[i].api = rs[i].api /\ qs[i].mail = rs[i].mail
  BY <1>1, <1>2 DEF RequestType, RequestKinds
<1>3. ASSUME NEW qs, qs = [i \in DOMAIN rs |-> qs[i]],
             \A i \in DOMAIN rs : qs[i].kind # "live" /\ qs[i] \in
                {rs[i], [rs[i] EXCEPT !.kind = "orphan", !.form = form],
                [rs[i] EXCEPT !.kind = "lost"]}
      PROVE  Formed(qs) /\ NoneLive(qs)
  <2>1. qs \in [1 .. Len(rs) -> RequestType] /\ DOMAIN qs = DOMAIN rs
    BY <1>1, <1>2, <1>3
  <2>2. qs \in Seq(RequestType)
    BY <1>1, <2>1
  <2>3. ASSUME NEW i \in DOMAIN rs PROVE qs[i].api = rs[i].api /\ qs[i].mail = rs[i].mail
    <3>1. qs[i] \in {rs[i], [rs[i] EXCEPT !.kind = "orphan", !.form = form],
          [rs[i] EXCEPT !.kind = "lost"]}
      BY <1>3
    <3>2. QED
      BY <1>2, <3>1
  <2>4. Formed(qs)
    BY <2>1, <2>2, <2>3 DEF Formed
  <2>5. NoneLive(qs)
    BY <1>3, <2>1 DEF NoneLive
  <2>6. QED
    BY <2>4, <2>5
<1>4. \A i \in DOMAIN rs : /\ [rs[i] EXCEPT !.kind = "orphan", !.form = form].kind = "orphan"
                           /\ [rs[i] EXCEPT !.kind = "lost"].kind = "lost"
  BY <1>1 DEF RequestType
<1>5. Formed(Orphaned(rs)) /\ NoneLive(Orphaned(rs))
  <2> DEFINE qs == Orphaned(rs)
  <2>1. qs = [i \in DOMAIN rs |-> qs[i]]
    BY DEF Orphaned
  <2>2. \A i \in DOMAIN rs : qs[i].kind # "live" /\ qs[i] \in
           {rs[i], [rs[i] EXCEPT !.kind = "orphan", !.form = form], [rs[i] EXCEPT !.kind = "lost"]}
    BY <1>4 DEF Orphaned
  <2> HIDE DEF qs
  <2>3. Formed(qs) /\ NoneLive(qs)
    BY <1>3, <2>1, <2>2
  <2>4. QED
    BY <2>3 DEF qs
<1>6. Formed(Lost(rs)) /\ NoneLive(Lost(rs))
  <2> DEFINE qs == Lost(rs)
  <2>1. qs = [i \in DOMAIN rs |-> qs[i]]
    BY DEF Lost
  <2>2. \A i \in DOMAIN rs : qs[i].kind # "live" /\ qs[i] \in
           {rs[i], [rs[i] EXCEPT !.kind = "orphan", !.form = form], [rs[i] EXCEPT !.kind = "lost"]}
    BY <1>4 DEF Lost
  <2> HIDE DEF qs
  <2>3. Formed(qs) /\ NoneLive(qs)
    BY <1>3, <2>1, <2>2
  <2>4. QED
    BY <2>3 DEF qs
<1>7. QED
  BY <1>5, <1>6

\* A request of the page shown joins the list.
LEMMA Added ==
    ASSUME NEW rs, Formed(rs), NEW api \in Apis, NEW mail \in Mail, api \in {"activate", "reset"}
           => mail # None
    PROVE  LET qs == Append(rs, Request(api, mail))
           IN  /\ Formed(qs)
               /\ DOMAIN qs = DOMAIN rs \cup {Len(rs) + 1} /\ Len(rs) + 1 \notin DOMAIN rs
               /\ \A i \in DOMAIN rs : qs[i] = rs[i]
               /\ qs[Len(rs) + 1].kind = "live" /\ qs[Len(rs) + 1].api = api
<1> DEFINE r == Request(api, mail)
<1>1. r \in RequestType /\ r.api = api /\ r.mail = mail /\ r.kind = "live"
  BY DEF Request, RequestType, RequestKinds
<1>2. rs \in Seq(RequestType) /\ \A i \in DOMAIN rs : rs[i].api \in {"activate", "reset"}
      => rs[i].mail # None
  BY DEF Formed
<1> HIDE DEF r
<1>3. /\ Append(rs, r) \in Seq(RequestType) /\ DOMAIN Append(rs, r) = DOMAIN rs \cup {Len(rs) + 1}
      /\ Len(rs) + 1 \notin DOMAIN rs /\ Append(rs, r)[Len(rs) + 1] = r
      /\ \A i \in DOMAIN rs : Append(rs, r)[i] = rs[i]
  BY <1>1, <1>2
<1>4. Formed(Append(rs, r))
  BY <1>1, <1>2, <1>3 DEF Formed
<1>5. QED
  BY <1>1, <1>3, <1>4 DEF r

(* A page mounted waits for the request it sends itself.                    *)
LEMMA MountScreen ==
    ASSUME PageTypes, SessionTypes', NEW p \in Pages, NEW mail \in Mail, NEW rs, Formed(rs),
           NoneLive(rs),
           NEW running \in Nat, Mount(Where(p, mail), mail, rs, running)
    PROVE  Screen'
<1> DEFINE w == Where(p, mail)
           asks == w = "activate" \/ (w = "activation" /\ fresh')
           to == IF w = "activation" THEN registerMail'
                 ELSE IF w = "mail_forget" THEN forgetMail' ELSE mail
<1>1. w \in Pages /\ (w = "activate" => mail # None)
  <2>1. w \in Pages
    BY DEF Where, Pages
  <2>2. w = "activate" => mail # None
    BY WhereNeeds
  <2>3. QED
    BY <2>1, <2>2
<1>2. /\ page' = w /\ form' = to /\ mask' = asks
      /\ blocked' = (w \in {"mail_forget", "activate"})
      /\ countdowns' = IF w = "mail_forget" THEN 1 ELSE 0
      /\ requests' = IF asks THEN Append(rs, Request(w, to)) ELSE rs
      /\ asked' = IF asks THEN asked + 1 ELSE asked
      /\ jumps' = IF w = "success" THEN running + 1 ELSE running
  BY DEF Mount, Show
<1> HIDE DEF w
<1>3. to \in Mail /\ asks \in BOOLEAN /\ (w = "activate" => to # None)
      /\ (asks => w \in {"activate", "activation"})
  BY <1>1 DEF SessionTypes
<1> HIDE DEF to, asks
<1>4. PageTypes'
  BY <1>1, <1>2, <1>3 DEF PageTypes
<1>5. OneCountdown'
  <2>1. CASE w = "mail_forget"
    <3>1. blocked' /\ countdowns' = 1
      BY <1>2, <2>1
    <3>2. QED
      BY <3>1 DEF OneCountdown
  <2>2. CASE w = "activation"
    <3>1. ~blocked' /\ countdowns' = 0
      BY <1>2, <2>2
    <3>2. QED
      BY <3>1 DEF OneCountdown
  <2>3. QED
    BY <1>2, <2>1, <2>2 DEF OneCountdown
<1>6. CASE ~asks
  <2>1. requests' = rs
    BY <1>2, <1>6
  <2>2. Formed(requests)' /\ WaitsFor(requests)'
    BY <2>1 DEF Formed, WaitsFor, NoneLive
  <2>3. QED
    BY <1>4, <1>5, <2>2 DEF Screen
<1>7. CASE asks
  <2> DEFINE qs == Append(rs, Request(w, to))
             n == Len(rs) + 1
  <2>1. requests' = qs /\ mask' /\ page' = w /\ countdowns' = 0 /\ w # "mail_forget"
    BY <1>2, <1>3, <1>7
  <2>2. w \in Apis /\ (w \in {"activate", "reset"} => to # None)
    BY <1>3, <1>7 DEF Apis
  <2>3. /\ Formed(qs) /\ DOMAIN qs = DOMAIN rs \cup {n} /\ n \notin DOMAIN rs
        /\ \A i \in DOMAIN rs : qs[i] = rs[i]
        /\ qs[n].kind = "live" /\ qs[n].api = w
    BY <1>3, <2>2, Added
  <2> HIDE DEF qs, n
  <2>4. Formed(requests)'
    BY <2>1, <2>3 DEF Formed
  <2>5. \A i \in DOMAIN qs : qs[i].kind = "live" => i = n
    BY <2>3 DEF NoneLive
  <2>6. WaitsFor(requests)'
    BY <2>1, <2>3, <2>5 DEF WaitsFor
  <2>7. QED
    BY <1>4, <1>5, <2>4, <2>6 DEF Screen
<1>8. QED
  BY <1>6, <1>7

\* A push to the page shown leaves it as it is; another one mounts.
LEMMA PushScreen ==
    ASSUME Screen, SessionTypes', NEW p \in Pages, NEW rs, Formed(rs), WaitsFor(rs), Push(p, rs)
    PROVE  Screen'
<1>1. CASE Where(p, None) = page
  <2>1. requests' = rs /\ UNCHANGED <<page, form, mask, blocked, countdowns, jumps, asked>>
    BY <1>1 DEF Push, instance
  <2>2. PageTypes' /\ OneCountdown'
    BY <2>1 DEF Screen, PageTypes, OneCountdown
  <2>3. Formed(requests)' /\ WaitsFor(requests)'
    BY <2>1 DEF Formed, WaitsFor
  <2>4. QED
    BY <2>2, <2>3 DEF Screen
<1>2. CASE Where(p, None) # page
  <2>1. Mount(Where(p, None), None, Orphaned(rs), jumps)
    BY <1>2 DEF Push
  <2>2. Formed(Orphaned(rs)) /\ NoneLive(Orphaned(rs)) /\ PageTypes /\ jumps \in Nat
    BY LeftRequests DEF Screen, PageTypes
  <2>3. None \in Mail
    BY DEF Mail
  <2>4. QED
    BY <2>1, <2>2, <2>3, MountScreen
<1>3. QED
  BY <1>1, <1>2

\* What a callback writes to the page that sent the request.
LEMMA HereScreen ==
    ASSUME Screen, NEW i \in DOMAIN requests, NEW masked \in BOOLEAN, NEW isBlocked \in BOOLEAN,
           NEW more \in {0, 1},
           Here(requests[i], masked, isBlocked, more), requests' = RemoveAt(requests, i),
           jumps' \in Nat,
           page \in MailPages /\ requests[i].kind = "live" => (isBlocked <=> more = 1)
    PROVE  Screen'
<1> DEFINE rs == RemoveAt(requests, i)
           mine == requests[i].kind = "live"
<1>1. /\ mine => mask' = masked /\ blocked' = isBlocked /\ countdowns' = countdowns + more
      /\ ~mine => UNCHANGED <<mask, blocked, countdowns>>
      /\ UNCHANGED <<page, form, asked>>
  BY DEF Here
<1>2. Formed(rs) /\ WaitsFor(rs) /\ (page \in MailPages /\ mine => NoneLive(rs))
  BY RemovedFormed, RemovedWaits DEF Screen
<1>3. page \in MailPages /\ mine => countdowns = 0
  BY DEF Screen, WaitsFor
<1>4. requests' = rs
  OBVIOUS
<1> HIDE DEF rs
<1>5. PageTypes'
  <2>1. CASE mine
    BY <1>1, <2>1 DEF Screen, PageTypes
  <2>2. CASE ~mine
    BY <1>1, <2>2 DEF Screen, PageTypes
  <2>3. QED
    BY <2>1, <2>2
<1> HIDE DEF mine
<1>6. OneCountdown'
  <2>1. CASE mine
    BY <1>1, <1>3, <2>1 DEF OneCountdown, MailPages, mine
  <2>2. CASE ~mine
    BY <1>1, <2>2 DEF Screen, OneCountdown
  <2>3. QED
    BY <2>1, <2>2
<1>7. Formed(requests)'
  BY <1>2, <1>4 DEF Formed
<1>8. WaitsFor(requests)'
  <2>1. CASE page \in MailPages /\ mine
    BY <1>1, <1>2, <1>4, <2>1 DEF WaitsFor, NoneLive
  <2>2. CASE page \notin MailPages
    BY <1>1, <1>2, <1>4, <2>2 DEF WaitsFor
  <2>3. CASE ~mine
    BY <1>1, <1>2, <1>4, <2>3 DEF WaitsFor
  <2>4. QED
    BY <2>1, <2>2, <2>3
<1>9. QED
  BY <1>5, <1>6, <1>7, <1>8 DEF Screen

(* What the session and the backend hold.                                   *)
LEMMA AnswerSession ==
    ASSUME Sound, NEW i \in DOMAIN requests, Answer(i)
    PROVE  SessionTypes' /\ BackendTypes'
<1> DEFINE r == requests[i]
           rs == RemoveAt(requests, i)
<1>1. r \in RequestType /\ (r.api \in {"activate", "reset"} => r.mail # None)
  BY DEF Sound, Screen, Formed
<1>2. r.api \in Apis /\ r.mail \in Mail /\ FormOf(r) \in Mail
  BY <1>1, RequestFields DEF FormOf, Sound, Screen, PageTypes
<1>3. \/ UNCHANGED backend
      \/ CanDo(r) /\ Done(r)
  BY DEF Answer
<1>4. \/ UNCHANGED storage
      \/ Succeeded(r, rs)
      \/ LoggedOut(r)
  BY DEF Answer, Refused, NotSignedIn, Unauthorized, Failed
<1> HIDE DEF r, rs
<1>5. SessionTypes'
  <2>1. {token, email, registerMail, forgetMail, resetMail} \subseteq Mail /\ fresh \in BOOLEAN
        /\ None \in Mail
    BY DEF Sound, SessionTypes, Mail
  <2>2. CASE UNCHANGED storage
    BY <2>1, <2>2 DEF SessionTypes, storage
  <2>3. CASE LoggedOut(r)
    BY <2>1, <2>3 DEF SessionTypes, LoggedOut
  <2>4. CASE Succeeded(r, rs)
    BY <1>2, <2>1, <2>4 DEF SessionTypes, Succeeded, LoginSucceeded, RegisterSucceeded,
       ForgetSucceeded,
       ResetSucceeded, SettingsSucceeded, SentAgain, Activated, storage
  <2>5. QED
    BY <1>4, <2>2, <2>3, <2>4
<1>6. BackendTypes'
  <2>1. CASE UNCHANGED backend
    BY <2>1 DEF Sound, BackendTypes, backend
  <2>2. CASE CanDo(r) /\ Done(r)
    <3>1. r.api \in {"register", "activate", "reset", "activation", "forget", "mail_forget"}
          => r.mail \in Emails
      BY <1>1, <1>2, <2>2 DEF CanDo, Sound, BackendTypes, Mail
    <3>2. /\ accounts' = IF r.api = "register" THEN accounts \cup {r.mail} ELSE accounts
          /\ active' = IF r.api = "activate" THEN active \cup {r.mail} ELSE active
          /\ changed' = IF r.api = "reset" THEN changed \cup {r.mail} ELSE changed
      BY <2>2 DEF Done
    <3>3. mails' \subseteq mails \cup {<<"activate", r.mail>>, <<"reset", r.mail>>}
          /\ (mails' = mails \/ r.api \in {"activation", "forget", "mail_forget"})
      BY <2>2 DEF Done
    <3>4. accounts' \subseteq Emails /\ active' \subseteq Emails /\ changed' \subseteq Emails
      BY <3>1, <3>2 DEF Sound, BackendTypes
    <3>5. mails' \subseteq {"activate", "reset"} \X Emails
      BY <3>1, <3>3 DEF Sound, BackendTypes
    <3>6. QED
      BY <3>4, <3>5 DEF BackendTypes
  <2>3. QED
    BY <1>3, <2>1, <2>2
<1>7. QED
  BY <1>5, <1>6

LEMMA AnswerScreen ==
    ASSUME Sound, NEW i \in DOMAIN requests, Answer(i)
    PROVE  Screen'
<1> DEFINE r == requests[i]
           rs == RemoveAt(requests, i)
<1>1. Screen /\ PageTypes /\ SessionTypes' /\ jumps \in Nat /\ Formed(requests)
      /\ WaitsFor(requests)
  BY AnswerSession DEF Sound, Screen, PageTypes
<1>2. Formed(rs) /\ WaitsFor(rs)
  BY <1>1, RemovedFormed, RemovedWaits
<1>3. r.kind = "live" => r.api = page
  BY <1>1 DEF WaitsFor
<1>4. \A p \in Pages : Push(p, rs) => Screen'
  BY <1>1, <1>2, PushScreen
<1>5. CASE Succeeded(r, rs)
  <2>1. CASE \/ LoginSucceeded(r, rs) \/ RegisterSucceeded(r, rs) \/ ForgetSucceeded(r, rs)
             \/ ResetSucceeded(r, rs) \/ SettingsSucceeded(r, rs)
    <3>1. \E p \in Pages : Push(p, rs)
      BY <2>1 DEF LoginSucceeded, RegisterSucceeded, ForgetSucceeded, ResetSucceeded,
                  SettingsSucceeded, Pages
    <3>2. QED
      BY <1>4, <3>1
  <2>2. CASE SentAgain(r, rs)
    <3>1. Here(r, FALSE, TRUE, 1) /\ requests' = rs /\ jumps' = jumps
      BY <2>2 DEF SentAgain
    <3>2. QED
      BY <1>1, <3>1, HereScreen
  <2>3. CASE Activated(r, rs)
    <3>1. Here(r, FALSE, TRUE, 0) /\ requests' = rs /\ jumps' = jumps + 1 /\ r.api = "activate"
      BY <2>3 DEF Activated
    <3>2. jumps' \in Nat /\ ~(page \in MailPages /\ r.kind = "live")
      BY <1>1, <1>3, <3>1 DEF MailPages
    <3>3. QED
      BY <1>1, <3>1, <3>2, HereScreen
  <2>4. QED
    BY <1>5, <2>1, <2>2, <2>3 DEF Succeeded
<1>6. CASE Refused(r, rs)
  <2> DEFINE masked == r.api = "forget"
  <2>1. Here(r, masked, FALSE, 0) /\ requests' = rs /\ jumps' \in Nat /\ masked \in BOOLEAN
    BY <1>1, <1>6 DEF Refused
  <2>2. page \in MailPages /\ r.kind = "live" => (FALSE <=> 0 = 1)
    OBVIOUS
  <2> HIDE DEF masked
  <2>3. QED
    BY <1>1, <2>1, <2>2, HereScreen
<1>7. CASE Failed(r, rs)
  <2> DEFINE masked == r.api \in {"register", "activate"}
  <2>1. Here(r, masked, blocked, 0) /\ requests' = rs /\ jumps' \in Nat
    BY <1>1, <1>7 DEF Failed
  <2>2. masked \in BOOLEAN /\ blocked \in BOOLEAN
    BY <1>1 DEF PageTypes
  <2>3. page \in MailPages /\ r.kind = "live" => (blocked <=> 0 = 1)
    <3>1. page \in MailPages /\ r.kind = "live" => countdowns = 0
      BY <1>1 DEF WaitsFor
    <3>2. QED
      BY <1>1, <3>1 DEF Screen, OneCountdown, MailPages
  <2> HIDE DEF masked
  <2>4. QED
    BY <1>1, <2>1, <2>2, <2>3, HereScreen
<1>8. CASE NotSignedIn(r, rs)
  <2>1. CASE page = "login"
    <3>1. Here(r, FALSE, FALSE, 0) /\ requests' = rs /\ jumps' \in Nat
      BY <1>1, <1>8, <2>1 DEF NotSignedIn
    <3>2. page \in MailPages /\ r.kind = "live" => (FALSE <=> 0 = 1)
      OBVIOUS
    <3>3. QED
      BY <1>1, <3>1, <3>2, HereScreen
  <2>2. CASE page # "login"
    <3>1. Push("login", rs) /\ "login" \in Pages
      BY <1>8, <2>2 DEF NotSignedIn, Pages
    <3>2. QED
      BY <1>4, <3>1
  <2>3. QED
    BY <2>1, <2>2
<1>9. CASE Unauthorized(r, rs)
  <2>1. PICK back \in {page, "away"} : Mount(Where(back, LinkMail), LinkMail, Orphaned(rs), jumps)
    BY <1>9 DEF Unauthorized
  <2>2. back \in Pages /\ LinkMail \in Mail /\ form \in Mail
    BY <1>1 DEF PageTypes, LinkMail, Pages, Mail
  <2>3. Formed(Orphaned(rs)) /\ NoneLive(Orphaned(rs))
    BY <1>2, <2>2, LeftRequests
  <2>4. QED
    BY <1>1, <2>1, <2>2, <2>3, MountScreen
<1>10. CASE r.kind = "lost" /\ requests' = rs /\ UNCHANGED <<instance, jumps, asked>>
  <2>1. PageTypes' /\ OneCountdown'
    BY <1>1, <1>10 DEF Screen, PageTypes, OneCountdown, instance
  <2>2. Formed(requests)' /\ WaitsFor(requests)'
    BY <1>2, <1>10 DEF Formed, WaitsFor, instance
  <2>3. QED
    BY <2>1, <2>2 DEF Screen
<1>11. QED
  BY <1>5, <1>6, <1>7, <1>8, <1>9, <1>10 DEF Answer

(* The user and the timers.                                                 *)
LEMMA SendScreen ==
    ASSUME Screen, NEW api \in Apis, NEW mail \in Mail, Send(api, mail), api = page,
           api \in {"activate", "reset"} => mail # None, page \in MailPages => ~mask /\ ~blocked
    PROVE  Screen'
<1> DEFINE qs == Append(requests, Request(api, mail))
           n == Len(requests) + 1
<1>1. /\ requests' = qs /\ mask' = TRUE /\ asked' = asked + 1
      /\ UNCHANGED <<page, form, blocked, countdowns, jumps>>
  BY DEF Send
<1>2. /\ Formed(qs) /\ DOMAIN qs = DOMAIN requests \cup {n} /\ n \notin DOMAIN requests
      /\ \A i \in DOMAIN requests : qs[i] = requests[i]
      /\ qs[n].kind = "live" /\ qs[n].api = api
  BY Added DEF Screen
<1> HIDE DEF qs, n
<1>3. PageTypes' /\ OneCountdown'
  BY <1>1 DEF Screen, PageTypes, OneCountdown
<1>4. Formed(requests)'
  BY <1>1, <1>2 DEF Formed
<1>5. page \in MailPages => NoneLive(requests) /\ countdowns = 0
  <2>1. ASSUME page \in MailPages PROVE countdowns = 0
    <3>1. countdowns \in Nat /\ countdowns <= 1 /\ countdowns # 1
      BY <2>1 DEF Screen, PageTypes, OneCountdown, MailPages
    <3>2. QED
      BY <3>1
  <2>2. QED
    BY <2>1 DEF Screen, WaitsFor, NoneLive
<1>6. WaitsFor(requests)'
  <2>1. \A i \in DOMAIN qs : qs[i].kind = "live" => qs[i].api = page
    BY <1>2 DEF Screen, WaitsFor
  <2>2. page \in MailPages => \A i \in DOMAIN qs : qs[i].kind = "live" => i = n
    BY <1>2, <1>5 DEF NoneLive
  <2>3. QED
    BY <1>1, <1>5, <2>1, <2>2 DEF WaitsFor
<1>7. QED
  BY <1>3, <1>4, <1>6 DEF Screen

\* A page loaded waits for its own request only, whatever was under way.
LEMMA LoadScreen ==
    ASSUME Sound, NEW p \in Pages, NEW mail \in Mail, Load(p, mail)
    PROVE  Screen'
<1>1. PageTypes /\ SessionTypes' /\ Formed(requests) /\ form \in Mail
  BY DEF Sound, Screen, PageTypes, Load, storage, SessionTypes
<1>2. Formed(Lost(requests)) /\ NoneLive(Lost(requests)) /\ 0 \in Nat
  BY <1>1, LeftRequests
<1>3. Mount(Where(p, mail), mail, Lost(requests), 0)
  BY DEF Load
<1>4. QED
  BY <1>1, <1>2, <1>3, MountScreen

LEMMA JumpScreen ==
    ASSUME Screen, Jump
    PROVE  Screen'
<1>1. /\ PageTypes /\ OneCountdown /\ Formed(requests) /\ WaitsFor(requests)
      /\ jumps' \in Nat /\ asked' = asked
  BY DEF Screen, PageTypes, Jump
<1>2. CASE Where("login", None) = page
  <2>1. requests' = requests /\ UNCHANGED <<page, form, mask, blocked, countdowns>>
    BY <1>2 DEF Jump, instance
  <2>2. QED
    BY <1>1, <2>1 DEF Screen, PageTypes, OneCountdown, Formed, WaitsFor
<1>3. CASE Where("login", None) # page
  <2> DEFINE qs == Orphaned(requests)
             w == Where("login", None)
  <2>1. w \in {"login", "away"}
    BY DEF Where
  <2>2. Show(w, None, FALSE) /\ requests' = qs
    BY <1>3 DEF Jump
  <2>3. Formed(qs) /\ NoneLive(qs)
    BY <1>1, LeftRequests DEF PageTypes
  <2> HIDE DEF qs, w
  <2>4. /\ page' \in {"login", "away"} /\ form' = None /\ mask' = FALSE
        /\ blocked' \in BOOLEAN /\ ~blocked' /\ countdowns' = 0
    <3>1. /\ page' = w /\ form' = None /\ mask' = FALSE
          /\ blocked' = (w \in {"mail_forget", "activate"})
          /\ countdowns' = IF w = "mail_forget" THEN 1 ELSE 0
      BY <2>2 DEF Show
    <3>2. w \notin {"mail_forget", "activate"}
      BY <2>1
    <3>3. blocked' \in BOOLEAN
      BY <3>1
    <3>4. ~blocked'
      BY <3>1, <3>2
    <3>5. countdowns' = 0
      BY <3>1, <3>2
    <3>6. QED
      BY <2>1, <3>1, <3>3, <3>4, <3>5
  <2>5. PageTypes' /\ OneCountdown'
    BY <1>1, <2>4 DEF PageTypes, OneCountdown, Pages, Mail
  <2>6. Formed(requests)' /\ WaitsFor(requests)'
    BY <2>2, <2>3, <2>4 DEF Formed, WaitsFor, NoneLive, MailPages
  <2>7. QED
    BY <2>5, <2>6 DEF Screen
<1>4. QED
  BY <1>2, <1>3

\* One countdown ran, and no request that would start another.
LEMMA CountdownScreen ==
    ASSUME Screen, page \in MailPages, CountdownEnds
    PROVE  Screen'
<1>1. /\ countdowns' = countdowns - 1 /\ blocked' = FALSE /\ countdowns > 0
      /\ UNCHANGED <<page, form, mask, jumps, requests, asked>>
  BY DEF CountdownEnds, network
<1>2. countdowns = 1 /\ countdowns' = 0
  BY <1>1 DEF Screen, PageTypes, OneCountdown, MailPages
<1>3. PageTypes'
  <2>1. blocked' \in BOOLEAN
    BY <1>1, Zenon
  <2>2. countdowns' \in Nat
    BY <1>2
  <2>3. QED
    BY <1>1, <2>1, <2>2 DEF Screen, PageTypes
<1>4. OneCountdown'
  <2>1. ~blocked' /\ countdowns' # 1 /\ countdowns' <= 1
    BY <1>1, <1>2
  <2>2. QED
    BY <2>1 DEF OneCountdown
<1>5. Formed(requests)' /\ WaitsFor(requests)'
  BY <1>1, <1>2 DEF Screen, Formed, WaitsFor
<1>6. QED
  BY <1>3, <1>4, <1>5 DEF Screen

\* The user types on a page without a mail of its own.
LEMMA EditScreen ==
    ASSUME Screen, NEW mail \in Emails, Edit(mail)
    PROVE  Screen'
<1>1. /\ form' \in Mail /\ page \in {"login", "register", "forget"}
      /\ UNCHANGED <<page, mask, blocked, countdowns, jumps, requests, asked>>
  BY DEF Edit, network, Mail
<1>2. PageTypes' /\ OneCountdown'
  BY <1>1 DEF Screen, PageTypes, OneCountdown
<1>3. Formed(requests)' /\ WaitsFor(requests)'
  BY <1>1 DEF Screen, Formed, WaitsFor
<1>4. QED
  BY <1>2, <1>3 DEF Screen

LEMMA StillScreen ==
    ASSUME Screen, UNCHANGED <<instance, network>>
    PROVE  Screen'
<1>1. UNCHANGED <<page, form, mask, blocked, countdowns, jumps, requests, asked>>
  BY DEF instance, network
<1>2. PageTypes' /\ OneCountdown'
  BY <1>1 DEF Screen, PageTypes, OneCountdown
<1>3. Formed(requests)' /\ WaitsFor(requests)'
  BY <1>1 DEF Screen, Formed, WaitsFor
<1>4. QED
  BY <1>2, <1>3 DEF Screen

\* Steps that leave the session and the backend as they are.
LEMMA SameSession ==
    ASSUME Sound, UNCHANGED <<storage, backend>>
    PROVE  SessionTypes' /\ BackendTypes'
BY DEF Sound, SessionTypes, BackendTypes, storage, backend

LEMMA SoundStep == Sound /\ [Next]_vars => Sound'
<1> SUFFICES ASSUME Sound, [Next]_vars PROVE Sound'
  OBVIOUS
<1>1. /\ Screen /\ PageTypes /\ page \in Pages /\ form \in Mail /\ None \in Mail
      /\ Formed(requests) /\ WaitsFor(requests)
  BY DEF Sound, Screen, PageTypes, Mail
<1>2. ASSUME NEW i \in DOMAIN requests, Answer(i) PROVE Sound'
  BY <1>2, AnswerSession, AnswerScreen DEF Sound
<1>3. ASSUME NEW p \in Visited, GoTo(p) PROVE Sound'
  <2>1. SessionTypes' /\ BackendTypes' /\ p \in Pages
    BY <1>3, SameSession, ConstantsAssumption DEF GoTo
  <2>2. Push(p, requests)
    BY <1>3 DEF GoTo
  <2>3. QED
    BY <1>1, <2>1, <2>2, PushScreen DEF Sound
<1>4. ASSUME NEW p \in Pages, NEW mail \in Mail, Load(p, mail) PROVE Sound'
  <2>1. SessionTypes' /\ BackendTypes'
    BY <1>4, SameSession DEF Load
  <2>2. QED
    BY <1>4, <2>1, LoadScreen DEF Sound
<1>5. ASSUME NEW mail \in Emails, Edit(mail) PROVE Sound'
  <2>1. SessionTypes' /\ BackendTypes'
    BY <1>5, SameSession DEF Edit
  <2>2. QED
    BY <1>1, <1>5, <2>1, EditScreen DEF Sound
<1>6. CASE Submit
  <2>1. SessionTypes' /\ BackendTypes'
    BY <1>6, SameSession DEF Submit, Send
  <2>2. Send(page, form) /\ page \in Apis /\ form # None /\ page \notin MailPages
    BY <1>6 DEF Submit, Apis, Forms, MailPages
  <2>3. QED
    BY <1>1, <2>1, <2>2, SendScreen DEF Sound
<1>7. CASE SubmitSettings
  <2>1. SessionTypes' /\ BackendTypes'
    BY <1>7, SameSession DEF SubmitSettings, Send
  <2>2. Send("settings", email) /\ page = "settings" /\ "settings" \in Apis /\ email \in Mail
    BY <1>7 DEF SubmitSettings, Apis, Forms, Sound, SessionTypes
  <2>3. page \notin MailPages
    BY <2>2 DEF MailPages
  <2>4. QED
    BY <1>1, <2>1, <2>2, <2>3, SendScreen DEF Sound
<1>8. CASE SendAgain
  <2>1. SessionTypes' /\ BackendTypes'
    BY <1>8, SameSession DEF SendAgain, Send
  <2>2. Send(page, form) /\ page \in Apis /\ ~mask /\ ~blocked /\ page \notin {"activate", "reset"}
    BY <1>8 DEF SendAgain, Apis
  <2>3. QED
    BY <1>1, <2>1, <2>2, SendScreen DEF Sound
<1>9. CASE AgainCode
  <2>1. SessionTypes' /\ BackendTypes'
    BY <1>1, <1>9 DEF AgainCode, Sound, SessionTypes, BackendTypes, backend
  <2>2. Push("activation", requests) /\ "activation" \in Pages
    BY <1>9 DEF AgainCode, Pages
  <2>3. QED
    BY <1>1, <2>1, <2>2, PushScreen DEF Sound
<1>10. CASE page \in MailPages /\ CountdownEnds
  <2>1. SessionTypes' /\ BackendTypes'
    BY <1>10, SameSession DEF CountdownEnds
  <2>2. QED
    BY <1>1, <1>10, <2>1, CountdownScreen DEF Sound
<1>11. CASE Ages
  <2>1. SessionTypes' /\ BackendTypes'
    BY <1>11 DEF Ages, Sound, SessionTypes, BackendTypes, backend
  <2>2. QED
    BY <1>1, <1>11, <2>1, StillScreen DEF Ages, Sound
<1>12. CASE Jump
  <2>1. SessionTypes' /\ BackendTypes'
    BY <1>12, SameSession DEF Jump
  <2>2. QED
    BY <1>1, <1>12, <2>1, JumpScreen DEF Sound
<1>13. CASE UNCHANGED vars
  <2>1. SessionTypes' /\ BackendTypes'
    BY <1>13, SameSession DEF vars
  <2>2. QED
    BY <1>1, <1>13, <2>1, StillScreen DEF vars, Sound
<1>14. CASE LoginPage \/ RegisterPage \/ ForgetPage \/ ResetPage
  BY <1>14, <1>5, <1>6 DEF LoginPage, RegisterPage, ForgetPage, ResetPage
<1>15. CASE SettingsPage \/ ActivationPage \/ MailForgetPage
  BY <1>15, <1>7, <1>8, <1>10 DEF SettingsPage, ActivationPage, MailForgetPage, MailPages
<1>16. CASE \E p \in {"activate", "reset"}, mail \in Emails : OpenLink(p, mail)
  BY <1>16, <1>4 DEF OpenLink, Pages, Mail
<1>17. CASE Reload
  <2>1. LinkMail \in Mail
    BY <1>1 DEF LinkMail
  <2>2. QED
    BY <1>1, <1>4, <1>17, <2>1 DEF Reload
<1>18. QED
  BY <1>2, <1>3, <1>9, <1>11, <1>12, <1>13, <1>14, <1>15, <1>16, <1>17 DEF Next, ActivatePage

LEMMA AlwaysSound == Spec => []Sound
<1>1. Init => Sound
  <2> SUFFICES ASSUME Init PROVE Sound
    OBVIOUS
  <2>1. PageTypes /\ SessionTypes /\ OneCountdown
    BY DEF Init, PageTypes, SessionTypes, OneCountdown, Pages, Mail
  <2>2. BackendTypes
    BY ConstantsAssumption DEF Init, BackendTypes
  <2>3. Formed(requests) /\ WaitsFor(requests)
    BY DEF Init, Formed, WaitsFor, MailPages
  <2>4. QED
    BY <2>1, <2>2, <2>3 DEF Sound, Screen
<1>2. QED
  BY <1>1, SoundStep, PTL DEF Spec

\* For any accounts, pages and number of requests, and however the user came to a page: the
\* variables have their types, a page that mails knows whom to, and its button waits for one
\* countdown (activation/index.vue, mailForget/index.vue, sendAgain): the mask keeps a second
\* request from starting another.
THEOREM PagesKept == Spec => []PagesInv
<1>1. Sound => TypeOK /\ OneCountdown
  <2> SUFFICES ASSUME Sound PROVE TypeOK /\ OneCountdown
    OBVIOUS
  <2>1. \A i \in DOMAIN requests :
          requests[i] \in [api : Apis, mail : Mail, form : Mail, kind : {"live", "orphan", "lost"}]
    <3>1. \A i \in DOMAIN requests : requests[i] \in RequestType
      BY DEF Sound, Screen, Formed
    <3>2. QED
      BY <3>1 DEF RequestType, RequestKinds
  <2>2. QED
    BY <2>1 DEF Sound, Screen, PageTypes, SessionTypes, BackendTypes, TypeOK
<1>2. Sound /\ Founded => PagesInv
  BY <1>1 DEF PagesInv, Founded
<1>3. QED
  BY <1>2, AlwaysSound, AlwaysFounded, PTL
=============================================================================
