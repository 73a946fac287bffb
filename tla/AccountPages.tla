---------------------------- MODULE AccountPages ----------------------------
(***************************************************************************)
(* The pages of the web front end for accounts with e-mail and password:   *)
(*                                                                         *)
(*   login         sign in                                                 *)
(*   register  ->  activation (mail sent, send again)                      *)
(*                 activate   (the link of the mail)        -> login       *)
(*   forget    ->  mail_forget (mail sent, send again)                     *)
(*                 reset      (the link of the mail)                       *)
(*                   -> success                             -> login       *)
(*   settings      change the password                      -> login       *)
(*                                                                         *)
(* Requests are answered in any order, by the backend or with an error.    *)
(* Their callbacks outlive the page: they write the storage and push a     *)
(* route whatever is shown by then, and they read the form when they run.  *)
(* Enter submits a form even under its mask; a click does not.             *)
(*                                                                         *)
(* One browser tab.  The forms are filled in well; "away" is any other     *)
(* page.  The backend of accounts is another program: what it does is what *)
(* these pages expect of it.                                               *)
(***************************************************************************)
EXTENDS Integers, Sequences, SequencesExt

CONSTANTS
    Emails,      \* addresses of accounts
    None,
    Registered,  \* the accounts there are already
    Visited,     \* the pages the user goes to
    MaxRequests  \* bound: requests, those a page sends of itself after one not counted

Pages == {"login", "register", "activation", "activate", "forget", "mail_forget", "reset",
          "success", "settings", "away"}
Forms == {"login", "register", "forget", "reset", "settings"}
Apis == Forms \cup {"activation", "activate", "mail_forget"}

ASSUME ConstantsAssumption ==
    /\ None \notin Emails /\ Registered \subseteq Emails
    /\ Visited \subseteq Pages /\ MaxRequests \in Nat

VARIABLES
    page,
    form,       \* the address in the form, or in the link, of the page
    mask,
    blocked,    \* the page may not send its mail again (yet)
    countdowns, \* intervals that will unblock it
    jumps,      \* intervals that will push the login page
    requests,   \* not answered yet
    asked,      \* requests so far
    token,      \* localStorage mcsLoginAccessToken: whose it is
    email,      \* localStorage mcsLoginEmail, which the settings page sends
    registerMail, fresh, forgetMail, resetMail,   \* sessionStorage
    accounts, active, changed,  \* the backend: registered, activated, password reset
    mails       \* the links the backend has mailed

instance == <<page, form, mask, blocked, countdowns>>
network == <<jumps, requests, asked>>
storage == <<token, email, registerMail, fresh, forgetMail, resetMail>>
backend == <<accounts, active, changed, mails>>
vars == <<instance, network, storage, backend>>

(***************************************************************************)
(* Mounting a page.                                                        *)
(***************************************************************************)
\* The page a push of p, with the address mail of a link, ends on: a mounted hook pushes another
\* if what the page needs is missing.
Where(p, mail) ==
    CASE p = "login" /\ token' # None -> "away"
      [] p = "activation" /\ registerMail' = None -> "register"
      [] p = "activate" /\ mail = None -> "register"
      [] p = "mail_forget" /\ forgetMail' = None -> "forget"
      [] p = "reset" /\ mail = None -> "forget"
      [] p = "success" /\ resetMail' = None -> "forget"
      [] OTHER -> p

\* A request of the page shown ("live") takes its callbacks to that page; of a page left
\* ("orphan"), to the form it had; of a page unloaded ("lost"), nowhere.
Request(api, mail) == [api |-> api, mail |-> mail, form |-> mail, kind |-> "live"]
Orphaned(rs) ==
    [i \in DOMAIN rs |-> IF rs[i].kind = "live"
                         THEN [rs[i] EXCEPT !.kind = "orphan", !.form = form] ELSE rs[i]]
Lost(rs) == [i \in DOMAIN rs |-> [rs[i] EXCEPT !.kind = "lost"]]

\* Page p with its initial data: the reset mail's page starts its countdown, the page of an
\* activation link offers another mail only when the link was refused.
Show(p, mail, masked) ==
    /\ page' = p /\ form' = mail /\ mask' = masked
    /\ blocked' = (p \in {"mail_forget", "activate"})
    /\ countdowns' = IF p = "mail_forget" THEN 1 ELSE 0

\* Page p is mounted.  The activation page sends its mail at once if the registration is not
\* 30 seconds old, the page of an activation link asks the backend, and the page of a password
\* reset will jump.
Mount(p, mail, rs, running) ==
    LET asks == p = "activate" \/ (p = "activation" /\ fresh')
        to == IF p = "activation" THEN registerMail' ELSE IF p = "mail_forget" THEN forgetMail'
              ELSE mail
    IN /\ Show(p, to, asks)
       /\ requests' = IF asks THEN Append(rs, Request(p, to)) ELSE rs
       /\ asked' = IF asks THEN asked + 1 ELSE asked
       /\ jumps' = IF p = "success" THEN running + 1 ELSE running

\* Nothing is mounted when the page is shown already.
Push(p, rs) ==
    IF Where(p, None) = page
    THEN requests' = rs /\ UNCHANGED <<instance, jumps, asked>>
    ELSE Mount(Where(p, None), None, Orphaned(rs), jumps)

Init ==
    /\ page = "away" /\ form = None /\ mask = FALSE /\ blocked = FALSE /\ countdowns = 0
    /\ jumps = 0 /\ requests = <<>> /\ asked = 0
    /\ token = None /\ email = None /\ registerMail = None /\ fresh = FALSE
    /\ forgetMail = None /\ resetMail = None
    /\ accounts = Registered /\ active = Registered /\ changed = {} /\ mails = {}

(***************************************************************************)
(* The user.                                                               *)
(***************************************************************************)
\* The menu, a link, the address bar or the back button.  Bound: no jump runs when the user goes
\* to the success page.
GoTo(p) ==
    /\ p \in Visited /\ p # page /\ asked < MaxRequests /\ (p = "success" => jumps = 0)
    /\ UNCHANGED <<storage, backend>>
    /\ Push(p, requests)

\* The address in the link of the page shown.
LinkMail == IF page \in {"activate", "reset"} THEN form ELSE None

\* The link of a mail is opened, or the page reloaded: nothing under way survives.
Load(p, mail) ==
    /\ asked < MaxRequests
    /\ UNCHANGED <<storage, backend>>
    /\ Mount(Where(p, mail), mail, Lost(requests), 0)
OpenLink(p, mail) == <<p, mail>> \in mails /\ Load(p, mail)
Reload == Load(page, LinkMail)

\* The user types, under the mask too.
Edit(mail) ==
    /\ page \in {"login", "register", "forget"} /\ mail # form
    /\ form' = mail
    /\ UNCHANGED <<page, mask, blocked, countdowns, network, storage, backend>>

Send(api, mail) ==
    /\ asked < MaxRequests /\ asked' = asked + 1
    /\ requests' = Append(requests, Request(api, mail))
    /\ mask' = TRUE
    /\ UNCHANGED <<page, form, blocked, countdowns, jumps, storage, backend>>

\* mailLogin, mailReg, mailSend, mailReset by a click or by Enter.
Submit == page \in Forms \ {"settings"} /\ form # None /\ Send(page, form)

\* mailResetSub, by a click, with the address kept at the login.
SubmitSettings == page = "settings" /\ ~mask /\ Send("settings", email)

\* Mutant: the mail is sent again under the mask too.
SendAgainAnyway == page \in {"activation", "mail_forget"} /\ ~blocked /\ Send(page, form)

\* sendAgain of the pages of a mail sent, by a click.
SendAgain == page \in {"activation", "mail_forget"} /\ ~blocked /\ ~mask /\ Send(page, form)

\* againCode, when the activation link was refused; its question may be the last one counted.
AgainCode ==
    /\ page = "activate" /\ ~blocked /\ asked <= MaxRequests
    /\ registerMail' = form /\ fresh' = TRUE
    /\ UNCHANGED <<token, email, forgetMail, resetMail, backend>>
    /\ Push("activation", requests)

(***************************************************************************)
(* Timers.                                                                 *)
(***************************************************************************)
\* 60 seconds on the page of a reset mail, 30 on the activation page.
CountdownEnds ==
    /\ countdowns > 0 /\ countdowns' = countdowns - 1
    /\ blocked' = FALSE
    /\ UNCHANGED <<page, form, mask, network, storage, backend>>

\* The registration is 30 seconds old.
Ages ==
    /\ fresh /\ fresh' = FALSE
    /\ UNCHANGED <<instance, network, token, email, registerMail, forgetMail, resetMail, backend>>

\* 3 seconds after a success the login page is pushed, wherever the user is by then.
Jump ==
    /\ jumps > 0 /\ jumps' = jumps - 1
    /\ UNCHANGED <<storage, backend, asked>>
    /\ IF Where("login", None) = page
       THEN UNCHANGED <<instance, requests>>
       ELSE Show(Where("login", None), None, FALSE) /\ requests' = Orphaned(requests)

(***************************************************************************)
(* The backend of accounts.                                                *)
(***************************************************************************)
CanDo(r) ==
    CASE r.api \in {"login", "settings"} -> r.mail \in active
      [] r.api = "register" -> r.mail \in Emails \ accounts
      [] r.api \in {"activation", "forget", "mail_forget"} -> r.mail \in accounts
      [] OTHER -> TRUE

Done(r) ==
    /\ accounts' = IF r.api = "register" THEN accounts \cup {r.mail} ELSE accounts
    /\ active' = IF r.api = "activate" THEN active \cup {r.mail} ELSE active
    /\ changed' = IF r.api = "reset" THEN changed \cup {r.mail} ELSE changed
    /\ mails' = mails \cup (IF r.api = "activation" THEN {<<"activate", r.mail>>}
                            ELSE IF r.api \in {"forget", "mail_forget"} THEN {<<"reset", r.mail>>}
                            ELSE {})

(***************************************************************************)
(* The callbacks of a request r; rs are the requests left.                 *)
(***************************************************************************)
FormOf(r) == IF r.kind = "live" THEN form ELSE r.form

\* mask, blocked and countdowns are those of the page that sent r.
Here(r, masked, isBlocked, more) ==
    /\ IF r.kind = "live"
       THEN mask' = masked /\ blocked' = isBlocked /\ countdowns' = countdowns + more
       ELSE UNCHANGED <<mask, blocked, countdowns>>
    /\ UNCHANGED <<page, form, asked>>

\* Mutant: the login page of a request left does not push.
LoginSucceededHere(r, rs) ==
    /\ r.api = "login" /\ token' = r.mail /\ email' = FormOf(r)
    /\ UNCHANGED <<registerMail, fresh, forgetMail, resetMail>>
    /\ IF r.kind = "live" THEN Push("away", rs)
       ELSE requests' = rs /\ UNCHANGED <<instance, jumps, asked>>

\* To the page the user came from, or the upload page.  The token is that of the address that
\* was asked with; the address kept is that of the form now.
LoginSucceeded(r, rs) ==
    /\ r.api = "login" /\ token' = r.mail /\ email' = FormOf(r)
    /\ UNCHANGED <<registerMail, fresh, forgetMail, resetMail>>
    /\ Push("away", rs)

\* The address is that of the form now.
RegisterSucceeded(r, rs) ==
    /\ r.api = "register" /\ registerMail' = FormOf(r) /\ fresh' = TRUE
    /\ UNCHANGED <<token, email, forgetMail, resetMail>>
    /\ Push("activation", rs)

\* So it is here.
ForgetSucceeded(r, rs) ==
    /\ r.api = "forget" /\ forgetMail' = FormOf(r)
    /\ UNCHANGED <<token, email, registerMail, fresh, resetMail>>
    /\ Push("mail_forget", rs)

ResetSucceeded(r, rs) ==
    /\ r.api = "reset" /\ resetMail' = r.mail
    /\ UNCHANGED <<token, email, registerMail, fresh, forgetMail>>
    /\ Push("success", rs)

SettingsSucceeded(r, rs) ==
    /\ r.api = "settings" /\ token' = None /\ email' = None
    /\ UNCHANGED <<registerMail, fresh, forgetMail, resetMail>>
    /\ Push("login", rs)

\* The button waits for the countdown again.
SentAgain(r, rs) ==
    /\ r.api \in {"activation", "mail_forget"}
    /\ Here(r, FALSE, TRUE, 1) /\ requests' = rs /\ UNCHANGED <<storage, jumps>>

Activated(r, rs) ==
    /\ r.api = "activate"
    /\ Here(r, FALSE, TRUE, 0) /\ requests' = rs /\ jumps' = jumps + 1
    /\ UNCHANGED storage

Succeeded(r, rs) ==
    \/ LoginSucceeded(r, rs) \/ RegisterSucceeded(r, rs) \/ ForgetSucceeded(r, rs)
    \/ ResetSucceeded(r, rs) \/ SettingsSucceeded(r, rs) \/ SentAgain(r, rs)
    \/ Activated(r, rs)

\* Mutant: mailReset shows the next page without a look at the status.
RefusedUnread(r, rs) ==
    /\ r.api = "reset" /\ resetMail' = r.mail
    /\ UNCHANGED <<token, email, registerMail, fresh, forgetMail>>
    /\ Push("success", rs)

\* The page tells the user; the forget page does not, and stays masked.
Refused(r, rs) ==
    /\ Here(r, r.api = "forget", FALSE, 0)
    /\ requests' = rs /\ UNCHANGED <<storage, jumps>>

\* Mutant: the login page stays masked too.
FailedMasked(r, rs) ==
    /\ Here(r, TRUE, blocked, 0)
    /\ requests' = rs /\ UNCHANGED <<storage, jumps>>

\* An error, without status 401: the pages of register and of an activation link stay masked.
Failed(r, rs) ==
    /\ Here(r, r.api \in {"register", "activate"}, blocked, 0)
    /\ requests' = rs /\ UNCHANGED <<storage, jumps>>

\* FedLogOut, by the interceptors of request.js: not by the settings page.
LoggedOut(r) ==
    /\ r.api # "settings" /\ token' = None /\ email' = None
    /\ UNCHANGED <<registerMail, fresh, forgetMail, resetMail>>

\* Code -1 pushes the login page, and the callback sees a refusal.
NotSignedIn(r, rs) ==
    /\ LoggedOut(r)
    /\ IF page = "login"
       THEN Here(r, FALSE, FALSE, 0) /\ requests' = rs /\ UNCHANGED jumps
       ELSE Push("login", rs)

\* Status 401 pushes /supplierAllBack, which goes back to the page shown, or without a wallet
\* to another.  The activation page then asks again at once: bounded by MaxRequests here, by the
\* 30 seconds there.
Unauthorized(r, rs) ==
    /\ LoggedOut(r)
    /\ \E back \in {page, "away"} :
         /\ back = page => asked < MaxRequests
         /\ Mount(Where(back, LinkMail), LinkMail, Orphaned(rs), jumps)

Answer(i) ==
    LET r == requests[i]
        rs == RemoveAt(requests, i)
        done == CanDo(r) /\ Done(r)
    IN \/ r.kind # "lost" /\ done /\ Succeeded(r, rs)
       \/ r.kind # "lost" /\ UNCHANGED backend
          /\ (Refused(r, rs) \/ NotSignedIn(r, rs) \/ Unauthorized(r, rs))
       \/ r.kind # "lost" /\ (done \/ UNCHANGED backend) /\ Failed(r, rs)
       \/ r.kind = "lost" /\ (done \/ UNCHANGED backend) /\ requests' = rs
          /\ UNCHANGED <<instance, jumps, asked, storage>>

\* What each page offers.
LoginPage == page = "login" /\ (Submit \/ \E mail \in Emails : Edit(mail))
RegisterPage == page = "register" /\ (Submit \/ \E mail \in Emails : Edit(mail))
ForgetPage == page = "forget" /\ (Submit \/ \E mail \in Emails : Edit(mail))
ResetPage == page = "reset" /\ Submit
SettingsPage == SubmitSettings
ActivationPage == page = "activation" /\ (SendAgain \/ CountdownEnds)
MailForgetPage == page = "mail_forget" /\ (SendAgain \/ CountdownEnds)
ActivatePage == AgainCode

Next ==
    \/ LoginPage \/ RegisterPage \/ ForgetPage \/ ResetPage \/ SettingsPage
    \/ ActivationPage \/ MailForgetPage \/ ActivatePage
    \/ \E p \in Visited : GoTo(p)
    \/ \E p \in {"activate", "reset"}, mail \in Emails : OpenLink(p, mail)
    \/ Reload \/ Ages \/ Jump
    \/ \E i \in DOMAIN requests : Answer(i)

Spec == Init /\ [][Next]_vars

\* Requests have a timeout of 15 seconds, and timers end; nothing is assumed of the user.
FairSpec ==
    /\ Spec
    /\ WF_vars(\E i \in DOMAIN requests : Answer(i))
    /\ WF_vars(CountdownEnds) /\ WF_vars(Jump)

(***************************************************************************)
(* Properties.                                                             *)
(***************************************************************************)
Mail == Emails \cup {None}

\* The variables have their types.
TypeOK ==
    /\ page \in Pages /\ form \in Mail /\ mask \in BOOLEAN /\ blocked \in BOOLEAN
    /\ countdowns \in Nat /\ jumps \in Nat /\ asked \in Nat
    /\ \A i \in DOMAIN requests :
         requests[i] \in [api : Apis, mail : Mail, form : Mail, kind : {"live", "orphan", "lost"}]
    /\ {token, email, registerMail, forgetMail, resetMail} \subseteq Mail /\ fresh \in BOOLEAN
    /\ accounts \subseteq Emails /\ active \subseteq Emails /\ changed \subseteq Emails
    /\ mails \subseteq {"activate", "reset"} \X Emails

\* A page that sends a mail knows whom to send it to, however the user came there: by a push, by
\* the address, or by reloading it.
PagesHaveTheirMail ==
    page \in {"activation", "mail_forget", "activate", "reset"} => form # None

\* Two countdowns never run for one button: it would be free again when the first ends, before
\* the time the user is told.
OneCountdown ==
    page \in {"activation", "mail_forget"} =>
        countdowns <= 1 /\ (blocked <=> countdowns = 1)

\* The login page is never shown to a user who is signed in: late answers and timers that push
\* it find the session and go on, and the answer that signs the user in leaves it.
LoginPageMeansSignedOut == page = "login" => token = None

\* The page that tells the user the password is reset is shown after a reset the backend did.
SuccessIsTrue == page = "success" => resetMail \in changed

\* The address the settings page sends is the one that signed in.  The code does not keep this:
\* login/index.vue:211 and 214 keep the address that is in the form when the answer comes, which
\* the user may have changed under the mask.
EmailIsOfSession == token # None => email = token

\* The login page does not stay masked, whatever the answers.
LoginMaskLifted == (page = "login" /\ mask) ~> (page # "login" \/ ~mask)

\* What holds of the pages however the user came there: they have their mail, and one
\* countdown at most.
PagesInv == TypeOK /\ PagesHaveTheirMail /\ OneCountdown
=============================================================================
