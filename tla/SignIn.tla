--------------------------------- MODULE SignIn ---------------------------------
(***************************************************************************)
(* Signing in and changing one's password (frontend/src/components/        *)
(* Login.jsx, LoginFirebase.jsx, LoginSSO.jsx, ChangePassword.jsx, the     *)
(* Credentials tab of Settings.jsx, api.js), with the server's steps as    *)
(* the page meets them.  One person, one account, several browsers: each   *)
(* has its form, and a step of one may come between two of another.        *)
(*                                                                         *)
(* A step's token says which step it is for and nothing else.              *)
(***************************************************************************)
EXTENDS WebBase

CONSTANT Browser

VARIABLES
  account, \* pw, must (the password has to be changed), secret (of the second
           \* factor; 0: none), on (it is asked for), made (secrets so far)
  form,    \* browser -> step, temp (its token's step), shown (a secret), busy,
           \* proved (what the server accepted from it since its form came up)
  knocks,  \* requests of the forms; heard: the page still waits for the answer
  known,   \* the passwords the person set or was told
  app      \* the secrets in the person's authenticator

signVars == <<account, form, knocks, known, app>>

NewForm == [step |-> "login", temp |-> None, shown |-> 0, busy |-> FALSE, proved |-> {}]

SignInit ==
  /\ account = [pw |-> 0, must |-> FALSE, secret |-> 0, on |-> FALSE, made |-> 0]
  /\ form = [b \in Browser |-> NewForm]
  /\ knocks = {} /\ known = {0} /\ app = {}

Fresh == Cardinality(known)

-----------------------------------------------------------------------------
(* The forms: one for each step, its button off while a request is out.    *)

LocalSteps == {"login", "change_password", "totp", "totp_setup", "in"}
GoogleSteps == {"login", "totp", "totp_setup", "in"}
SsoSteps == {"login", "in"}

Steps == CASE plan.provider = "local" -> LocalSteps
           [] plan.provider = "firebase" -> GoogleSteps
           [] OTHER -> SsoSteps

AtStep(b, step) == form[b].step = step /\ step \in Steps /\ ~form[b].busy

Knock(b, what, temp, value) == [by |-> b, what |-> what, temp |-> temp, value |-> value, heard |-> TRUE]
Submits(b, what, value) ==
  /\ form' = [form EXCEPT ![b].busy = TRUE]
  /\ knocks' = knocks \cup {Knock(b, what, form[b].temp, value)}
  /\ UNCHANGED account

\* handleLogin; signing in with Google, or at the identity provider, proves who
\* one is without a password.
LogIn(b) ==
  /\ AtStep(b, "login") /\ plan.provider = "local" /\ Spend("logins")
  /\ \E p \in known : Submits(b, "login", p)
  /\ UNCHANGED <<known, app>>

GoogleSignIn(b) ==
  /\ AtStep(b, "login") /\ plan.provider = "firebase" /\ Spend("logins")
  /\ Submits(b, "google", 0)
  /\ UNCHANGED <<known, app>>

SsoSignIn(b) ==
  /\ AtStep(b, "login") /\ plan.provider = "sso" /\ Spend("logins")
  /\ Submits(b, "sso", 0)
  /\ UNCHANGED <<known, app>>

\* handlePasswordChange: a new password, typed twice.
NewPassword(b) ==
  /\ AtStep(b, "change_password") /\ Spend("submits")
  /\ Submits(b, "change", Fresh) /\ known' = known \cup {Fresh}
  /\ UNCHANGED app

\* handleTOTPVerify: six digits, of a secret in the authenticator.
SubmitCode(b) ==
  /\ AtStep(b, "totp") /\ Spend("submits")
  /\ \E s \in app : Submits(b, "verify", s)
  /\ UNCHANGED <<known, app>>

\* handleTOTPSetupVerify: the secret that is shown is scanned, then its code typed.
SubmitSetup(b) ==
  /\ AtStep(b, "totp_setup") /\ Spend("submits")
  /\ app' = app \cup {form[b].shown}
  /\ Submits(b, "enrol", form[b].shown)
  /\ UNCHANGED known

\* The Credentials tab and the Change Credentials dialog.
ChangeCredentials(b) ==
  /\ AtStep(b, "in") /\ plan.provider = "local" /\ Spend("changes")
  /\ \E p \in known : Submits(b, "credentials", <<p, Fresh>>)
  /\ known' = known \cup {Fresh}
  /\ UNCHANGED app

\* The page is loaded again: what it asked for is answered to nobody.
ReloadForm(b) ==
  /\ form[b].step # "in" /\ form[b] # NewForm /\ Spend("reloads")
  /\ form' = [form EXCEPT ![b] = NewForm]
  /\ knocks' = {[r EXCEPT !.heard = @ /\ r.by # b] : r \in knocks}
  /\ UNCHANGED <<account, known, app>>

Logout(b) ==
  /\ AtStep(b, "in") /\ Spend("changes")
  /\ form' = [form EXCEPT ![b] = NewForm]
  /\ UNCHANGED <<account, knocks, known, app>>

-----------------------------------------------------------------------------
(* The server: what a request is answered, and what it leaves behind.      *)

\* Mutant: who has changed the password is in, set up or not.
AfterwardsIn(a, what) ==
  IF a.on THEN "totp" ELSE IF plan.required /\ what # "change" THEN "totp_setup" ELSE "in"

\* The step after the password, at login and after a forced change alike.
Afterwards(a, what) == IF a.on THEN "totp" ELSE IF plan.required THEN "totp_setup" ELSE "in"

\* Mutant: a step's token replaces a second factor that is on.
MaySetUpAlways(a) == TRUE

\* Forced set-up is for who has no second factor yet.
MaySetUp(a) == ~a.on

Accepts(a, r) ==
  CASE r.what = "login" -> r.value = a.pw
    [] r.what \in {"google", "sso"} -> TRUE
    [] r.what = "change" -> r.temp = "change_password" /\ a.must
    [] r.what = "setup" -> r.temp = "totp_setup" /\ MaySetUp(a)
    [] r.what = "enrol" -> r.temp = "totp_setup" /\ MaySetUp(a) /\ a.secret = r.value /\ r.value # 0
    [] r.what = "enable" -> TRUE
    [] r.what = "verify" -> r.temp = "totp" /\ a.secret = r.value /\ r.value # 0
    [] OTHER -> r.value[1] = a.pw

\* The account after a request that is accepted.
Account(a, r) ==
  CASE r.what = "change" -> [a EXCEPT !.pw = r.value, !.must = FALSE]
    [] r.what = "credentials" -> [a EXCEPT !.pw = r.value[2], !.must = FALSE]
    [] r.what = "setup" -> [a EXCEPT !.secret = a.made + 1, !.made = a.made + 1]
    [] r.what \in {"enrol", "enable"} -> [a EXCEPT !.on = TRUE]
    [] OTHER -> a

\* The step it leads to.
Leads(a, r) ==
  CASE r.what = "login" -> IF a.must THEN "change_password" ELSE Afterwards(a, r.what)
    [] r.what \in {"google", "change"} -> Afterwards(a, r.what)
    [] r.what = "setup" -> "totp_setup"
    [] r.what = "credentials" -> "login"
    [] OTHER -> "in"

Proof(r) == CASE r.what \in {"login", "google", "sso", "change"} -> {"who"}
              [] r.what \in {"verify", "enrol", "enable"} -> {"code"}
              [] OTHER -> {}

\* A step's answer; set-up asks for a secret before its form comes up.
StepTaken(f, r, step, secret) ==
  LET g == [f EXCEPT !.busy = FALSE, !.proved = @ \cup Proof(r)]
  IN  IF r.what = "credentials" THEN NewForm
      ELSE IF r.what = "setup" THEN [g EXCEPT !.step = step, !.shown = secret]
      ELSE IF step = "totp_setup" THEN [g EXCEPT !.temp = step, !.busy = TRUE]
      ELSE IF step = "in" THEN [g EXCEPT !.step = step]
      ELSE [g EXCEPT !.step = step, !.temp = step]

\* An error is shown; a wrong password in the Credentials tab is a 401, and those
\* take the session and load the page again.
StepRefused(f, r) ==
  IF r.what = "credentials" THEN NewForm ELSE [f EXCEPT !.busy = FALSE]

\* The check of a code and the turning on are two statements.
Between(r) == Hurried /\ r.what = "enrol" /\ Accepts(account, r)

Handled(r, lost) ==
  LET ok == Accepts(account, r)                              IN
  LET a == IF ok THEN Account(account, r) ELSE account       IN
  LET step == Leads(a, r)                                    IN
  LET asks == ok /\ ~lost /\ r.heard /\ step = "totp_setup" /\ r.what # "setup"
  IN  /\ ~Between(r)
      /\ account' = a
      /\ knocks' = (knocks \ {r}) \cup IF asks THEN {Knock(r.by, "setup", step, 0)} ELSE {}
      /\ form' = IF ~r.heard THEN form
                 ELSE IF lost THEN [form EXCEPT ![r.by].busy = FALSE]
                 ELSE [form EXCEPT ![r.by] = IF ok THEN StepTaken(@, r, step, a.secret) ELSE StepRefused(@, r)]
      /\ UNCHANGED <<known, app>>

Validated(r) ==
  /\ Between(r)
  /\ knocks' = (knocks \ {r}) \cup {[r EXCEPT !.what = "enable"]}
  /\ UNCHANGED <<account, form, known, app, plan>>

AdminResets2FA ==
  /\ account.secret # 0 /\ Spend("admin")
  /\ account' = [account EXCEPT !.secret = 0, !.on = FALSE]
  /\ UNCHANGED <<form, knocks, known, app>>

\* The person is told the new password.
AdminResetsPassword ==
  /\ plan.provider = "local" /\ Spend("admin")
  /\ account' = [account EXCEPT !.pw = Fresh, !.must = TRUE]
  /\ known' = known \cup {Fresh}
  /\ UNCHANGED <<form, knocks, app>>

SignNext ==
  \/ \E b \in Browser :
       \/ LogIn(b) \/ GoogleSignIn(b) \/ SsoSignIn(b) \/ NewPassword(b) \/ SubmitCode(b)
       \/ SubmitSetup(b) \/ ChangeCredentials(b) \/ ReloadForm(b) \/ Logout(b)
  \/ \E r \in knocks : \/ Handled(r, FALSE) /\ UNCHANGED plan
                       \/ Handled(r, TRUE) /\ Spend("lost")
                       \/ Validated(r)
  \/ AdminResets2FA \/ AdminResetsPassword

-----------------------------------------------------------------------------
(* Properties                                                              *)

\* A second factor that is asked for is one the person has: nobody is locked out by
\* a set-up that another browser, a reload or a lost answer ran into.
NotLockedOut == account.on => account.secret \in app

\* Who is in has shown who they are, and a code where one is required, in this form:
\* no step was skipped, whatever else changed meanwhile.
StepsTaken ==
  \A b \in Browser : form[b].step = "in" =>
    /\ "who" \in form[b].proved
    /\ plan.required /\ plan.provider # "sso" => "code" \in form[b].proved

SignedInRight == NotLockedOut /\ (view = "sign" => StepsTaken)
=============================================================================
