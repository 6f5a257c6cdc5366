------------------------------ MODULE AccountForms ------------------------------
(***************************************************************************)
(* The forms of the accounts: an administrator creates an account, changes *)
(* it or resets its password (app/accounts.js, account-update.js,          *)
(* account-password.js), a user changes a password (app/password.js) or    *)
(* chooses a language (app/profile.js, controller/header.js).              *)
(***************************************************************************)
EXTENDS Naturals, FiniteSets

CONSTANTS
  Login,            \* names of accounts
  Password, Untyped, \* what is typed in a field of a password, and nothing
  Lang,             \* languages
  MaxCalls          \* bound on the calls in flight

ASSUME AccountsAssumption == Untyped \notin Password /\ MaxCalls \in Nat

VARIABLES
  accounts,   \* on the server
  form,       \* the form that is open
  calls,      \* creations and changes that were sent
  address,    \* the address of the page
  language,   \* of the user, on the server
  twice       \* history: passwords that were typed twice for an account, none empty

accountsVars == <<accounts, form, calls, address, language, twice>>

FormKinds == {"create", "update", "reset", "own"}
Modes == {"builtin", "ldap"}
Roles == {"ROLE_USER", "ROLE_ADMIN"}
Typed == Password \cup {Untyped}

NoAccount == [mode |-> "none", role |-> "ROLE_USER", password |-> Untyped]
NoForm == [kind |-> "none", login |-> Untyped, mode |-> "builtin", role |-> "ROLE_USER",
           old |-> Untyped, password |-> Untyped, confirm |-> Untyped, shown |-> FALSE, required |-> FALSE,
           error |-> FALSE]

\* The address of a page: the language it asks for, whether another parameter holds the
\* word, as the page to go back to after signing in, and whether it ends with a mark.
Address == [language : {{}} \cup {{lang} : lang \in Lang}, word : BOOLEAN, mark : BOOLEAN]

AccountsInit ==
  /\ accounts = [l \in Login |-> NoAccount]
  /\ form = NoForm /\ calls = {}
  /\ address \in {a \in Address : ~a.word}
  /\ language \in Lang
  /\ twice = {}

-----------------------------------------------------------------------------
(* A form.  Its role is the first of the list, whatever the role of the account. *)

Opened(kind, login) ==
  [NoForm EXCEPT !.kind = kind, !.login = login, !.shown = kind # "update", !.required = kind # "update"]

OpenForm(kind, l) ==
  /\ form = NoForm
  /\ kind # "create" => accounts[l] # NoAccount
  /\ form' = Opened(kind, l)
  /\ UNCHANGED <<accounts, calls, address, language, twice>>

LeaveForm ==
  /\ form # NoForm
  /\ form' = NoForm
  /\ UNCHANGED <<accounts, calls, address, language, twice>>

\* The handler of the mode: the fields of the passwords are shown and required, or not.
ChooseMode(mode) ==
  /\ form.kind = "create" /\ form.mode # mode
  /\ form' = [form EXCEPT !.mode = mode, !.shown = mode = "builtin", !.required = mode = "builtin"]
  /\ UNCHANGED <<accounts, calls, address, language, twice>>

ChooseRole(role) ==
  /\ form.kind \in {"create", "update"}
  /\ form' = [form EXCEPT !.role = role]
  /\ UNCHANGED <<accounts, calls, address, language, twice>>

\* The password that a user changes.
TypeOld(t) ==
  /\ form.kind = "own"
  /\ form' = [form EXCEPT !.old = t]
  /\ UNCHANGED <<accounts, calls, address, language, twice>>

TypePassword(t) ==
  /\ form.shown
  /\ form' = [form EXCEPT !.password = t]
  /\ UNCHANGED <<accounts, calls, address, language, twice>>

TypeConfirm(t) ==
  /\ form.shown
  /\ form' = [form EXCEPT !.confirm = t]
  /\ UNCHANGED <<accounts, calls, address, language, twice>>

-----------------------------------------------------------------------------
(* Submitting it.                                                            *)

\* What the browser checks: the confirmation is not required to reset a password.
Submittable ==
  /\ form.required => form.password # Untyped
  /\ form.required /\ form.kind # "reset" => form.confirm # Untyped
  /\ form.kind = "own" => form.old # Untyped

\* Mutant: the passwords are not compared.
ConfirmedAnyway(f) == TRUE

Confirmed(f) == f.kind = "update" \/ f.mode # "builtin" \/ f.password = f.confirm

\* values: the fields are sent as they are, the hidden ones too.
Values == [kind |-> form.kind, login |-> form.login, mode |-> form.mode, role |-> form.role,
           old |-> form.old, password |-> form.password, outcome |-> "pending", heard |-> TRUE]

MayCall == Cardinality(calls) < MaxCalls

SubmitAccount ==
  /\ form # NoForm /\ Submittable
  /\ IF Confirmed(form)
     THEN MayCall /\ calls' = calls \cup {Values} /\ UNCHANGED form
     ELSE form' = [form EXCEPT !.error = TRUE] /\ UNCHANGED calls
  /\ twice' = twice \cup IF form.password = form.confirm /\ form.password # Untyped
                         THEN {<<form.login, form.password>>} ELSE {}
  /\ UNCHANGED <<accounts, address, language>>

\* The language of the profile is changed by a call as well.
ChooseLanguage(lang) ==
  /\ MayCall /\ form = NoForm
  /\ calls' = calls \cup {[Values EXCEPT !.kind = "language", !.login = lang]}
  /\ UNCHANGED <<accounts, form, address, language, twice>>

-----------------------------------------------------------------------------
(* The server and its answers.                                               *)

Refused(call) ==
  LET account == accounts[call.login] IN
  \/ call.kind = "create" /\ (account # NoAccount \/ (call.mode = "builtin" /\ call.password = Untyped))
  \/ call.kind = "own" /\ (account.mode # "builtin" \/ account.password # call.old)

\* The password of an account that is not built in is not changed, without an error.
Changed(account, call) ==
  CASE call.kind = "create" -> [mode |-> call.mode, role |-> call.role, password |-> call.password]
    [] call.kind = "update" -> [account EXCEPT !.role = call.role]
    [] call.kind \in {"reset", "own"} /\ account.mode = "builtin" -> [account EXCEPT !.password = call.password]
    [] OTHER -> account

\* A page that was left does not hear the outcome.
Answered(call, outcome) ==
  (calls \ {call}) \cup IF call.heard THEN {[call EXCEPT !.outcome = outcome]} ELSE {}

ServeAccount(call) ==
  /\ call.outcome = "pending" /\ call.kind # "language"
  /\ calls' = Answered(call, IF Refused(call) THEN "refused" ELSE "ok")
  /\ accounts' = IF Refused(call) THEN accounts
                 ELSE [accounts EXCEPT ![call.login] = Changed(@, call)]
  /\ UNCHANGED <<form, address, language, twice>>

ServeLanguage(call) ==
  /\ call.outcome = "pending" /\ call.kind = "language"
  /\ calls' = Answered(call, "ok")
  /\ language' = call.login
  /\ UNCHANGED <<accounts, form, address, twice>>

\* Another page is loaded.
Unheard == {[c EXCEPT !.heard = FALSE] : c \in {d \in calls : d.outcome = "pending"}}

\* The page is loaded again, or the page of the accounts.
AccountDone(call) ==
  /\ call.outcome = "ok"
  /\ calls' = Unheard
  /\ form' = NoForm
  /\ UNCHANGED <<accounts, address, language, twice>>

\* The message is shown in the form, when it is still there; the form of a user's own
\* password is loaded again.
AccountNotDone(call) ==
  /\ call.outcome = "refused"
  /\ IF call.kind = "own" THEN calls' = Unheard /\ form' = NoForm
     ELSE /\ calls' = calls \ {call}
          /\ form' = IF form.kind = call.kind THEN [form EXCEPT !.error = TRUE] ELSE form
  /\ UNCHANGED <<accounts, address, language, twice>>

-----------------------------------------------------------------------------
\* goto: the page to go back to is a parameter of the page to sign in.
SignIn ==
  /\ form = NoForm
  /\ address' = [language |-> {}, word |-> address.word \/ address.language # {}, mark |-> FALSE]
  /\ calls' = Unheard
  /\ UNCHANGED <<accounts, form, language, twice>>

\* changeLanguage: the language that the address asks for is replaced; nothing is
\* when the word stands in another parameter.
ReplaceLanguage(lang) ==
  /\ form = NoForm
  /\ address.language # {} \/ address.word
  /\ address' = IF address.language # {} THEN [address EXCEPT !.language = {lang}] ELSE address
  /\ calls' = Unheard
  /\ UNCHANGED <<accounts, form, language, twice>>

\* Or it is added at the end of the address: after the mark, nothing is loaded.
AddLanguage(lang) ==
  /\ form = NoForm
  /\ address.language = {} /\ ~address.word
  /\ IF address.mark THEN UNCHANGED <<address, calls>>
     ELSE address' = [address EXCEPT !.language = {lang}] /\ calls' = Unheard
  /\ UNCHANGED <<accounts, form, language, twice>>

AccountsNext ==
  \/ \E kind \in FormKinds, l \in Login : OpenForm(kind, l)
  \/ LeaveForm
  \/ \E mode \in Modes : ChooseMode(mode)
  \/ \E role \in Roles : ChooseRole(role)
  \/ \E t \in Typed : TypeOld(t)
  \/ \E t \in Typed : TypePassword(t)
  \/ \E t \in Typed : TypeConfirm(t)
  \/ SubmitAccount
  \/ \E lang \in Lang : ChooseLanguage(lang)
  \/ \E call \in calls : ServeAccount(call)
  \/ \E call \in calls : ServeLanguage(call)
  \/ \E call \in calls : AccountDone(call)
  \/ \E call \in calls : AccountNotDone(call)
  \/ SignIn
  \/ \E lang \in Lang : ReplaceLanguage(lang)
  \/ \E lang \in Lang : AddLanguage(lang)

AccountsSpec == AccountsInit /\ [][AccountsNext]_accountsVars

-----------------------------------------------------------------------------
\* The password of an account of the application was typed twice, and it is not empty:
\* whatever modes were chosen on the way, and whichever answers came late.  The
\* administrator the database is created with (init.sql) was typed in no form: he is not
\* among the accounts of the model until one of the forms changes his password.
PasswordsConfirmed ==
  \A l \in Login : accounts[l].mode = "builtin" =>
    <<l, accounts[l].password>> \in twice
=================================================================================
