-------------------------- MODULE AccountSession --------------------------
(***************************************************************************)
(* Apple accounts: doLogin() of src/app/src/App.tsx with its two-factor    *)
(* dialog, loginAppleDeveloperAccount() and the authenticate() of altsign, *)
(* the handlers that switch, delete and sign with an account, and what     *)
(* lib/account-session.ts keeps in the browser's storage.  An account is   *)
(* an Apple ID and a team; a context or a stored session is the number of  *)
(* the sign-in its token is from, 0 if there is none.  Storage accepts     *)
(* every write and anisette data is complete.                              *)
(***************************************************************************)
EXTENDS Integers, Sequences, SequencesExt

CONSTANTS
  Accounts,     \* <<Apple ID, team>>
  MaxSaved,     \* MAX_SAVED_ACCOUNTS, 12 in the code
  MaxLogins,    \* bound: sign-ins that succeed
  MaxAttempts,  \* bound: sign-ins and signings that are started
  MaxRequests   \* bound: two-factor requests of one sign-in

ASSUME AccountAssumption ==
  MaxSaved \in Nat \ {0} /\ {MaxLogins, MaxAttempts, MaxRequests} \subseteq Nat

VARIABLES
  stored,   \* localStorage: active summary, list, sessions
  contexts, \* accountContextMapRef
  active,   \* loginContext
  login,    \* the doLogin() under way
  dialog,   \* the two-factor dialog
  promise,  \* codePromise: the code and the request it was typed for
  checks,   \* checks of a code under way, for the current request
  signing,  \* the context of the handleSign() under way
  tally     \* tokens, attempts, requests, for the bounds

sessionVars == <<stored, contexts, active, login, dialog, promise, checks, signing, tally>>
twoFactorVars == <<login, dialog, promise, checks>>

NoContext == [account |-> <<>>, token |-> 0]
NoSessions == [a \in Accounts |-> 0]
NoLogin == [pc |-> "idle", id |-> "", cancelled |-> FALSE, asked |-> FALSE]
DialogClosed == [open |-> FALSE, error |-> FALSE]
NoCode == [code |-> "none", for |-> 0]
IdOf(a) == a[1]
Context(a, n) == [account |-> a, token |-> n]

SessionInit ==
  /\ stored = [summary |-> <<>>, list |-> <<>>, sessions |-> NoSessions]
  /\ contexts = NoSessions /\ active = NoContext
  /\ login = NoLogin /\ dialog = DialogClosed /\ promise = NoCode /\ checks = {}
  /\ signing = NoContext
  /\ tally = [tokens |-> 0, attempts |-> 0, requests |-> 0]

-----------------------------------------------------------------------------
(* Stored accounts                                                         *)

\* a list, which has an account once at most, without account a
Without(list, a) ==
  IF a \in ToSet(list) THEN RemoveAt(list, CHOOSE i \in DOMAIN list : list[i] = a) ELSE list

Newest(list) == SubSeq(list, 1, IF Len(list) < MaxSaved THEN Len(list) ELSE MaxSaved)

\* persistAccountSummary(): the newest first
SavedList(list, a) == Newest(<<a>> \o Without(list, a))

\* what a sign-in and a signing end with: context c is kept, stored and active
Adopt(c) ==
  /\ contexts' = [contexts EXCEPT ![c.account] = c.token]
  /\ stored' = [summary |-> c.account, list |-> SavedList(stored.list, c.account),
                sessions |-> [stored.sessions EXCEPT ![c.account] = c.token]]
  /\ active' = c

\* handleSwitchAccount(), of an account on the list
SwitchAccount(a) ==
  /\ a \in ToSet(stored.list) /\ a # active.account
  /\ stored' = [stored EXCEPT !.summary = a]
  /\ active' = IF contexts[a] = 0 THEN NoContext ELSE Context(a, contexts[a])
  /\ UNCHANGED <<contexts, twoFactorVars, signing, tally>>

\* (mutant) the sign-in outlives the account
ActiveAfterKept(a) == active

\* the last part of handleDeleteAccount()
ActiveAfter(a) == IF active.account = a THEN NoContext ELSE active

\* handleDeleteAccount()
DeleteAccount(a) ==
  /\ a \in ToSet(stored.list)
  /\ LET list == Without(stored.list, a) IN
     stored' = [list |-> list,
                sessions |-> [stored.sessions EXCEPT ![a] = 0],
                summary |-> IF stored.summary # a THEN stored.summary
                            ELSE IF list = <<>> THEN <<>> ELSE Head(list)]
  /\ contexts' = [contexts EXCEPT ![a] = 0]
  /\ active' = ActiveAfter(a)
  /\ UNCHANGED <<twoFactorVars, signing, tally>>

\* The page is loaded again: restorePersistedAccountContexts() and the effect
\* that signs the stored summary in.  What was under way is gone.
Reload ==
  /\ contexts' = stored.sessions
  /\ LET a == stored.summary IN
     active' = IF a = <<>> THEN NoContext
               ELSE IF stored.sessions[a] = 0 THEN NoContext
               ELSE Context(a, stored.sessions[a])
  /\ login' = NoLogin /\ dialog' = DialogClosed /\ promise' = NoCode /\ checks' = {}
  /\ signing' = NoContext
  /\ UNCHANGED <<stored, tally>>

-----------------------------------------------------------------------------
(* Signing                                                                 *)

\* handleSign() takes the context of its render
StartSigning ==
  /\ signing = NoContext /\ login.pc = "idle" /\ active # NoContext
  /\ tally.attempts < MaxAttempts
  /\ signing' = active
  /\ tally' = [tally EXCEPT !.attempts = @ + 1]
  /\ UNCHANGED <<stored, contexts, active, twoFactorVars>>

\* refreshAppleDeveloperContext(): the same team, another of the same Apple ID
\* when that one is gone
Refreshed(a) == {b \in Accounts : IdOf(b) = IdOf(a)}

EndSigning ==
  /\ signing # NoContext
  /\ signing' = NoContext
  /\ \/ \E b \in Refreshed(signing.account) : Adopt(Context(b, signing.token))
     \/ UNCHANGED <<stored, contexts, active>>
  /\ UNCHANGED <<twoFactorVars, tally>>

-----------------------------------------------------------------------------
(* Signing in                                                              *)

\* handleLogin(), handleMethodChosen() and the start of doLogin()
StartLogin(id) ==
  /\ login.pc = "idle" /\ ~dialog.open
  /\ tally.attempts < MaxAttempts /\ tally.tokens < MaxLogins
  /\ login' = [NoLogin EXCEPT !.pc = "anisette", !.id = id]
  /\ promise' = NoCode /\ checks' = {}
  /\ tally' = [tally EXCEPT !.attempts = @ + 1, !.requests = 0]
  /\ UNCHANGED <<stored, contexts, active, dialog, signing>>

\* the catch and finally of doLogin(): the dialog stays to show the error of a
\* request that nobody cancelled
FailLogin ==
  /\ login' = [login EXCEPT !.pc = "idle"] /\ checks' = {}
  /\ dialog' = IF login.asked /\ ~login.cancelled THEN [dialog EXCEPT !.error = TRUE]
               ELSE DialogClosed
  /\ UNCHANGED <<stored, contexts, active, promise, signing, tally>>

\* ensureAnisetteData()
Anisette ==
  /\ login.pc = "anisette"
  /\ \/ /\ login' = [login EXCEPT !.pc = "auth"]
        /\ UNCHANGED <<stored, contexts, active, dialog, promise, checks, signing, tally>>
     \/ FailLogin

\* authenticate() wants a second factor: the handler opens the dialog, and
\* codePromise, when an earlier request has resolved it, submits its code
AskCode ==
  /\ login.pc = "auth" /\ tally.requests < MaxRequests
  /\ login' = [login EXCEPT !.pc = "code", !.asked = TRUE]
  /\ dialog' = [open |-> TRUE, error |-> FALSE]
  /\ checks' = IF promise = NoCode THEN {} ELSE {"device"}
  /\ tally' = [tally EXCEPT !.requests = @ + 1]
  /\ UNCHANGED <<stored, contexts, active, promise, signing>>

\* authenticate(), fetchTeam() and refreshAppleDeveloperContext() succeed, and
\* doLogin() keeps the context
SignIn ==
  /\ login.pc = "auth" /\ tally.tokens < MaxLogins
  /\ \E a \in {b \in Accounts : IdOf(b) = login.id} : Adopt(Context(a, tally.tokens + 1))
  /\ login' = NoLogin /\ dialog' = DialogClosed /\ checks' = {}
  /\ tally' = [tally EXCEPT !.tokens = @ + 1]
  /\ UNCHANGED <<promise, signing>>

Authenticate == AskCode \/ SignIn \/ (login.pc = "auth" /\ FailLogin)

\* ctx.submitDeviceCode(): a promise resolves once
Resolved(code) == IF promise = NoCode THEN [code |-> code, for |-> tally.requests] ELSE promise
DeviceCheck == IF promise = NoCode /\ login.pc = "code" THEN checks \cup {"device"} ELSE checks

\* handleSubmit() of the dialog, for the code of a trusted device
SubmitDevice ==
  /\ dialog.open /\ ~dialog.error
  /\ promise' = Resolved("typed") /\ checks' = DeviceCheck
  /\ UNCHANGED <<stored, contexts, active, login, dialog, signing, tally>>

\* handleSubmit() of the dialog, for the code of a text message
SubmitSms ==
  /\ dialog.open /\ ~dialog.error /\ login.pc = "code"
  /\ checks' = checks \cup {"sms"}
  /\ UNCHANGED <<stored, contexts, active, login, dialog, promise, signing, tally>>

\* (mutant) closing the dialog is taken for an answer
CancelLoginSilently ==
  /\ dialog.open
  /\ dialog' = DialogClosed
  /\ login' = [login EXCEPT !.cancelled = TRUE]
  /\ UNCHANGED <<stored, contexts, active, promise, checks, signing, tally>>

\* handleTwoFactorCancel(): submits a code that Apple refuses
CancelLogin ==
  /\ dialog.open
  /\ dialog' = DialogClosed
  /\ login' = [login EXCEPT !.cancelled = TRUE]
  /\ promise' = Resolved("cancelled") /\ checks' = DeviceCheck
  /\ UNCHANGED <<stored, contexts, active, signing, tally>>

\* handleTwoFactorRetry(), up to the choice of a method
RetryLogin ==
  /\ dialog.open /\ dialog.error
  /\ dialog' = DialogClosed
  /\ UNCHANGED <<stored, contexts, active, login, promise, checks, signing, tally>>

\* the promise of handleTwoFactor() resolves to true: authenticate() again
Accepted ==
  /\ login' = [login EXCEPT !.pc = "auth"] /\ checks' = {}
  /\ UNCHANGED <<stored, contexts, active, dialog, promise, signing, tally>>

\* submitCode(): Apple's answer to the code of a device
CheckDevice ==
  /\ "device" \in checks
  /\ (promise.code = "typed" /\ Accepted) \/ FailLogin

\* submitSmsCode(): a refusal is shown in the dialog, and settles nothing
CheckSms ==
  /\ "sms" \in checks
  /\ \/ Accepted
     \/ /\ checks' = checks \ {"sms"}
        /\ UNCHANGED <<stored, contexts, active, login, dialog, promise, signing, tally>>

-----------------------------------------------------------------------------
(* Specification                                                           *)

LoginStep == Anisette \/ Authenticate \/ CheckDevice

SessionNext ==
  \/ \E a \in Accounts : SwitchAccount(a) \/ DeleteAccount(a) \/ StartLogin(IdOf(a))
  \/ Reload \/ StartSigning \/ EndSigning
  \/ LoginStep \/ CheckSms
  \/ SubmitDevice \/ SubmitSms \/ CancelLogin \/ RetryLogin

\* Apple answers what is asked, by the transport's own time limits if not
\* earlier; the user owes nothing.
SessionFair == WF_sessionVars(LoginStep)

SessionSpec == SessionInit /\ [][SessionNext]_sessionVars /\ SessionFair

-----------------------------------------------------------------------------
(* Properties                                                              *)

SessionTypeOK ==
  /\ stored \in [summary : Accounts \cup {<<>>}, list : SeqOf(Accounts, MaxSaved),
                 sessions : [Accounts -> 0..MaxLogins]]
  /\ IsInjective(stored.list)
  /\ contexts \in [Accounts -> 0..MaxLogins]
  /\ active \in [account : Accounts \cup {<<>>}, token : 0..MaxLogins]
  /\ login \in [pc : {"idle", "anisette", "auth", "code"}, cancelled : BOOLEAN,
                asked : BOOLEAN, id : {IdOf(a) : a \in Accounts} \cup {""}]
  /\ dialog \in [open : BOOLEAN, error : BOOLEAN]
  /\ promise \in [code : {"none", "typed", "cancelled"}, for : 0..MaxRequests]
  /\ checks \subseteq {"device", "sms"}
  /\ signing \in [account : Accounts \cup {<<>>}, token : 0..MaxLogins]
  /\ tally \in [tokens : 0..MaxLogins, attempts : 0..MaxAttempts, requests : 0..MaxRequests]

\* The account in use is the one that a reload signs in, with the same token,
\* and is on the list from which it can be deleted, whatever signing in,
\* signing, switching and deleting do meanwhile.
ActiveIsStored ==
  active # NoContext =>
    /\ stored.summary = active.account /\ active.account \in ToSet(stored.list)
    /\ contexts[active.account] = active.token
    /\ stored.sessions[active.account] = active.token

\* A two-factor dialog that is cancelled ends its sign-in, also when the code
\* was to come as a text message, which nothing but the dialog submits.
CancelEnds == login.cancelled ~> login.pc = "idle"

=============================================================================
