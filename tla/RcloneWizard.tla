------------------------------ MODULE RcloneWizard ------------------------------
(***************************************************************************)
(* The dashboard's wizard for rclone remotes (web/blueprints/              *)
(* rclone_config.py): forms and questions in browser tabs that share one   *)
(* session cookie, consents that Google answers by a request of its own    *)
(* or the user by pasting a URL, threads that wait for "rclone authorize", *)
(* and the table _bg_tasks that ties them together, in memory only.        *)
(*                                                                         *)
(* A request is one step.  rclone and its configuration file are external: *)
(* a call of "rclone config create" asks a further question, succeeds or   *)
(* fails.                                                                  *)
(***************************************************************************)

CONSTANTS
  RemoteNames,  \* the names of rclone remotes
  Tabs,         \* the tabs of the browser; they share the session
  Consents,     \* bound: the task ids that are drawn
  NoName,       \* no remote
  NoConsent,    \* a tab that does not show a page that waits for a consent
  NoWizard      \* no rclone_wizard in the session

\* The providers of _OAUTH_PROVIDERS, and the others.
Types == {"google", "other"}
\* What a call of "rclone config create" answers: the next question, or the end.
Questions == {"config_is_local", "other"}
Replies == Questions \union {"ok", "fails"}

\* state is the remote whose configuration the State of rclone continues.
Wizards == [name : RemoteNames \union {NoName}, type : Types \union {"none"},
            creds : BOOLEAN, asks : Questions, state : RemoteNames]

ASSUME WizardAssumption ==
  /\ NoName \notin RemoteNames
  /\ NoConsent \notin Consents
  /\ NoWizard \notin Wizards

VARIABLES
  remotes,   \* rclone's configuration file
  wizard,    \* session["rclone_wizard"]
  consents,  \* _bg_tasks
  page       \* the consent whose page each tab shows, and polls

wizardVars == <<remotes, wizard, consents, page>>

\* Of a remote's section only the token is kept, and of the token the remote that the page
\* of the consent named.
NotThere == [there |-> FALSE, token |-> NoName]
Unused == [status |-> "unused", by |-> "none", name |-> NoName, type |-> "none"]
Gone == [Unused EXCEPT !.status = "gone"]

WizardInit ==
  /\ remotes = [n \in RemoteNames |-> NotThere]
  /\ wizard = NoWizard
  /\ consents = [k \in Consents |-> Unused]
  /\ page = [t \in Tabs |-> NoConsent]

Question(n, type, creds, asks, state) ==
  [name |-> n, type |-> type, creds |-> creds, asks |-> asks, state |-> state]

Show(t, k) == page' = [page EXCEPT ![t] = k]

\* _rclone_config_create: the section is written anew, maybe without the token, unless
\* the call fails.
Calls(n, token, reply) ==
  {[remotes EXCEPT ![n] = [there |-> TRUE, token |-> v]] : v \in {token, NoName}}
  \union (IF reply = "fails" THEN {remotes} ELSE {})

--------------------------------------------------------------------------------
(* Forms and questions. *)

\* The form has the credentials or not.
CreateRemote(t, n, type, reply) ==
  /\ remotes' \in Calls(n, remotes[n].token, reply)
  /\ wizard' \in IF reply \in Questions
                 THEN {Question(n, type, creds, reply, n) : creds \in BOOLEAN}
                 ELSE {wizard}
  /\ Show(t, NoConsent)
  /\ UNCHANGED consents

\* For a remote, of Google, whose credentials are in the file; its token is not passed on.
Reconnect(t, n, reply) ==
  /\ remotes[n].there
  /\ remotes' \in Calls(n, remotes[n].token, reply)
  /\ wizard' = IF reply \in Questions THEN Question(n, "google", TRUE, reply, n) ELSE wizard
  /\ Show(t, NoConsent)
  /\ UNCHANGED consents

\* wizard_step: any answer but "true" to config_is_local.  The next question goes
\* without the credentials.
Answer(t, reply) ==
  /\ wizard # NoWizard
  /\ IF wizard.name = NoName THEN reply = "fails" /\ remotes' = remotes
     ELSE remotes' \in Calls(wizard.name, remotes[wizard.name].token, reply)
  /\ wizard' = IF reply \in Questions
               THEN Question(wizard.name, wizard.type, FALSE, reply, wizard.name)
               ELSE NoWizard
  /\ Show(t, NoConsent)
  /\ UNCHANGED consents

\* "true" to config_is_local: rclone refuses the headless flow, or Google is asked
\* without credentials.
NoConsentAsked(t, reply) ==
  /\ wizard # NoWizard
  /\ wizard.asks = "config_is_local"
  /\ reply \in Questions => wizard.type = "google" /\ ~wizard.creds
  /\ IF wizard.name = NoName THEN reply = "fails" /\ remotes' = remotes
     ELSE remotes' \in Calls(wizard.name, remotes[wizard.name].token, reply)
  /\ Show(t, NoConsent)
  /\ UNCHANGED <<wizard, consents>>

\* Mutant of AskConsent: the wizard counts as finished.
AskConsentEndsWizard(t, k, by) ==
  /\ wizard # NoWizard
  /\ wizard.asks = "config_is_local"
  /\ wizard.name # NoName
  /\ by = "thread" <=> wizard.type = "other"
  /\ wizard.type = "google" => wizard.creds
  /\ consents[k] = Unused
  /\ remotes' \in Calls(wizard.name, remotes[wizard.name].token, "ok")
  /\ consents' = [consents EXCEPT ![k] =
       [status |-> "running", by |-> by, name |-> wizard.name, type |-> wizard.type]]
  /\ Show(t, k)
  /\ wizard' = NoWizard

\* "true" to config_is_local: Google is asked, and answers to localhost or into the
\* address bar; for others a thread runs "rclone authorize".
AskConsent(t, k, by) ==
  /\ wizard # NoWizard
  /\ wizard.asks = "config_is_local"
  /\ wizard.name # NoName
  /\ by = "thread" <=> wizard.type = "other"
  /\ wizard.type = "google" => wizard.creds
  /\ consents[k] = Unused
  /\ remotes' \in Calls(wizard.name, remotes[wizard.name].token, "ok")
  /\ consents' = [consents EXCEPT ![k] =
       [status |-> "running", by |-> by, name |-> wizard.name, type |-> wizard.type]]
  /\ Show(t, k)
  /\ UNCHANGED wizard

--------------------------------------------------------------------------------
(* Consents. *)

Kept(k) == consents[k].status \notin {"unused", "gone"}

Ends(k, status) ==
  consents' = [consents EXCEPT ![k] = IF status = "gone" THEN Gone ELSE [@ EXCEPT !.status = status]]

\* Mutant of Target: the remote of the wizard in the session.
TargetIsWizard(k) ==
  IF wizard = NoWizard \/ wizard.name = NoName THEN consents[k].name ELSE wizard.name

\* The remote a token is stored under.
Target(k) == consents[k].name

\* The consent was given: the token goes to "rclone config create", five questions are
\* answered with their defaults, and "config update" adds the credentials, or fails
\* unnoticed.
Granted(k, reply) == remotes' \in Calls(Target(k), consents[k].name, reply)

\* oauth_callback, which is not part of any tab's session.  It looks at no status.
Callback(k, reply) ==
  /\ Kept(k)
  /\ consents[k].by = "callback"
  /\ Granted(k, reply)
  /\ Ends(k, IF reply \in Questions THEN "more_steps" ELSE "gone")
  /\ UNCHANGED <<wizard, page>>

\* Google reports an error, or does not exchange the code; or the consent has expired.
CallbackFails(k, status) ==
  /\ Kept(k)
  /\ consents[k].by = "callback"
  /\ status \in {"error", "gone"}
  /\ Ends(k, status)
  /\ UNCHANGED <<remotes, wizard, page>>

\* _run_bg_oauth.
ThreadEnds(k, reply) ==
  /\ consents[k].by = "thread"
  /\ consents[k].status = "running"
  /\ Granted(k, reply)
  /\ Ends(k, CASE reply \in Questions -> "more_steps" [] reply = "ok" -> "done" [] OTHER -> "error")
  /\ UNCHANGED <<wizard, page>>

\* wizard_paste_url, on the page of the consent.  It looks at no expiry; after a failure
\* the user can paste again.
Paste(t, k, reply) ==
  /\ page[t] = k
  /\ Kept(k)
  /\ consents[k].by = "paste"
  /\ Granted(k, reply)
  /\ wizard' = CASE reply \in Questions -> Question(Target(k), consents[k].type, FALSE, reply, Target(k))
                 [] reply = "ok" -> NoWizard
                 [] OTHER -> wizard
  /\ IF reply = "fails" THEN UNCHANGED <<consents, page>>
     ELSE Ends(k, "gone") /\ Show(t, NoConsent)

\* wizard_poll of what has ended: the page shows an error, also for a consent that a
\* callback has finished and removed, or the tab goes on to the next page.  The next
\* question goes under the name in the session.
Poll(t, k, asks) ==
  /\ page[t] = k
  /\ consents[k].status # "running"
  /\ Ends(k, "gone")
  /\ wizard' = CASE consents[k].status = "done" -> NoWizard
                 [] consents[k].status = "more_steps" /\ wizard = NoWizard ->
                      Question(NoName, "none", FALSE, asks, consents[k].name)
                 [] consents[k].status = "more_steps" /\ wizard # NoWizard ->
                      Question(wizard.name, wizard.type, FALSE, asks, consents[k].name)
                 [] OTHER -> wizard
  /\ Show(t, NoConsent)
  /\ UNCHANGED remotes

--------------------------------------------------------------------------------
(* The rest of the remotes' pages, and a restart. *)

\* delete, which may fail.  What update changes is not in the model.
DeleteRemote(t, n) ==
  /\ remotes' \in {[remotes EXCEPT ![n] = NotThere], remotes}
  /\ Show(t, NoConsent)
  /\ UNCHANGED <<wizard, consents>>

\* _bg_tasks and the threads are lost, the cookie and rclone's file are not.
RestartDashboard ==
  /\ consents' = [k \in Consents |-> IF consents[k] = Unused THEN Unused ELSE Gone]
  /\ UNCHANGED <<remotes, wizard, page>>

TabStep(t) ==
  \/ \E n \in RemoteNames, reply \in Replies :
       \/ \E type \in Types : CreateRemote(t, n, type, reply)
       \/ Reconnect(t, n, reply)
  \/ \E reply \in Replies : Answer(t, reply) \/ NoConsentAsked(t, reply)
  \/ \E k \in Consents :
       \/ \E by \in {"callback", "paste", "thread"} : AskConsent(t, k, by)
       \/ \E reply \in Replies : Paste(t, k, reply)
       \/ \E asks \in Questions : Poll(t, k, asks)
  \/ \E n \in RemoteNames : DeleteRemote(t, n)

WizardNext ==
  \/ \E t \in Tabs : TabStep(t)
  \/ \E k \in Consents, reply \in Replies : Callback(k, reply) \/ ThreadEnds(k, reply)
  \/ \E k \in Consents, status \in {"error", "gone"} : CallbackFails(k, status)
  \/ RestartDashboard

WizardSpec == WizardInit /\ [][WizardNext]_wizardVars

--------------------------------------------------------------------------------
(* Properties. *)

\* Type correctness of the configuration, the session, the table and the tabs.
WizardTypeOK ==
  /\ remotes \in [RemoteNames -> [there : BOOLEAN, token : RemoteNames \union {NoName}]]
  /\ wizard \in Wizards \union {NoWizard}
  /\ consents \in [Consents ->
       [status : {"unused", "running", "more_steps", "done", "error", "gone"},
        by : {"none", "callback", "paste", "thread"},
        name : RemoteNames \union {NoName}, type : Types \union {"none"}]]
  /\ page \in [Tabs -> Consents \union {NoConsent}]

\* However many consents are open, abandoned or answered late, and whatever wizard, edit
\* or restart comes between: a token is stored under the remote its page named only, and,
\* for a user of one tab, a question of rclone is put for the remote that it is about.
WizardIsOwn ==
  /\ \A n \in RemoteNames : remotes[n].token \in {NoName, n}
  /\ wizard # NoWizard => wizard.state = wizard.name
================================================================================
