------------------------------ MODULE AuthClient ------------------------------
(***************************************************************************)
(* The session of the Flutter client: the token vault, the interceptor     *)
(* that attaches and refreshes tokens, the repository's sign-in, sign-out  *)
(* and restore, and the gate that chooses the screen.                      *)
(*                                                                         *)
(* Dart runs one piece of code at a time and switches at every await, so a *)
(* step is what runs between two awaits: each write of the vault and each  *)
(* HTTP exchange is a step of its own, and several flows may be under way. *)
(* The sign-in button is disabled while a sign-in runs, but the keyboard's *)
(* submit is not; sign-out is never disabled.  The app can be killed at    *)
(* any point, after which only the vault remains.                          *)
(***************************************************************************)
EXTENDS Naturals, FiniteSets

CONSTANTS
    Accounts,     \* a user of one tenant; tokens are identified with their account
    Hosts, HostOf, \* the tenant's API host each account belongs to
    Superusers,   \* accounts whose profile says is_superuser
    DefaultHost,  \* ApiConfig.defaultBaseUrl
    Boot, Slots,  \* the restore at start-up; sign-ins and sign-outs under way
    None          \* no token, no host

ASSUME AccountsTyped ==
    /\ HostOf \in [Accounts -> Hosts]
    /\ Superusers \subseteq Accounts /\ DefaultHost \in Hosts
    /\ None \notin Accounts \cup Hosts /\ Boot \notin Slots

VARIABLES
    vault,     \* FlutterSecureStorage: access token, refresh token, API host
    base,      \* dio.options.baseUrl
    screen,    \* _SessionGateState._screen
    flow,      \* the asynchronous calls under way
    \* history
    shown,     \* the account whose profile put the screen there
    sent,      \* how often the profile request a flow waits for went out
    \* and, since the app last came to rest signed out:
    torn,      \* was the app killed between the two writes of saveTokens?
    crowded    \* did two calls of the user run at once?

vars == <<vault, base, screen, flow, shown, sent, torn, crowded>>

Flows == {Boot} \cup Slots
Tokens == Accounts \cup {None}
Vault == [access : Tokens, refresh : Tokens, host : Hosts \cup {None}]
Screens == {"booting", "login", "superAdmin", "pos"}
PCs == {"idle", "restore", "host", "obtain", "access", "refresh", "attach",
        "profile", "readRefresh", "renew", "wipeAccess", "wipeRefresh"}

(***************************************************************************)
(* A flow: the call it is (kind), its next step (at), the account typed in *)
(* or whose token it got, the host its request is bound to, the request's  *)
(* Authorization header, the refresh token read, extra['_retried'], how    *)
(* many times clearTokens is still to run, and `mounted` of its LoginView. *)
(* What is not needed any more is None.                                    *)
(***************************************************************************)
Flow == [kind : {"none", "restore", "login", "logout"}, at : PCs,
         account : Tokens, host : Hosts \cup {None}, header : Tokens,
         refresh : Tokens, retried : BOOLEAN, wipes : 0..3, mounted : BOOLEAN]

Resting == [kind |-> "none", at |-> "idle", account |-> None, host |-> None,
            header |-> None, refresh |-> None, retried |-> FALSE, wipes |-> 0,
            mounted |-> FALSE]

Start(kind, at) == [Resting EXCEPT !.kind = kind, !.at = at]

Init ==
    /\ vault = [access |-> None, refresh |-> None, host |-> None]
    /\ base = DefaultHost
    /\ screen = "booting" /\ shown = None
    /\ flow = [f \in Flows |-> IF f = Boot THEN Start("restore", "restore") ELSE Resting]
    /\ sent = [f \in Flows |-> 0]
    /\ torn = FALSE /\ crowded = FALSE

-----------------------------------------------------------------------------
(* Building blocks.                                                        *)

\* The flow's own step, the rest of the state as given.
Becomes(f, r) == flow' = [flow EXCEPT ![f] = r]
At(f, l) == flow[f].at = l

\* fetchProfile: dio.get binds the request to the base URL of the moment.
Fetching(r) == [Start(r.kind, "attach") EXCEPT !.host = base, !.mounted = r.mounted]

Landing(a) == IF a \in Superusers THEN "superAdmin" ELSE "pos"

\* setState: leaving the LoginView disposes it, and every sign-in it started.
Show(s, fs) ==
    /\ screen' = s
    /\ flow' = [f \in Flows |-> IF screen = "login" /\ s # "login" /\ fs[f].kind = "login"
                                THEN [fs[f] EXCEPT !.mounted = FALSE] ELSE fs[f]]

Done(f) == [flow EXCEPT ![f] = Resting]

\* The profile arrived: the gate shows its landing page, unless the LoginView
\* that asked is gone.
Succeed(f, a) ==
    IF flow[f].kind = "login" /\ ~flow[f].mounted
    THEN flow' = Done(f) /\ UNCHANGED <<screen, shown>>
    ELSE Show(Landing(a), Done(f)) /\ shown' = a

\* The call failed after `wipes` rounds of clearTokens; a restore adds its own
\* sign-out (tryRestoreSession), a sign-in shows the error and ends (_onSubmit).
Fail(f, wipes) ==
    LET rounds == IF flow[f].kind = "restore" THEN wipes + 1 ELSE wipes IN
    /\ IF rounds = 0
       THEN flow' = Done(f)
       ELSE Becomes(f, [Start(flow[f].kind, "wipeAccess") EXCEPT !.wipes = rounds])
    /\ UNCHANGED <<screen, shown>>

history == <<torn, crowded>>

-----------------------------------------------------------------------------
(* The user.                                                               *)

Idle(f) == flow[f].at = "idle"
AlsoBusy(f) == crowded' = (crowded \/ \E g \in Flows \ {f} : ~Idle(g))

\* _onSubmit -> login: the host is switched before anything is known of it.
Submit(f, a) ==
    /\ Idle(f) /\ screen = "login"
    /\ base' = HostOf[a]
    /\ Becomes(f, [Start("login", "host") EXCEPT !.account = a, !.mounted = TRUE])
    /\ AlsoBusy(f)
    /\ UNCHANGED <<vault, screen, shown, sent, torn>>

\* SessionGate._logout.
SignOut(f) ==
    /\ Idle(f) /\ screen \in {"superAdmin", "pos"}
    /\ Becomes(f, [Start("logout", "wipeAccess") EXCEPT !.wipes = 1])
    /\ AlsoBusy(f)
    /\ UNCHANGED <<vault, base, screen, shown, sent, torn>>

\* Mutant: main hands the stored host on without a fallback.
StoredHost == vault.host

FirstHost == IF vault.host = None THEN DefaultHost ELSE vault.host

\* The process dies and is started again (main): everything but the vault is new.
Kill ==
    /\ torn' = (torn \/ \E f \in Flows : At(f, "refresh"))
    /\ base' = FirstHost
    /\ screen' = "booting" /\ shown' = None
    /\ flow' = [f \in Flows |-> IF f = Boot THEN Start("restore", "restore") ELSE Resting]
    /\ sent' = [f \in Flows |-> 0]
    /\ UNCHANGED <<vault, crowded>>

-----------------------------------------------------------------------------
(* tryRestoreSession and login.                                            *)

\* The two reads (and main's of the host) run while nothing else can.
Restore(f) ==
    /\ At(f, "restore")
    /\ IF vault.host = None \/ vault.access = None
       THEN Show("login", Done(f)) /\ UNCHANGED base
       ELSE /\ base' = vault.host
            /\ Becomes(f, [Fetching(flow[f]) EXCEPT !.host = vault.host])
            /\ UNCHANGED screen
    /\ UNCHANGED <<vault, shown, sent, history>>

\* saveApiBaseUrl; then the token request goes to the base URL of that moment.
WriteHost(f) ==
    /\ At(f, "host")
    /\ vault' = [vault EXCEPT !.host = HostOf[flow[f].account]]
    /\ Becomes(f, [flow[f] EXCEPT !.at = "obtain", !.host = base])
    /\ UNCHANGED <<base, screen, shown, sent, history>>

\* The token service (outside the repository) knows an account at its host only;
\* it may answer with an access token alone.
Obtain(f) ==
    /\ At(f, "obtain")
    /\ \/ /\ HostOf[flow[f].account] = flow[f].host
          /\ \E r \in {flow[f].account, None} :
                Becomes(f, [flow[f] EXCEPT !.at = "access", !.refresh = r])
          /\ UNCHANGED <<screen, shown>>
       \/ Fail(f, 0)
    /\ UNCHANGED <<vault, base, sent, history>>

-----------------------------------------------------------------------------
(* TokenVault.saveTokens and clearTokens: two awaits each.                 *)

WriteAccess(f) ==
    /\ At(f, "access")
    /\ vault' = [vault EXCEPT !.access = flow[f].account]
    /\ Becomes(f, [flow[f] EXCEPT !.at = "refresh"])
    /\ UNCHANGED <<base, screen, shown, sent, history>>

\* Mutant: a missing refresh token leaves the old one in place.
KeepOldRefresh(f) ==
    IF flow[f].refresh = None THEN vault.refresh ELSE flow[f].refresh

SavedRefresh(f) == flow[f].refresh

\* After a sign-in the profile is fetched, after a renewal the request repeated.
WriteRefresh(f) ==
    /\ At(f, "refresh")
    /\ vault' = [vault EXCEPT !.refresh = SavedRefresh(f)]
    /\ IF flow[f].retried
       THEN Becomes(f, [flow[f] EXCEPT !.at = "attach", !.header = flow[f].account,
                                        !.account = None, !.refresh = None])
       ELSE Becomes(f, Fetching(flow[f]))
    /\ UNCHANGED <<base, screen, shown, sent, history>>

WipeAccess(f) ==
    /\ At(f, "wipeAccess")
    /\ vault' = [vault EXCEPT !.access = None]
    /\ Becomes(f, [flow[f] EXCEPT !.at = "wipeRefresh"])
    /\ UNCHANGED <<base, screen, shown, sent, history>>

WipeRefresh(f) ==
    /\ At(f, "wipeRefresh")
    /\ vault' = [vault EXCEPT !.refresh = None]
    /\ IF flow[f].wipes > 1
       THEN /\ Becomes(f, [flow[f] EXCEPT !.at = "wipeAccess", !.wipes = @ - 1])
            /\ UNCHANGED <<screen, shown>>
       ELSE IF flow[f].kind = "login"
            THEN flow' = Done(f) /\ UNCHANGED <<screen, shown>>
            ELSE Show("login", Done(f)) /\ shown' = None
    /\ LET clean == /\ vault'.access = None /\ screen' = "login"
                    /\ \A g \in Flows \ {f} : Idle(g) IN
       torn' = (torn /\ ~clean) /\ crowded' = (crowded /\ ~clean)
    /\ UNCHANGED <<base, sent>>

-----------------------------------------------------------------------------
(* The profile request and the interceptor around it.                      *)

\* onRequest: the vault's token replaces the header, on the repetition too.
Attach(f) ==
    /\ At(f, "attach")
    /\ Becomes(f, [flow[f] EXCEPT !.at = "profile",
                      !.header = IF vault.access = None THEN @ ELSE vault.access])
    /\ sent' = [sent EXCEPT ![f] = @ + 1]
    /\ UNCHANGED <<vault, base, screen, shown, history>>

\* Mutant: the repeated request is not marked.
NeverRetried(f) == FALSE

Retried(f) == flow[f].retried

\* The repetition runs inside the first request's try: the nested interceptor
\* clears on a 401, the outer catch clears on anything.
ProfileAnswered(f) ==
    /\ At(f, "profile")
    /\ \/ /\ flow[f].header # None /\ HostOf[flow[f].header] = flow[f].host
          /\ Succeed(f, flow[f].header)
       \/ /\ ~Retried(f)
          /\ Becomes(f, [flow[f] EXCEPT !.at = "readRefresh", !.header = None])
          /\ UNCHANGED <<screen, shown>>
       \/ /\ Retried(f)
          /\ Fail(f, 2)
       \/ Fail(f, IF Retried(f) THEN 1 ELSE 0)
    /\ sent' = [sent EXCEPT ![f] = IF At(f, "readRefresh")' THEN @ ELSE 0]
    /\ UNCHANGED <<vault, base, history>>

\* Mutant: onError forgets handler.next, and the caller waits for ever.
ExpireSilently(f) == UNCHANGED <<flow, screen, shown>>

\* onSessionExpired is never wired (main.dart): the screen stays as it is.
Expire(f) == Fail(f, 1)

ReadRefresh(f) ==
    /\ At(f, "readRefresh")
    /\ IF vault.refresh = None
       THEN Expire(f)
       ELSE /\ Becomes(f, [flow[f] EXCEPT !.at = "renew", !.refresh = vault.refresh])
            /\ UNCHANGED <<screen, shown>>
    /\ sent' = [sent EXCEPT ![f] = IF At(f, "renew")' THEN @ ELSE 0]
    /\ UNCHANGED <<vault, base, history>>

Renewed(f) ==
    /\ At(f, "renew")
    /\ \/ /\ HostOf[flow[f].refresh] = flow[f].host
          /\ Becomes(f, [flow[f] EXCEPT !.at = "access", !.account = flow[f].refresh,
                                        !.retried = TRUE])
          /\ UNCHANGED <<screen, shown>>
       \/ Fail(f, 1)
    /\ sent' = [sent EXCEPT ![f] = IF At(f, "access")' THEN @ ELSE 0]
    /\ UNCHANGED <<vault, base, history>>

-----------------------------------------------------------------------------
User == \/ \E f \in Slots : SignOut(f) \/ \E a \in Accounts : Submit(f, a)
        \/ Kill

\* Every step but the renewal's answer is sure to come: storage calls return, and
\* dio's requests time out.  The Dio made for the renewal sets no timeout.
Prompt(f) == \/ Restore(f) \/ WriteHost(f) \/ Obtain(f) \/ WriteAccess(f) \/ WriteRefresh(f)
             \/ WipeAccess(f) \/ WipeRefresh(f) \/ Attach(f) \/ ProfileAnswered(f)
             \/ ReadRefresh(f)

Next == User \/ \E f \in Flows : Prompt(f) \/ Renewed(f)

Spec == Init /\ [][Next]_vars
FairSpec == Spec /\ \A f \in Flows : WF_vars(Prompt(f))

-----------------------------------------------------------------------------
(* Every variable holds what the code can put there.                       *)
TypeOK ==
    /\ vault \in Vault /\ base \in Hosts /\ screen \in Screens /\ shown \in Tokens
    /\ flow \in [Flows -> Flow]
    /\ sent \in [Flows -> Nat]
    /\ torn \in BOOLEAN /\ crowded \in BOOLEAN

(* A 401 is answered by one renewal and one repetition: no request goes    *)
(* out a third time, whatever the server says and whoever signs in or out  *)
(* meanwhile (dio_client.dart, _retried).                                  *)
SentAtMostTwice == \A f \in Flows : sent[f] <= 2

(* At rest the app shows the landing page of the account whose tokens and  *)
(* host are in the vault, and the vault never pairs the access token of    *)
(* one account with the refresh token of another: unless a save was killed *)
(* half-way, or two calls of the user ran at once, since the app last came *)
(* to rest signed out (token_vault.dart, session_gate.dart).               *)
OneSession ==
    (\A f \in Flows : Idle(f)) /\ ~torn /\ ~crowded =>
        /\ vault.refresh \in {None, vault.access} \/ vault.access = None
        /\ screen \in {"superAdmin", "pos"} =>
              vault.access = shown /\ vault.host = HostOf[shown] /\ screen = Landing(shown)

(* Starting up, signing in and signing out come to an end, unless the app  *)
(* is killed again and again, or the server never answers a renewal (the   *)
(* one request without a timeout).                                         *)
CallsEnd ==
    <>[][~Kill]_vars =>
        \A f \in Flows : ~Idle(f) ~> (Idle(f) \/ [](At(f, "renew")))
=============================================================================
