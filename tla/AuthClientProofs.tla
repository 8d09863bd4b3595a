-------------------------- MODULE AuthClientProofs --------------------------
(***************************************************************************)
(* Theorems about AuthClient, for any number of accounts, hosts and calls  *)
(* of the user at once.                                                    *)
(***************************************************************************)
EXTENDS AuthClient, TLAPS

\* How often a call may have sent its request where it is now.
Fine(r, n) ==
    /\ r.at \in {"idle", "restore", "host", "obtain", "wipeAccess", "wipeRefresh"} =>
          n = 0 /\ ~r.retried
    /\ r.at \in {"access", "refresh", "attach"} => n <= 1 /\ (~r.retried => n = 0)
    /\ r.at = "profile" => n <= 2 /\ (~r.retried => n <= 1)
    /\ r.at \in {"readRefresh", "renew"} => n <= 1 /\ ~r.retried
    /\ r.at = "host" => r.account \in Accounts

SentInv == TypeOK /\ \A f \in Flows : Fine(flow[f], sent[f])

\* The call f is now r; of the others at most `mounted` has changed.
Moves(f, r) ==
    /\ flow' \in [Flows -> Flow] /\ flow'[f] = r
    /\ \A g \in Flows \ {f} :
          /\ flow'[g].at = flow[g].at /\ flow'[g].retried = flow[g].retried
          /\ flow'[g].account = flow[g].account

LEMMA RestingTyped == Resting \in Flow
  BY DEF Resting, Flow, PCs, Tokens

LEMMA StartTyped ==
    ASSUME NEW kind \in {"none", "restore", "login", "logout"}, NEW at \in PCs
    PROVE  /\ Start(kind, at) \in Flow
           /\ Start(kind, at).kind = kind /\ Start(kind, at).at = at
           /\ ~Start(kind, at).retried
<1>1. Resting \in Flow /\ ~Resting.retried
  BY RestingTyped DEF Resting
<1> QED
  BY <1>1 DEF Start, Flow

LEMMA BecomesMoves ==
    ASSUME TypeOK, NEW f \in Flows, NEW r \in Flow, Becomes(f, r)
    PROVE  Moves(f, r)
  BY DEF TypeOK, Becomes, Moves

LEMMA DoneMoves ==
    ASSUME TypeOK, NEW f \in Flows, flow' = Done(f)
    PROVE  Moves(f, Resting)
  BY RestingTyped DEF TypeOK, Done, Moves

LEMMA ShowMoves ==
    ASSUME TypeOK, NEW f \in Flows, NEW s \in Screens, Show(s, Done(f))
    PROVE  Moves(f, Resting) /\ screen' \in Screens
<1>1. Done(f) \in [Flows -> Flow]
  BY RestingTyped DEF TypeOK, Done
<1>2. \A r \in Flow : [r EXCEPT !.mounted = FALSE] \in Flow
  BY DEF Flow
<1>3. flow' \in [Flows -> Flow]
  BY <1>1, <1>2 DEF Show
<1>4. flow'[f] = Resting
  BY <1>1 DEF Show, Done, Resting, TypeOK
<1>5. \A g \in Flows \ {f} : flow'[g] \in {flow[g], [flow[g] EXCEPT !.mounted = FALSE]}
  BY <1>1 DEF Show, Done, TypeOK
<1>6. \A g \in Flows \ {f} : flow[g] \in Flow
  BY DEF TypeOK
<1>7. \A g \in Flows \ {f} : /\ flow'[g].at = flow[g].at
                             /\ flow'[g].retried = flow[g].retried
                             /\ flow'[g].account = flow[g].account
  BY <1>5, <1>6 DEF Flow
<1> QED
  BY <1>3, <1>4, <1>7 DEF Moves, Show

LEMMA SucceedMoves ==
    ASSUME TypeOK, NEW f \in Flows, NEW a \in Tokens, Succeed(f, a)
    PROVE  Moves(f, Resting) /\ screen' \in Screens /\ shown' \in Tokens
<1>1. Landing(a) \in Screens
  BY DEF Landing, Screens
<1> QED
  BY <1>1, DoneMoves, ShowMoves DEF Succeed, TypeOK

\* A failure ends the call or sends it to clear the tokens.
LEMMA FailMoves ==
    ASSUME TypeOK, NEW f \in Flows, NEW wipes \in 0..2, Fail(f, wipes)
    PROVE  /\ \E r \in Flow : /\ Moves(f, r) /\ ~r.retried
                              /\ r.at \in {"idle", "wipeAccess"}
           /\ screen' \in Screens /\ shown' \in Tokens
<1> DEFINE rounds == IF flow[f].kind = "restore" THEN wipes + 1 ELSE wipes
           r == [Start(flow[f].kind, "wipeAccess") EXCEPT !.wipes = rounds]
<1>1. flow[f] \in Flow /\ rounds \in 0..3
  BY DEF TypeOK
<1>2. r \in Flow /\ ~r.retried /\ r.at = "wipeAccess"
  <2>1. flow[f].kind \in {"none", "restore", "login", "logout"} /\ "wipeAccess" \in PCs
    BY <1>1 DEF Flow, PCs
  <2> HIDE DEF rounds
  <2> QED
    BY <1>1, <2>1, StartTyped DEF Flow
<1>3. Resting \in Flow /\ ~Resting.retried /\ Resting.at = "idle"
  BY RestingTyped DEF Resting
<1>4. flow' = Done(f) \/ Becomes(f, r)
  BY DEF Fail
<1>5. Moves(f, Resting) \/ Moves(f, r)
  BY <1>2, <1>4, BecomesMoves, DoneMoves
<1> HIDE DEF r
<1> QED
  BY <1>2, <1>3, <1>5 DEF Fail, TypeOK

\* What has to be shown of a step of f.
LEMMA FlowStep ==
    ASSUME SentInv, NEW f \in Flows, NEW r \in Flow, NEW n \in Nat,
           Moves(f, r), Fine(r, n), sent' = [sent EXCEPT ![f] = n],
           vault' \in Vault, base' \in Hosts, screen' \in Screens, shown' \in Tokens,
           torn' \in BOOLEAN, crowded' \in BOOLEAN
    PROVE  SentInv'
<1>1. sent' \in [Flows -> Nat] /\ sent'[f] = n
  BY DEF SentInv, TypeOK
<1>2. \A g \in Flows \ {f} : sent'[g] = sent[g]
  BY DEF SentInv, TypeOK
<1>3. \A g \in Flows \ {f} : Fine(flow'[g], sent'[g])
  BY <1>2 DEF SentInv, Moves, Fine
<1>4. TypeOK'
  BY <1>1 DEF TypeOK, Moves
<1> QED
  BY <1>1, <1>3, <1>4 DEF SentInv, Moves

-----------------------------------------------------------------------------
(* One lemma per action.                                                   *)

LEMMA InitSent == Init => SentInv
<1> SUFFICES ASSUME Init PROVE SentInv
  OBVIOUS
<1>1. Start("restore", "restore") \in Flow /\ ~Start("restore", "restore").retried
      /\ Start("restore", "restore").at = "restore"
  BY StartTyped DEF PCs
<1>2. Resting \in Flow /\ ~Resting.retried /\ Resting.at = "idle"
  BY RestingTyped DEF Resting
<1>3. flow \in [Flows -> Flow]
  BY <1>1, <1>2 DEF Init
<1>4. \A f \in Flows : Fine(flow[f], sent[f])
  BY <1>1, <1>2 DEF Init, Fine
<1> QED
  BY <1>3, <1>4, AccountsTyped DEF Init, SentInv, TypeOK, Vault, Tokens, Screens

LEMMA KillSent == SentInv /\ Kill => SentInv'
<1> SUFFICES ASSUME SentInv, Kill PROVE SentInv'
  OBVIOUS
<1>1. Start("restore", "restore") \in Flow /\ ~Start("restore", "restore").retried
      /\ Start("restore", "restore").at = "restore"
  BY StartTyped DEF PCs
<1>2. Resting \in Flow /\ ~Resting.retried /\ Resting.at = "idle"
  BY RestingTyped DEF Resting
<1>3. flow' \in [Flows -> Flow]
  BY <1>1, <1>2 DEF Kill
<1>4. \A f \in Flows : Fine(flow'[f], sent'[f])
  BY <1>1, <1>2 DEF Kill, Fine
<1>5. base' \in Hosts
  BY AccountsTyped DEF Kill, FirstHost, SentInv, TypeOK, Vault
<1>6. torn' \in BOOLEAN
  BY DEF Kill, SentInv, TypeOK
<1> QED
  BY <1>3, <1>4, <1>5, <1>6 DEF Kill, SentInv, TypeOK, Tokens, Screens

\* A call that starts: nothing was sent yet.
LEMMA SubmitSent ==
    ASSUME SentInv, NEW f \in Flows, NEW a \in Accounts, Submit(f, a)
    PROVE  SentInv'
<1> DEFINE r == [Start("login", "host") EXCEPT !.account = a, !.mounted = TRUE]
<1>0. Start("login", "host") \in Flow /\ Start("login", "host").at = "host"
      /\ ~Start("login", "host").retried
  BY StartTyped DEF PCs
<1>1. r \in Flow /\ ~r.retried /\ r.at = "host" /\ r.account = a
  BY <1>0 DEF Flow, Tokens
<1>2. Becomes(f, r)
  BY DEF Submit
<1>3. sent[f] = 0 /\ sent' = [sent EXCEPT ![f] = 0]
  BY DEF Submit, Idle, SentInv, Fine, TypeOK
<1>4. base' \in Hosts /\ crowded' \in BOOLEAN
  BY AccountsTyped DEF Submit, AlsoBusy, SentInv, TypeOK
<1> HIDE DEF r
<1>5. Moves(f, r) /\ Fine(r, 0)
  BY <1>1, <1>2, BecomesMoves DEF SentInv, Fine
<1> QED
  BY <1>1, <1>3, <1>4, <1>5, FlowStep DEF Submit, SentInv, TypeOK

LEMMA SignOutSent ==
    ASSUME SentInv, NEW f \in Flows, SignOut(f)
    PROVE  SentInv'
<1> DEFINE r == [Start("logout", "wipeAccess") EXCEPT !.wipes = 1]
<1>0. Start("logout", "wipeAccess") \in Flow /\ ~Start("logout", "wipeAccess").retried
      /\ Start("logout", "wipeAccess").at = "wipeAccess"
  BY StartTyped DEF PCs
<1>1. r \in Flow /\ ~r.retried /\ r.at = "wipeAccess"
  BY <1>0 DEF Flow
<1>2. Becomes(f, r)
  BY DEF SignOut
<1>3. sent[f] = 0 /\ sent' = [sent EXCEPT ![f] = 0]
  BY DEF SignOut, Idle, SentInv, Fine, TypeOK
<1>4. crowded' \in BOOLEAN
  BY DEF SignOut, AlsoBusy, SentInv, TypeOK
<1> HIDE DEF r
<1>5. Moves(f, r) /\ Fine(r, 0)
  BY <1>1, <1>2, BecomesMoves DEF SentInv, Fine
<1> QED
  BY <1>1, <1>3, <1>4, <1>5, FlowStep DEF SignOut, SentInv, TypeOK

LEMMA FetchingTyped ==
    ASSUME TypeOK, NEW r \in Flow
    PROVE  /\ Fetching(r) \in Flow
           /\ Fetching(r).at = "attach" /\ ~Fetching(r).retried
<1>1. r.kind \in {"none", "restore", "login", "logout"} /\ r.mounted \in BOOLEAN
  BY DEF Flow
<1>2. Start(r.kind, "attach") \in Flow /\ Start(r.kind, "attach").at = "attach"
      /\ ~Start(r.kind, "attach").retried
  BY <1>1, StartTyped DEF PCs
<1> QED
  BY <1>1, <1>2 DEF Fetching, Flow, TypeOK

LEMMA RestoreSent ==
    ASSUME SentInv, NEW f \in Flows, Restore(f)
    PROVE  SentInv'
<1>1. sent[f] = 0 /\ sent' = [sent EXCEPT ![f] = 0]
  BY DEF Restore, At, history, SentInv, Fine, TypeOK
<1>2. CASE vault.host = None \/ vault.access = None
  <2>1. Show("login", Done(f)) /\ UNCHANGED base
    BY <1>2 DEF Restore
  <2>2. Moves(f, Resting) /\ screen' \in Screens
    BY <2>1, ShowMoves DEF SentInv, Screens
  <2>3. Fine(Resting, 0)
    BY DEF Fine, Resting
  <2> QED
    BY <1>1, <2>1, <2>2, <2>3, RestingTyped, FlowStep
       DEF Restore, history, SentInv, TypeOK
<1>3. CASE ~(vault.host = None \/ vault.access = None)
  <2> DEFINE r == [Fetching(flow[f]) EXCEPT !.host = vault.host]
  <2>1. Becomes(f, r) /\ base' = vault.host /\ UNCHANGED screen
    BY <1>3 DEF Restore
  <2>2. vault.host \in Hosts
    BY <1>3 DEF SentInv, TypeOK, Vault
  <2>3. r \in Flow /\ ~r.retried /\ r.at = "attach"
    BY <2>2, FetchingTyped DEF SentInv, TypeOK, Flow
  <2> HIDE DEF r
  <2>4. Moves(f, r) /\ Fine(r, 0)
    BY <2>1, <2>3, BecomesMoves DEF SentInv, Fine
  <2> QED
    BY <1>1, <2>1, <2>2, <2>3, <2>4, FlowStep DEF Restore, history, SentInv, TypeOK
<1> QED
  BY <1>2, <1>3

LEMMA WriteHostSent ==
    ASSUME SentInv, NEW f \in Flows, WriteHost(f)
    PROVE  SentInv'
<1> DEFINE r == [flow[f] EXCEPT !.at = "obtain", !.host = base]
<1>1. flow[f] \in Flow /\ base \in Hosts /\ flow[f].account \in Accounts
      /\ sent[f] = 0 /\ ~flow[f].retried
  BY DEF WriteHost, At, SentInv, Fine, TypeOK
<1>2. r \in Flow /\ ~r.retried /\ r.at = "obtain"
  BY <1>1 DEF Flow, PCs
<1>3. Becomes(f, r) /\ sent' = [sent EXCEPT ![f] = 0]
  BY <1>1 DEF WriteHost, history, SentInv, TypeOK
<1>4. vault' \in Vault
  BY <1>1, AccountsTyped DEF WriteHost, SentInv, TypeOK, Vault
<1> HIDE DEF r
<1>5. Moves(f, r) /\ Fine(r, 0)
  BY <1>2, <1>3, BecomesMoves DEF SentInv, Fine
<1> QED
  BY <1>2, <1>3, <1>4, <1>5, FlowStep DEF WriteHost, history, SentInv, TypeOK

LEMMA ObtainSent ==
    ASSUME SentInv, NEW f \in Flows, Obtain(f)
    PROVE  SentInv'
<1>1. flow[f] \in Flow /\ sent[f] = 0 /\ ~flow[f].retried
  BY DEF Obtain, At, SentInv, Fine, TypeOK
<1>2. sent' = [sent EXCEPT ![f] = 0]
  BY <1>1 DEF Obtain, history, SentInv, TypeOK
<1>3. CASE Fail(f, 0)
  <2>1. PICK r \in Flow : Moves(f, r) /\ ~r.retried /\ r.at \in {"idle", "wipeAccess"}
    BY <1>3, FailMoves DEF SentInv
  <2>2. Fine(r, 0)
    BY <2>1 DEF Fine
  <2>3. screen' \in Screens /\ shown' \in Tokens
    BY <1>3, FailMoves DEF SentInv
  <2> QED
    BY <1>2, <2>1, <2>2, <2>3, FlowStep DEF Obtain, history, SentInv, TypeOK
<1>4. ASSUME NEW t \in {flow[f].account, None},
             Becomes(f, [flow[f] EXCEPT !.at = "access", !.refresh = t]),
             UNCHANGED <<screen, shown>>
      PROVE  SentInv'
  <2> DEFINE r == [flow[f] EXCEPT !.at = "access", !.refresh = t]
  <2>1. r \in Flow /\ ~r.retried /\ r.at = "access"
    BY <1>1 DEF Flow, PCs, Tokens
  <2>2. Becomes(f, r)
    BY <1>4
  <2> HIDE DEF r
  <2>3. Moves(f, r) /\ Fine(r, 0)
    BY <2>1, <2>2, BecomesMoves DEF SentInv, Fine
  <2> QED
    BY <1>2, <1>4, <2>1, <2>3, FlowStep DEF Obtain, history, SentInv, TypeOK
<1> QED
  BY <1>3, <1>4 DEF Obtain

LEMMA WriteAccessSent ==
    ASSUME SentInv, NEW f \in Flows, WriteAccess(f)
    PROVE  SentInv'
<1> DEFINE r == [flow[f] EXCEPT !.at = "refresh"]
<1>1. flow[f] \in Flow /\ sent[f] \in Nat /\ Fine(flow[f], sent[f]) /\ flow[f].at = "access"
  BY DEF WriteAccess, At, SentInv, TypeOK
<1>2. r \in Flow /\ Fine(r, sent[f])
  BY <1>1 DEF Flow, PCs, Fine
<1>3. Becomes(f, r) /\ sent' = [sent EXCEPT ![f] = sent[f]]
  BY DEF WriteAccess, SentInv, TypeOK
<1>4. vault' \in Vault
  BY <1>1 DEF WriteAccess, SentInv, TypeOK, Vault, Flow
<1> HIDE DEF r
<1>5. Moves(f, r)
  BY <1>2, <1>3, BecomesMoves DEF SentInv
<1> QED
  BY <1>1, <1>2, <1>3, <1>4, <1>5, FlowStep DEF WriteAccess, history, SentInv, TypeOK

LEMMA WriteRefreshSent ==
    ASSUME SentInv, NEW f \in Flows, WriteRefresh(f)
    PROVE  SentInv'
<1>1. flow[f] \in Flow /\ sent[f] \in Nat /\ Fine(flow[f], sent[f]) /\ flow[f].at = "refresh"
  BY DEF WriteRefresh, At, SentInv, TypeOK
<1>2. sent' = [sent EXCEPT ![f] = sent[f]]
  BY DEF WriteRefresh, SentInv, TypeOK
<1>3. vault' \in Vault
  BY <1>1 DEF WriteRefresh, SavedRefresh, SentInv, TypeOK, Vault, Flow
<1>4. CASE flow[f].retried
  <2> DEFINE r == [flow[f] EXCEPT !.at = "attach", !.header = flow[f].account,
                                   !.account = None, !.refresh = None]
  <2>1. r \in Flow /\ Fine(r, sent[f])
    BY <1>1, <1>4 DEF Flow, PCs, Fine, Tokens
  <2>2. Becomes(f, r)
    BY <1>4 DEF WriteRefresh
  <2> HIDE DEF r
  <2>3. Moves(f, r)
    BY <2>1, <2>2, BecomesMoves DEF SentInv
  <2> QED
    BY <1>1, <1>2, <1>3, <2>1, <2>3, FlowStep DEF WriteRefresh, history, SentInv, TypeOK
<1>5. CASE ~flow[f].retried
  <2> DEFINE r == Fetching(flow[f])
  <2>1. r \in Flow /\ r.at = "attach" /\ ~r.retried
    BY <1>1, FetchingTyped DEF SentInv
  <2>2. Becomes(f, r) /\ sent[f] = 0
    BY <1>1, <1>5 DEF WriteRefresh, Fine
  <2> HIDE DEF r
  <2>3. Moves(f, r) /\ Fine(r, sent[f])
    BY <2>1, <2>2, BecomesMoves DEF SentInv, Fine
  <2> QED
    BY <1>1, <1>2, <1>3, <2>1, <2>3, FlowStep DEF WriteRefresh, history, SentInv, TypeOK
<1> QED
  BY <1>4, <1>5

LEMMA WipeAccessSent ==
    ASSUME SentInv, NEW f \in Flows, WipeAccess(f)
    PROVE  SentInv'
<1> DEFINE r == [flow[f] EXCEPT !.at = "wipeRefresh"]
<1>1. flow[f] \in Flow /\ sent[f] = 0 /\ ~flow[f].retried
  BY DEF WipeAccess, At, SentInv, Fine, TypeOK
<1>2. r \in Flow /\ Fine(r, 0)
  BY <1>1 DEF Flow, PCs, Fine
<1>3. Becomes(f, r) /\ sent' = [sent EXCEPT ![f] = 0]
  BY <1>1 DEF WipeAccess, SentInv, TypeOK
<1>4. vault' \in Vault
  BY DEF WipeAccess, SentInv, TypeOK, Vault, Tokens
<1> HIDE DEF r
<1>5. Moves(f, r)
  BY <1>2, <1>3, BecomesMoves DEF SentInv
<1> QED
  BY <1>2, <1>3, <1>4, <1>5, FlowStep DEF WipeAccess, history, SentInv, TypeOK

LEMMA WipeRefreshSent ==
    ASSUME SentInv, NEW f \in Flows, WipeRefresh(f)
    PROVE  SentInv'
<1>1. flow[f] \in Flow /\ sent[f] = 0 /\ ~flow[f].retried
  BY DEF WipeRefresh, At, SentInv, Fine, TypeOK
<1>2. sent' = [sent EXCEPT ![f] = 0]
  BY <1>1 DEF WipeRefresh, SentInv, TypeOK
<1>3. vault' \in Vault
  BY DEF WipeRefresh, SentInv, TypeOK, Vault, Tokens
<1>4. torn' \in BOOLEAN /\ crowded' \in BOOLEAN
  BY DEF WipeRefresh, SentInv, TypeOK
<1>5. \/ /\ flow[f].wipes > 1
         /\ Becomes(f, [flow[f] EXCEPT !.at = "wipeAccess", !.wipes = @ - 1])
         /\ UNCHANGED <<screen, shown>>
      \/ flow' = Done(f) /\ UNCHANGED <<screen, shown>>
      \/ Show("login", Done(f)) /\ shown' = None
  BY DEF WipeRefresh
<1>6. CASE /\ flow[f].wipes > 1
           /\ Becomes(f, [flow[f] EXCEPT !.at = "wipeAccess", !.wipes = @ - 1])
           /\ UNCHANGED <<screen, shown>>
  <2> DEFINE r == [flow[f] EXCEPT !.at = "wipeAccess", !.wipes = @ - 1]
  <2>0. flow[f].wipes - 1 \in 0..3
    BY <1>1, <1>6 DEF Flow
  <2>1. r \in Flow /\ r.at = "wipeAccess" /\ ~r.retried
    BY <1>1, <2>0 DEF Flow, PCs
  <2>2. Becomes(f, r)
    BY <1>6
  <2> HIDE DEF r
  <2>3. Moves(f, r) /\ Fine(r, 0)
    BY <2>1, <2>2, BecomesMoves DEF SentInv, Fine
  <2> QED
    BY <1>2, <1>3, <1>4, <1>6, <2>1, <2>3, FlowStep DEF WipeRefresh, SentInv, TypeOK
<1>7. CASE (flow' = Done(f) /\ UNCHANGED <<screen, shown>>) \/ (Show("login", Done(f)) /\ shown' = None)
  <2>1. Moves(f, Resting) /\ screen' \in Screens /\ shown' \in Tokens
    BY <1>7, DoneMoves, ShowMoves DEF SentInv, TypeOK, Screens, Tokens
  <2>2. Fine(Resting, 0)
    BY DEF Fine, Resting
  <2> QED
    BY <1>2, <1>3, <1>4, <2>1, <2>2, RestingTyped, FlowStep DEF WipeRefresh, SentInv, TypeOK
<1> QED
  BY <1>5, <1>6, <1>7

\* The repetition is counted: it goes out once more, and is marked.
LEMMA AttachSent ==
    ASSUME SentInv, NEW f \in Flows, Attach(f)
    PROVE  SentInv'
<1> DEFINE h == IF vault.access = None THEN flow[f].header ELSE vault.access
           r == [flow[f] EXCEPT !.at = "profile", !.header = h]
<1>1. flow[f] \in Flow /\ sent[f] \in Nat /\ Fine(flow[f], sent[f]) /\ flow[f].at = "attach"
  BY DEF Attach, At, SentInv, TypeOK
<1>2. h \in Tokens
  BY <1>1 DEF SentInv, TypeOK, Vault, Flow
<1>3. Becomes(f, r) /\ sent' = [sent EXCEPT ![f] = sent[f] + 1]
  BY DEF Attach
<1> HIDE DEF h
<1>4. sent[f] + 1 \in Nat /\ sent[f] + 1 <= 2 /\ (~flow[f].retried => sent[f] + 1 <= 1)
  BY <1>1 DEF Fine
<1>5. r \in Flow /\ r.at = "profile" /\ r.retried = flow[f].retried
  BY <1>1, <1>2 DEF Flow, PCs
<1> HIDE DEF r
<1>6. Moves(f, r) /\ Fine(r, sent[f] + 1)
  BY <1>3, <1>4, <1>5, BecomesMoves DEF SentInv, Fine
<1> QED
  BY <1>3, <1>4, <1>5, <1>6, FlowStep DEF Attach, history, SentInv, TypeOK

\* A call that fails or ends forgets the count.
LEMMA EndSent ==
    ASSUME SentInv, NEW f \in Flows,
           NEW r \in Flow, Moves(f, r), ~r.retried, r.at \in {"idle", "wipeAccess"},
           screen' \in Screens, shown' \in Tokens,
           sent' = [sent EXCEPT ![f] = 0], UNCHANGED <<vault, base, history>>
    PROVE  SentInv'
<1>1. Fine(r, 0)
  BY DEF Fine
<1> QED
  BY <1>1, FlowStep DEF history, SentInv, TypeOK

LEMMA ProfileAnsweredSent ==
    ASSUME SentInv, NEW f \in Flows, ProfileAnswered(f)
    PROVE  SentInv'
<1>1. flow[f] \in Flow /\ sent[f] \in Nat /\ Fine(flow[f], sent[f]) /\ flow[f].at = "profile"
  BY DEF ProfileAnswered, At, SentInv, TypeOK
<1>2. /\ sent' = [sent EXCEPT ![f] = IF flow'[f].at = "readRefresh" THEN @ ELSE 0]
      /\ UNCHANGED <<vault, base, history>>
  BY DEF ProfileAnswered, At
<1>3. CASE Succeed(f, flow[f].header)
  <2>1. Moves(f, Resting) /\ screen' \in Screens /\ shown' \in Tokens
    BY <1>1, <1>3, SucceedMoves DEF SentInv, Flow
  <2>2. Resting \in Flow /\ ~Resting.retried /\ Resting.at = "idle"
    BY RestingTyped DEF Resting
  <2>3. sent' = [sent EXCEPT ![f] = 0]
    BY <1>2, <2>1, <2>2 DEF Moves
  <2> QED
    BY <1>2, <2>1, <2>2, <2>3, EndSent
<1>4. ASSUME NEW wipes \in 0..2, Fail(f, wipes)
      PROVE  SentInv'
  <2>1. PICK r \in Flow : Moves(f, r) /\ ~r.retried /\ r.at \in {"idle", "wipeAccess"}
    BY <1>4, FailMoves DEF SentInv
  <2>2. screen' \in Screens /\ shown' \in Tokens
    BY <1>4, FailMoves DEF SentInv
  <2>3. sent' = [sent EXCEPT ![f] = 0]
    BY <1>2, <2>1 DEF Moves
  <2> QED
    BY <1>2, <2>1, <2>2, <2>3, EndSent
<1>5. ASSUME ~Retried(f), UNCHANGED <<screen, shown>>,
             Becomes(f, [flow[f] EXCEPT !.at = "readRefresh", !.header = None])
      PROVE  SentInv'
  <2> DEFINE r == [flow[f] EXCEPT !.at = "readRefresh", !.header = None]
  <2>1. r \in Flow /\ r.at = "readRefresh" /\ ~r.retried
    BY <1>1, <1>5 DEF Flow, PCs, Tokens, Retried
  <2>2. sent[f] <= 1
    BY <1>1, <1>5 DEF Fine, Retried
  <2>3. Becomes(f, r)
    BY <1>5
  <2> HIDE DEF r
  <2>4. Moves(f, r) /\ Fine(r, sent[f])
    BY <2>1, <2>2, <2>3, BecomesMoves DEF SentInv, Fine
  <2>5. sent' = [sent EXCEPT ![f] = sent[f]]
    BY <1>2, <2>1, <2>4 DEF Moves
  <2> QED
    BY <1>1, <1>2, <1>5, <2>1, <2>4, <2>5, FlowStep DEF history, SentInv, TypeOK
<1>6. \/ Succeed(f, flow[f].header)
      \/ /\ ~Retried(f) /\ UNCHANGED <<screen, shown>>
         /\ Becomes(f, [flow[f] EXCEPT !.at = "readRefresh", !.header = None])
      \/ \E wipes \in 0..2 : Fail(f, wipes)
  <2>1. 0 \in 0..2 /\ 1 \in 0..2 /\ 2 \in 0..2
    OBVIOUS
  <2> QED
    BY <2>1 DEF ProfileAnswered
<1> QED
  BY <1>3, <1>4, <1>5, <1>6

LEMMA ReadRefreshSent ==
    ASSUME SentInv, NEW f \in Flows, ReadRefresh(f)
    PROVE  SentInv'
<1>1. flow[f] \in Flow /\ sent[f] \in Nat /\ Fine(flow[f], sent[f]) /\ flow[f].at = "readRefresh"
  BY DEF ReadRefresh, At, SentInv, TypeOK
<1>2. /\ sent' = [sent EXCEPT ![f] = IF flow'[f].at = "renew" THEN @ ELSE 0]
      /\ UNCHANGED <<vault, base, history>>
  BY DEF ReadRefresh, At
<1>3. CASE vault.refresh = None
  <2>1. Fail(f, 1)
    BY <1>3 DEF ReadRefresh, Expire
  <2>2. PICK r \in Flow : Moves(f, r) /\ ~r.retried /\ r.at \in {"idle", "wipeAccess"}
    BY <2>1, FailMoves DEF SentInv
  <2>3. screen' \in Screens /\ shown' \in Tokens
    BY <2>1, FailMoves DEF SentInv
  <2>4. sent' = [sent EXCEPT ![f] = 0]
    BY <1>2, <2>2 DEF Moves
  <2> QED
    BY <1>2, <2>2, <2>3, <2>4, EndSent
<1>4. CASE vault.refresh # None
  <2> DEFINE r == [flow[f] EXCEPT !.at = "renew", !.refresh = vault.refresh]
  <2>1. Becomes(f, r) /\ UNCHANGED <<screen, shown>>
    BY <1>4 DEF ReadRefresh
  <2>2. r \in Flow /\ r.at = "renew" /\ r.retried = flow[f].retried
    BY <1>1 DEF SentInv, TypeOK, Vault, Flow, PCs
  <2> HIDE DEF r
  <2>3. Moves(f, r) /\ Fine(r, sent[f])
    BY <1>1, <2>1, <2>2, BecomesMoves DEF SentInv, Fine
  <2>4. sent' = [sent EXCEPT ![f] = sent[f]]
    BY <1>2, <2>2, <2>3 DEF Moves
  <2> QED
    BY <1>1, <1>2, <2>1, <2>2, <2>3, <2>4, FlowStep DEF history, SentInv, TypeOK
<1> QED
  BY <1>3, <1>4

LEMMA RenewedSent ==
    ASSUME SentInv, NEW f \in Flows, Renewed(f)
    PROVE  SentInv'
<1>1. flow[f] \in Flow /\ sent[f] \in Nat /\ Fine(flow[f], sent[f]) /\ flow[f].at = "renew"
  BY DEF Renewed, At, SentInv, TypeOK
<1>2. /\ sent' = [sent EXCEPT ![f] = IF flow'[f].at = "access" THEN @ ELSE 0]
      /\ UNCHANGED <<vault, base, history>>
  BY DEF Renewed, At
<1>3. CASE Fail(f, 1)
  <2>1. PICK r \in Flow : Moves(f, r) /\ ~r.retried /\ r.at \in {"idle", "wipeAccess"}
    BY <1>3, FailMoves DEF SentInv
  <2>2. screen' \in Screens /\ shown' \in Tokens
    BY <1>3, FailMoves DEF SentInv
  <2>3. sent' = [sent EXCEPT ![f] = 0]
    BY <1>2, <2>1 DEF Moves
  <2> QED
    BY <1>2, <2>1, <2>2, <2>3, EndSent
<1> DEFINE r == [flow[f] EXCEPT !.at = "access", !.account = flow[f].refresh,
                                 !.retried = TRUE]
<1>4. CASE Becomes(f, r) /\ UNCHANGED <<screen, shown>>
  <2>1. r \in Flow /\ r.at = "access" /\ r.retried
    BY <1>1 DEF Flow, PCs
  <2>2. Becomes(f, r) /\ UNCHANGED <<screen, shown>>
    BY <1>4
  <2> HIDE DEF r
  <2>3. Moves(f, r) /\ Fine(r, sent[f])
    BY <1>1, <2>1, <2>2, BecomesMoves DEF SentInv, Fine
  <2>4. sent' = [sent EXCEPT ![f] = sent[f]]
    BY <1>2, <2>1, <2>3 DEF Moves
  <2> QED
    BY <1>1, <1>2, <2>1, <2>2, <2>3, <2>4, FlowStep DEF history, SentInv, TypeOK
<1> QED
  BY <1>3, <1>4 DEF Renewed

-----------------------------------------------------------------------------
LEMMA SentInductive == SentInv /\ [Next]_vars => SentInv'
<1> SUFFICES ASSUME SentInv, [Next]_vars PROVE SentInv'
  OBVIOUS
<1>1. ASSUME NEW f \in Slots, SignOut(f) \/ \E a \in Accounts : Submit(f, a) PROVE SentInv'
  <2>1. f \in Flows
    BY DEF Flows
  <2> QED
    BY <1>1, <2>1, SignOutSent, SubmitSent
<1>2. ASSUME NEW f \in Flows, Prompt(f) PROVE SentInv'
  BY <1>2, RestoreSent, WriteHostSent, ObtainSent, WriteAccessSent, WriteRefreshSent,
     WipeAccessSent, WipeRefreshSent, AttachSent, ProfileAnsweredSent, ReadRefreshSent
     DEF Prompt
<1>3. CASE UNCHANGED vars
  BY <1>3 DEF vars, SentInv, TypeOK, Fine
<1> QED
  BY <1>1, <1>2, <1>3, KillSent, RenewedSent DEF Next, User

(***************************************************************************)
(* The vault, the base URL, the screen and every call under way hold only  *)
(* what the code can put there (token_vault.dart, dio_client.dart,         *)
(* session_gate.dart).                                                     *)
(***************************************************************************)
THEOREM TypeCorrect == Spec => []TypeOK
<1>1. SentInv => TypeOK
  BY DEF SentInv
<1> QED
  BY <1>1, InitSent, SentInductive, PTL DEF Spec

(***************************************************************************)
(* No request goes out a third time, however many calls overlap, whatever  *)
(* the server answers, and whenever the app is killed: the mark _retried   *)
(* survives the renewal and its repetition (dio_client.dart).              *)
(***************************************************************************)
THEOREM SentAtMostTwiceHolds == Spec => []SentAtMostTwice
<1>1. SentInv => SentAtMostTwice
  <2> SUFFICES ASSUME SentInv, NEW f \in Flows PROVE sent[f] <= 2
    BY DEF SentAtMostTwice
  <2>1. flow[f].at \in PCs /\ sent[f] \in Nat /\ Fine(flow[f], sent[f])
    BY DEF SentInv, TypeOK, Flow
  <2> QED
    BY <2>1 DEF PCs, Fine
<1> QED
  BY <1>1, InitSent, SentInductive, PTL DEF Spec

-----------------------------------------------------------------------------
(***************************************************************************)
(* One session.  Unless two calls of the user crossed or a save was torn,  *)
(* one call at most is under way, and vault, base URL and screen are what  *)
(* its next step needs them to be.                                         *)
(***************************************************************************)
Wiping == {"wipeAccess", "wipeRefresh"}
Asking == {"attach", "profile", "readRefresh", "renew"}

Alone == \A f, g \in Flows : ~Idle(f) /\ ~Idle(g) => f = g

\* A refresh token in the vault is the signed-in account's.
Paired == vault.refresh \in {None, vault.access} \/ vault.access = None

AtRest ==
    /\ Paired
    /\ screen \in {"superAdmin", "pos"} =>
          vault.access = shown /\ vault.host = HostOf[shown] /\ screen = Landing(shown)

\* The vault and the screen while f is the one call under way.
AloneAt(f) ==
    LET r == flow[f] IN
    /\ r.kind = "login" => screen = "login" /\ (r.at \notin Wiping => r.mounted)
    /\ r.at \notin Wiping => r.kind \in {"login", "restore"}
    /\ r.at # "refresh" => Paired
    /\ r.at = "host" => base = HostOf[r.account]
    /\ r.at = "obtain" => /\ r.account \in Accounts
                          /\ vault.host = HostOf[r.account] /\ base = vault.host
    /\ r.at \in {"access", "refresh"} =>
          /\ r.account \in Accounts /\ r.refresh \in {r.account, None}
          /\ IF r.retried THEN r.host = vault.host ELSE base = vault.host
    /\ r.at = "refresh" => vault.access = r.account
    /\ r.at \in Asking => vault.access # None /\ r.host = vault.host
    /\ r.at = "profile" => r.header = vault.access
    /\ r.at = "renew" => r.refresh \in Accounts
    /\ r.at = "wipeRefresh" => vault.access = None

SessionInv ==
    /\ SentInv
    /\ ~crowded => Alone
    /\ ~torn /\ ~crowded =>
          /\ (\A f \in Flows : Idle(f)) => AtRest
          /\ \A f \in Flows : ~Idle(f) => AloneAt(f)

\* A step of f alone: of the other calls at most `mounted` changes.
LEMMA SoloStep ==
    ASSUME SessionInv, SentInv', NEW f \in Flows, ~Idle(f),
           \A g \in Flows \ {f} : flow'[g].at = flow[g].at,
           UNCHANGED history,
           AloneAt(f) => (IF Idle(f)' THEN AtRest' ELSE AloneAt(f)')
    PROVE  SessionInv'
<1>1. torn' = torn /\ crowded' = crowded
  BY DEF history
<1>2. ASSUME ~crowded PROVE \A g \in Flows : ~Idle(g)' => g = f
  <2>1. Alone
    BY <1>2 DEF SessionInv
  <2> QED
    BY <2>1 DEF Alone, Idle
<1>3. ~crowded' => Alone'
  BY <1>1, <1>2 DEF Alone
<1>4. ASSUME ~torn', ~crowded'
      PROVE  /\ (\A g \in Flows : Idle(g)') => AtRest'
             /\ \A g \in Flows : ~Idle(g)' => AloneAt(g)'
  <2>1. AloneAt(f)
    BY <1>1, <1>4 DEF SessionInv
  <2> QED
    BY <1>1, <1>2, <1>4, <2>1
<1> QED
  BY <1>3, <1>4 DEF SessionInv

\* What Moves says of the other calls.
LEMMA MovesOthers ==
    ASSUME NEW f \in Flows, NEW r, Moves(f, r)
    PROVE  flow'[f] = r /\ \A g \in Flows \ {f} : flow'[g].at = flow[g].at
  BY DEF Moves

\* A failure: a sign-in ends where it began, a restore clears the vault.
LEMMA FailAlone ==
    ASSUME TypeOK, NEW f \in Flows, NEW wipes \in 0..2, Fail(f, wipes), AloneAt(f),
           flow[f].at \notin Wiping, flow[f].at # "refresh", vault' = vault
    PROVE  IF Idle(f)' THEN AtRest' ELSE AloneAt(f)'
<1> DEFINE rounds == IF flow[f].kind = "restore" THEN wipes + 1 ELSE wipes
           r == [Start(flow[f].kind, "wipeAccess") EXCEPT !.wipes = rounds]
<1>0. flow[f] \in Flow /\ flow \in [Flows -> Flow]
  BY DEF TypeOK
<1>1. flow[f].kind \in {"login", "restore"} /\ Paired
      /\ (flow[f].kind = "login" => screen = "login")
  BY DEF AloneAt
<1>2. Paired' /\ screen' = screen
  BY <1>1 DEF Paired, Fail
<1>3. CASE rounds = 0
  <2>1. flow' = Done(f) /\ flow[f].kind # "restore"
    BY <1>3 DEF Fail
  <2>2. flow'[f].at = "idle"
    BY <1>0, <2>1 DEF Done, Resting
  <2>3. screen' = "login"
    BY <1>1, <1>2, <2>1
  <2> QED
    BY <1>2, <2>2, <2>3 DEF Idle, AtRest
<1>4. CASE rounds # 0
  <2>1. Becomes(f, r)
    BY <1>4 DEF Fail
  <2>2. flow[f].kind \in {"none", "restore", "login", "logout"} /\ "wipeAccess" \in PCs
    BY <1>1 DEF PCs
  <2>3. r.at = "wipeAccess" /\ r.kind = flow[f].kind
    BY <2>2, StartTyped DEF Flow
  <2> HIDE DEF r, rounds
  <2>4. flow'[f] = r
    BY <1>0, <2>1 DEF Becomes
  <2> QED
    BY <1>1, <1>2, <2>3, <2>4 DEF Idle, AloneAt, Wiping, Asking
<1> QED
  BY <1>3, <1>4

LEMMA RestoreSession ==
    ASSUME SessionInv, NEW f \in Flows, Restore(f) PROVE SessionInv'
<1>1. SentInv' /\ TypeOK /\ flow[f] \in Flow /\ flow[f].at = "restore" /\ vault' = vault
  BY RestoreSent DEF SessionInv, SentInv, TypeOK, Restore, At
<1>2. CASE vault.host = None \/ vault.access = None
  <2>1. Show("login", Done(f))
    BY <1>2 DEF Restore
  <2>2. Moves(f, Resting) /\ screen' = "login"
    BY <1>1, <2>1, ShowMoves DEF Screens, Show
  <2>3. flow'[f].at = "idle" /\ \A g \in Flows \ {f} : flow'[g].at = flow[g].at
    BY <2>2, MovesOthers DEF Resting
  <2>4. AloneAt(f) => AtRest'
    BY <1>1, <2>2 DEF AloneAt, AtRest, Paired
  <2> QED
    BY <1>1, <2>3, <2>4, SoloStep DEF Idle, Restore
<1>3. CASE ~(vault.host = None \/ vault.access = None)
  <2> DEFINE r == [Fetching(flow[f]) EXCEPT !.host = vault.host]
  <2>1. Becomes(f, r) /\ screen' = screen
    BY <1>3 DEF Restore
  <2>2. Fetching(flow[f]) \in Flow
    BY <1>1, FetchingTyped
  <2>3. r \in Flow
    BY <1>1, <1>3, <2>2 DEF Flow, TypeOK, Vault
  <2>4. r.at = "attach" /\ r.host = vault.host /\ r.kind = flow[f].kind
        /\ r.mounted = flow[f].mounted
    BY <2>2 DEF Flow, Fetching, Start, Resting
  <2> HIDE DEF r
  <2>5. flow'[f] = r /\ \A g \in Flows \ {f} : flow'[g].at = flow[g].at
    BY <1>1, <2>1, <2>3, BecomesMoves, MovesOthers
  <2>6. ASSUME AloneAt(f) PROVE AloneAt(f)'
    BY <1>1, <1>3, <2>1, <2>4, <2>5, <2>6 DEF AloneAt, Wiping, Asking, Paired
  <2> QED
    BY <1>1, <2>4, <2>5, <2>6, SoloStep DEF Idle, Restore
<1> QED
  BY <1>2, <1>3

LEMMA WriteHostSession ==
    ASSUME SessionInv, NEW f \in Flows, WriteHost(f) PROVE SessionInv'
<1> DEFINE r == [flow[f] EXCEPT !.at = "obtain", !.host = base]
<1>1. SentInv' /\ TypeOK /\ flow[f] \in Flow /\ flow[f].at = "host"
      /\ flow[f].account \in Accounts
  BY WriteHostSent DEF SessionInv, SentInv, TypeOK, WriteHost, At, Fine
<1>2. Becomes(f, r) /\ vault' = [vault EXCEPT !.host = HostOf[flow[f].account]]
      /\ screen' = screen /\ base' = base
  BY DEF WriteHost
<1>3. r \in Flow /\ r.at = "obtain" /\ r.kind = flow[f].kind
      /\ r.mounted = flow[f].mounted /\ r.account = flow[f].account
  BY <1>1 DEF Flow, PCs, TypeOK
<1>4. vault'.access = vault.access /\ vault'.refresh = vault.refresh
      /\ vault'.host = HostOf[flow[f].account]
  BY <1>1, <1>2 DEF TypeOK, Vault
<1> HIDE DEF r
<1>5. flow'[f] = r /\ \A g \in Flows \ {f} : flow'[g].at = flow[g].at
  BY <1>1, <1>2, <1>3, BecomesMoves, MovesOthers
<1>6. ASSUME AloneAt(f) PROVE AloneAt(f)'
  BY <1>1, <1>2, <1>3, <1>4, <1>5, <1>6 DEF AloneAt, Wiping, Asking, Paired
<1> QED
  BY <1>1, <1>3, <1>5, <1>6, SoloStep DEF Idle, WriteHost

LEMMA ObtainSession ==
    ASSUME SessionInv, NEW f \in Flows, Obtain(f) PROVE SessionInv'
<1>1. SentInv' /\ TypeOK /\ flow[f] \in Flow /\ flow[f].at = "obtain" /\ vault' = vault
      /\ base' = base
  BY ObtainSent DEF SessionInv, SentInv, TypeOK, Obtain, At
<1>2. CASE Fail(f, 0)
  <2>1. \A g \in Flows \ {f} : flow'[g].at = flow[g].at
    BY <1>1, <1>2, FailMoves, MovesOthers
  <2>2. AloneAt(f) => IF Idle(f)' THEN AtRest' ELSE AloneAt(f)'
    BY <1>1, <1>2, FailAlone DEF Wiping
  <2> QED
    BY <1>1, <2>1, <2>2, SoloStep DEF Idle, Obtain
<1>3. ASSUME NEW t \in {flow[f].account, None}, screen' = screen,
             Becomes(f, [flow[f] EXCEPT !.at = "access", !.refresh = t])
      PROVE  SessionInv'
  <2> DEFINE r == [flow[f] EXCEPT !.at = "access", !.refresh = t]
  <2>1. r \in Flow /\ r.at = "access" /\ r.kind = flow[f].kind /\ r.refresh = t
        /\ r.mounted = flow[f].mounted /\ r.account = flow[f].account
        /\ r.retried = flow[f].retried
    BY <1>1 DEF Flow, PCs, Tokens
  <2>2. ~flow[f].retried
    BY <1>1 DEF SessionInv, SentInv, Fine
  <2>3. Becomes(f, r)
    BY <1>3
  <2> HIDE DEF r
  <2>4. flow'[f] = r /\ \A g \in Flows \ {f} : flow'[g].at = flow[g].at
    BY <1>1, <2>1, <2>3, BecomesMoves, MovesOthers
  <2>5. ASSUME AloneAt(f) PROVE AloneAt(f)'
    BY <1>1, <1>3, <2>1, <2>2, <2>4, <2>5 DEF AloneAt, Wiping, Asking, Paired
  <2> QED
    BY <1>1, <2>1, <2>4, <2>5, SoloStep DEF Idle, Obtain
<1> QED
  BY <1>2, <1>3 DEF Obtain

LEMMA WriteAccessSession ==
    ASSUME SessionInv, NEW f \in Flows, WriteAccess(f) PROVE SessionInv'
<1> DEFINE r == [flow[f] EXCEPT !.at = "refresh"]
<1>1. SentInv' /\ TypeOK /\ flow[f] \in Flow /\ flow[f].at = "access"
  BY WriteAccessSent DEF SessionInv, SentInv, TypeOK, WriteAccess, At
<1>2. Becomes(f, r) /\ vault' = [vault EXCEPT !.access = flow[f].account]
      /\ screen' = screen /\ base' = base
  BY DEF WriteAccess
<1>3. r \in Flow /\ r.at = "refresh" /\ r.kind = flow[f].kind /\ r.refresh = flow[f].refresh
      /\ r.mounted = flow[f].mounted /\ r.account = flow[f].account
      /\ r.retried = flow[f].retried /\ r.host = flow[f].host
  BY <1>1 DEF Flow, PCs
<1>4. vault'.access = flow[f].account /\ vault'.host = vault.host
  BY <1>1, <1>2 DEF TypeOK, Vault
<1> HIDE DEF r
<1>5. flow'[f] = r /\ \A g \in Flows \ {f} : flow'[g].at = flow[g].at
  BY <1>1, <1>2, <1>3, BecomesMoves, MovesOthers
<1>6. ASSUME AloneAt(f) PROVE AloneAt(f)'
  BY <1>1, <1>2, <1>3, <1>4, <1>5, <1>6 DEF AloneAt, Wiping, Asking, Paired
<1> QED
  BY <1>1, <1>3, <1>5, <1>6, SoloStep DEF Idle, WriteAccess

LEMMA WriteRefreshSession ==
    ASSUME SessionInv, NEW f \in Flows, WriteRefresh(f) PROVE SessionInv'
<1>1. SentInv' /\ TypeOK /\ flow[f] \in Flow /\ flow[f].at = "refresh"
  BY WriteRefreshSent DEF SessionInv, SentInv, TypeOK, WriteRefresh, At
<1>2. vault' = [vault EXCEPT !.refresh = flow[f].refresh] /\ screen' = screen /\ base' = base
  BY DEF WriteRefresh, SavedRefresh
<1>3. vault'.access = vault.access /\ vault'.host = vault.host
      /\ vault'.refresh = flow[f].refresh
  BY <1>1, <1>2 DEF TypeOK, Vault
<1>4. \E r \in Flow : /\ Becomes(f, r) /\ r.at = "attach" /\ r.kind = flow[f].kind
                      /\ r.mounted = flow[f].mounted
                      /\ r.host = IF flow[f].retried THEN flow[f].host ELSE base
  <2>1. CASE flow[f].retried
    <3> DEFINE r == [flow[f] EXCEPT !.at = "attach", !.header = flow[f].account,
                                     !.account = None, !.refresh = None]
    <3>1. r \in Flow /\ r.at = "attach" /\ r.kind = flow[f].kind
          /\ r.mounted = flow[f].mounted /\ r.host = flow[f].host
      BY <1>1 DEF Flow, PCs, Tokens
    <3>2. Becomes(f, r)
      BY <2>1 DEF WriteRefresh
    <3> HIDE DEF r
    <3> QED
      BY <2>1, <3>1, <3>2
  <2>2. CASE ~flow[f].retried
    <3>1. Fetching(flow[f]) \in Flow /\ Becomes(f, Fetching(flow[f]))
      BY <1>1, <2>2, FetchingTyped DEF WriteRefresh
    <3>2. /\ Fetching(flow[f]).at = "attach" /\ Fetching(flow[f]).host = base
          /\ Fetching(flow[f]).kind = flow[f].kind
          /\ Fetching(flow[f]).mounted = flow[f].mounted
      BY DEF Fetching, Start, Resting
    <3> QED
      BY <2>2, <3>1, <3>2
  <2> QED
    BY <2>1, <2>2
<1>5. PICK r \in Flow : /\ Becomes(f, r) /\ r.at = "attach" /\ r.kind = flow[f].kind
                        /\ r.mounted = flow[f].mounted
                        /\ r.host = IF flow[f].retried THEN flow[f].host ELSE base
  BY <1>4
<1>6. flow'[f] = r /\ \A g \in Flows \ {f} : flow'[g].at = flow[g].at
  BY <1>1, <1>5, BecomesMoves, MovesOthers
<1>7. ASSUME AloneAt(f) PROVE AloneAt(f)'
  <2>1. vault.access \in Accounts /\ flow[f].refresh \in {vault.access, None}
    BY <1>1, <1>7 DEF AloneAt
  <2>2. Paired' /\ vault'.access # None
    BY <1>3, <2>1, AccountsTyped DEF Paired
  <2>3. r.host = vault.host
    BY <1>1, <1>5, <1>7 DEF AloneAt
  <2> QED
    BY <1>1, <1>2, <1>3, <1>5, <1>6, <1>7, <2>2, <2>3 DEF AloneAt, Wiping, Asking
<1> QED
  BY <1>1, <1>5, <1>6, <1>7, SoloStep DEF Idle, WriteRefresh

LEMMA WipeAccessSession ==
    ASSUME SessionInv, NEW f \in Flows, WipeAccess(f) PROVE SessionInv'
<1> DEFINE r == [flow[f] EXCEPT !.at = "wipeRefresh"]
<1>1. SentInv' /\ TypeOK /\ flow[f] \in Flow /\ flow[f].at = "wipeAccess"
  BY WipeAccessSent DEF SessionInv, SentInv, TypeOK, WipeAccess, At
<1>2. Becomes(f, r) /\ vault' = [vault EXCEPT !.access = None] /\ screen' = screen
  BY DEF WipeAccess
<1>3. r \in Flow /\ r.at = "wipeRefresh" /\ r.kind = flow[f].kind
  BY <1>1 DEF Flow, PCs
<1>4. vault'.access = None
  BY <1>1, <1>2 DEF TypeOK, Vault
<1> HIDE DEF r
<1>5. flow'[f] = r /\ \A g \in Flows \ {f} : flow'[g].at = flow[g].at
  BY <1>1, <1>2, <1>3, BecomesMoves, MovesOthers
<1>6. ASSUME AloneAt(f) PROVE AloneAt(f)'
  BY <1>1, <1>2, <1>3, <1>4, <1>5, <1>6 DEF AloneAt, Wiping, Asking, Paired
<1> QED
  BY <1>1, <1>3, <1>5, <1>6, SoloStep DEF Idle, WipeAccess

\* The last step of a sign-out that ran alone begins a session anew, whatever
\* was torn or crossed before.
LEMMA WipeRefreshSession ==
    ASSUME SessionInv, NEW f \in Flows, WipeRefresh(f) PROVE SessionInv'
<1> DEFINE clean == /\ vault'.access = None /\ screen' = "login"
                    /\ \A g \in Flows \ {f} : Idle(g)
<1>1. SentInv' /\ TypeOK /\ flow[f] \in Flow /\ flow[f].at = "wipeRefresh"
  BY WipeRefreshSent DEF SessionInv, SentInv, TypeOK, WipeRefresh, At
<1>2. vault' = [vault EXCEPT !.refresh = None]
  BY DEF WipeRefresh
<1>3. vault'.access = vault.access /\ vault'.refresh = None
  BY <1>1, <1>2 DEF TypeOK, Vault
<1>4. torn' = (torn /\ ~clean) /\ crowded' = (crowded /\ ~clean)
  BY DEF WipeRefresh
<1>5. Paired'
  BY <1>3 DEF Paired
<1>6. /\ \A g \in Flows \ {f} : flow'[g].at = flow[g].at
      /\ \/ /\ flow'[f].at = "idle"
            /\ screen' = "login" \/ (flow[f].kind = "login" /\ screen' = screen)
         \/ /\ flow'[f].at = "wipeAccess" /\ flow'[f].kind = flow[f].kind
            /\ screen' = screen
  <2>1. CASE flow[f].wipes > 1
    <3> DEFINE r == [flow[f] EXCEPT !.at = "wipeAccess", !.wipes = @ - 1]
    <3>0. flow[f].wipes - 1 \in 0..3
      BY <1>1, <2>1 DEF Flow
    <3>1. r \in Flow /\ r.at = "wipeAccess" /\ r.kind = flow[f].kind
      BY <1>1, <3>0 DEF Flow, PCs
    <3>2. Becomes(f, r) /\ screen' = screen
      BY <2>1 DEF WipeRefresh
    <3> HIDE DEF r
    <3>3. flow'[f] = r /\ \A g \in Flows \ {f} : flow'[g].at = flow[g].at
      BY <1>1, <3>1, <3>2, BecomesMoves, MovesOthers
    <3> QED
      BY <3>1, <3>2, <3>3
  <2>2. CASE ~(flow[f].wipes > 1) /\ flow[f].kind = "login"
    <3>1. flow' = Done(f) /\ screen' = screen
      BY <2>2 DEF WipeRefresh
    <3>2. Moves(f, Resting)
      BY <1>1, <3>1, DoneMoves
    <3> QED
      BY <2>2, <3>1, <3>2, MovesOthers DEF Resting
  <2>3. CASE ~(flow[f].wipes > 1) /\ flow[f].kind # "login"
    <3>1. Show("login", Done(f))
      BY <2>3 DEF WipeRefresh
    <3>2. Moves(f, Resting) /\ screen' = "login"
      BY <1>1, <3>1, ShowMoves DEF Screens, Show
    <3> QED
      BY <3>2, MovesOthers DEF Resting
  <2> QED
    BY <2>1, <2>2, <2>3
<1>7. (AloneAt(f) \/ screen' = "login") => IF Idle(f)' THEN AtRest' ELSE AloneAt(f)'
  <2> SUFFICES ASSUME AloneAt(f) \/ screen' = "login"
               PROVE  IF Idle(f)' THEN AtRest' ELSE AloneAt(f)'
    OBVIOUS
  <2>1. flow[f].kind = "login" => screen' = "login"
    BY <1>1, <1>6 DEF AloneAt
  <2>2. CASE flow'[f].at = "idle"
    <3>1. screen' = "login"
      BY <1>6, <2>1, <2>2
    <3> QED
      BY <1>5, <2>2, <3>1 DEF Idle, AtRest
  <2>3. CASE flow'[f].at # "idle"
    BY <1>5, <1>6, <2>1, <2>3 DEF Idle, AloneAt, Wiping, Asking
  <2> QED
    BY <2>2, <2>3
<1>8. CASE clean
  <2>1. \A g \in Flows : ~Idle(g)' => g = f
    BY <1>6, <1>8 DEF Idle
  <2>2. Alone'
    BY <2>1 DEF Alone
  <2> QED
    BY <1>1, <1>7, <1>8, <2>1, <2>2 DEF SessionInv
<1>9. CASE ~clean
  <2>1. UNCHANGED history
    BY <1>1, <1>4, <1>9 DEF history, TypeOK
  <2> QED
    BY <1>1, <1>6, <1>7, <2>1, SoloStep DEF Idle
<1> QED
  BY <1>8, <1>9

LEMMA AttachSession ==
    ASSUME SessionInv, NEW f \in Flows, Attach(f) PROVE SessionInv'
<1> DEFINE h == IF vault.access = None THEN flow[f].header ELSE vault.access
           r == [flow[f] EXCEPT !.at = "profile", !.header = h]
<1>1. SentInv' /\ TypeOK /\ flow[f] \in Flow /\ flow[f].at = "attach"
  BY AttachSent DEF SessionInv, SentInv, TypeOK, Attach, At
<1>2. Becomes(f, r) /\ vault' = vault /\ screen' = screen
  BY DEF Attach
<1>3. h \in Tokens
  BY <1>1 DEF TypeOK, Vault, Flow
<1>4. vault.access # None => h = vault.access
  OBVIOUS
<1> HIDE DEF h
<1>5. r \in Flow /\ r.at = "profile" /\ r.kind = flow[f].kind /\ r.header = h
      /\ r.mounted = flow[f].mounted /\ r.host = flow[f].host
  BY <1>1, <1>3 DEF Flow, PCs
<1> HIDE DEF r
<1>6. flow'[f] = r /\ \A g \in Flows \ {f} : flow'[g].at = flow[g].at
  BY <1>1, <1>2, <1>5, BecomesMoves, MovesOthers
<1>7. ASSUME AloneAt(f) PROVE AloneAt(f)'
  BY <1>1, <1>2, <1>4, <1>5, <1>6, <1>7 DEF AloneAt, Wiping, Asking, Paired
<1> QED
  BY <1>1, <1>5, <1>6, <1>7, SoloStep DEF Idle, Attach

LEMMA ProfileAnsweredSession ==
    ASSUME SessionInv, NEW f \in Flows, ProfileAnswered(f) PROVE SessionInv'
<1>1. SentInv' /\ TypeOK /\ flow[f] \in Flow /\ flow[f].at = "profile" /\ vault' = vault
      /\ UNCHANGED history
  BY ProfileAnsweredSent DEF SessionInv, SentInv, TypeOK, ProfileAnswered, At
<1>2. CASE HostOf[flow[f].header] = flow[f].host /\ Succeed(f, flow[f].header)
  <2>1. Moves(f, Resting)
    BY <1>1, <1>2, SucceedMoves DEF Flow
  <2>2. flow'[f].at = "idle" /\ \A g \in Flows \ {f} : flow'[g].at = flow[g].at
    BY <2>1, MovesOthers DEF Resting
  <2>3. ASSUME AloneAt(f) PROVE AtRest'
    <3>1. /\ flow[f].header = vault.access /\ flow[f].host = vault.host /\ Paired
          /\ flow[f].kind = "login" => flow[f].mounted
      BY <1>1, <2>3 DEF AloneAt, Wiping, Asking
    <3>2. screen' = Landing(vault.access) /\ shown' = vault.access
      BY <1>2, <3>1 DEF Succeed, Show
    <3> QED
      BY <1>1, <1>2, <3>1, <3>2 DEF AtRest, Paired, Landing
  <2> QED
    BY <1>1, <2>2, <2>3, SoloStep DEF Idle
<1>3. ASSUME NEW wipes \in 0..2, Fail(f, wipes)
      PROVE  SessionInv'
  <2>1. \A g \in Flows \ {f} : flow'[g].at = flow[g].at
    BY <1>1, <1>3, FailMoves, MovesOthers
  <2>2. AloneAt(f) => IF Idle(f)' THEN AtRest' ELSE AloneAt(f)'
    BY <1>1, <1>3, FailAlone DEF Wiping
  <2> QED
    BY <1>1, <2>1, <2>2, SoloStep DEF Idle
<1>4. ASSUME screen' = screen,
             Becomes(f, [flow[f] EXCEPT !.at = "readRefresh", !.header = None])
      PROVE  SessionInv'
  <2> DEFINE r == [flow[f] EXCEPT !.at = "readRefresh", !.header = None]
  <2>1. r \in Flow /\ r.at = "readRefresh" /\ r.kind = flow[f].kind
        /\ r.mounted = flow[f].mounted /\ r.host = flow[f].host
    BY <1>1 DEF Flow, PCs, Tokens
  <2>2. Becomes(f, r)
    BY <1>4
  <2> HIDE DEF r
  <2>3. flow'[f] = r /\ \A g \in Flows \ {f} : flow'[g].at = flow[g].at
    BY <1>1, <2>1, <2>2, BecomesMoves, MovesOthers
  <2>4. ASSUME AloneAt(f) PROVE AloneAt(f)'
    BY <1>1, <1>4, <2>1, <2>3, <2>4 DEF AloneAt, Wiping, Asking, Paired
  <2> QED
    BY <1>1, <2>1, <2>3, <2>4, SoloStep DEF Idle
<1>5. \/ HostOf[flow[f].header] = flow[f].host /\ Succeed(f, flow[f].header)
      \/ /\ screen' = screen
         /\ Becomes(f, [flow[f] EXCEPT !.at = "readRefresh", !.header = None])
      \/ \E wipes \in 0..2 : Fail(f, wipes)
  <2>1. 0 \in 0..2 /\ 1 \in 0..2 /\ 2 \in 0..2
    OBVIOUS
  <2> QED
    BY <2>1 DEF ProfileAnswered
<1> QED
  BY <1>2, <1>3, <1>4, <1>5

LEMMA ReadRefreshSession ==
    ASSUME SessionInv, NEW f \in Flows, ReadRefresh(f) PROVE SessionInv'
<1>1. SentInv' /\ TypeOK /\ flow[f] \in Flow /\ flow[f].at = "readRefresh"
      /\ vault' = vault /\ UNCHANGED history
  BY ReadRefreshSent DEF SessionInv, SentInv, TypeOK, ReadRefresh, At
<1>2. CASE vault.refresh = None
  <2>0. Fail(f, 1)
    BY <1>2 DEF ReadRefresh, Expire
  <2>1. \A g \in Flows \ {f} : flow'[g].at = flow[g].at
    BY <1>1, <2>0, FailMoves, MovesOthers
  <2>2. AloneAt(f) => IF Idle(f)' THEN AtRest' ELSE AloneAt(f)'
    BY <1>1, <2>0, FailAlone DEF Wiping
  <2> QED
    BY <1>1, <2>1, <2>2, SoloStep DEF Idle
<1>3. CASE vault.refresh # None
  <2> DEFINE r == [flow[f] EXCEPT !.at = "renew", !.refresh = vault.refresh]
  <2>0. vault.refresh \in Accounts
    BY <1>1, <1>3 DEF TypeOK, Vault, Tokens
  <2>1. r \in Flow /\ r.at = "renew" /\ r.kind = flow[f].kind
        /\ r.mounted = flow[f].mounted /\ r.host = flow[f].host
        /\ r.refresh = vault.refresh
    BY <1>1, <2>0 DEF Flow, PCs, Tokens
  <2>2. Becomes(f, r) /\ screen' = screen
    BY <1>3 DEF ReadRefresh
  <2> HIDE DEF r
  <2>3. flow'[f] = r /\ \A g \in Flows \ {f} : flow'[g].at = flow[g].at
    BY <1>1, <2>1, <2>2, BecomesMoves, MovesOthers
  <2>4. ASSUME AloneAt(f) PROVE AloneAt(f)'
    BY <1>1, <2>0, <2>1, <2>2, <2>3, <2>4 DEF AloneAt, Wiping, Asking, Paired
  <2> QED
    BY <1>1, <2>1, <2>3, <2>4, SoloStep DEF Idle
<1> QED
  BY <1>2, <1>3

LEMMA RenewedSession ==
    ASSUME SessionInv, NEW f \in Flows, Renewed(f) PROVE SessionInv'
<1>1. SentInv' /\ TypeOK /\ flow[f] \in Flow /\ flow[f].at = "renew"
      /\ vault' = vault /\ UNCHANGED history
  BY RenewedSent DEF SessionInv, SentInv, TypeOK, Renewed, At
<1>2. CASE Fail(f, 1)
  <2>1. \A g \in Flows \ {f} : flow'[g].at = flow[g].at
    BY <1>1, <1>2, FailMoves, MovesOthers
  <2>2. AloneAt(f) => IF Idle(f)' THEN AtRest' ELSE AloneAt(f)'
    BY <1>1, <1>2, FailAlone DEF Wiping
  <2> QED
    BY <1>1, <2>1, <2>2, SoloStep DEF Idle
<1> DEFINE r == [flow[f] EXCEPT !.at = "access", !.account = flow[f].refresh,
                                 !.retried = TRUE]
<1>3. CASE Becomes(f, r) /\ screen' = screen
  <2>1. r \in Flow /\ r.at = "access" /\ r.kind = flow[f].kind
        /\ r.mounted = flow[f].mounted /\ r.host = flow[f].host
        /\ r.account = flow[f].refresh /\ r.refresh = flow[f].refresh /\ r.retried = TRUE
    BY <1>1 DEF Flow, PCs
  <2>2. Becomes(f, r)
    BY <1>3
  <2> HIDE DEF r
  <2>3. flow'[f] = r /\ \A g \in Flows \ {f} : flow'[g].at = flow[g].at
    BY <1>1, <2>1, <2>2, BecomesMoves, MovesOthers
  <2>4. ASSUME AloneAt(f) PROVE AloneAt(f)'
    <3>1. screen' = screen
      BY <1>3
    <3> QED
      BY <1>1, <2>1, <2>3, <2>4, <3>1 DEF AloneAt, Wiping, Asking, Paired
  <2> QED
    BY <1>1, <2>1, <2>3, <2>4, SoloStep DEF Idle
<1> QED
  BY <1>2, <1>3 DEF Renewed

-----------------------------------------------------------------------------
(* The user.                                                               *)

\* A call that starts runs alone, or the two have crossed.
LEMMA StartSession ==
    ASSUME SessionInv, SentInv', NEW f \in Flows, Idle(f), AlsoBusy(f), torn' = torn,
           NEW r \in Flow, Becomes(f, r), r.at # "idle", AtRest => AloneAt(f)'
    PROVE  SessionInv'
<1>1. TypeOK
  BY DEF SessionInv, SentInv
<1>2. flow'[f] = r /\ \A g \in Flows \ {f} : flow'[g].at = flow[g].at
  BY <1>1, BecomesMoves, MovesOthers
<1>3. ASSUME ~crowded' PROVE ~crowded /\ \A g \in Flows : Idle(g)
  BY <1>1, <1>3 DEF AlsoBusy, TypeOK
<1>4. ASSUME ~crowded' PROVE \A g \in Flows : ~Idle(g)' => g = f
  BY <1>2, <1>3, <1>4 DEF Idle
<1>5. ~crowded' => Alone'
  BY <1>4 DEF Alone
<1>6. ASSUME ~crowded', ~torn' PROVE AloneAt(f)' /\ ~Idle(f)'
  BY <1>2, <1>3, <1>6 DEF SessionInv, Idle
<1> QED
  BY <1>4, <1>5, <1>6 DEF SessionInv

LEMMA SubmitSession ==
    ASSUME SessionInv, NEW f \in Flows, NEW a \in Accounts, Submit(f, a)
    PROVE  SessionInv'
<1> DEFINE r == [Start("login", "host") EXCEPT !.account = a, !.mounted = TRUE]
<1>0. Start("login", "host") \in Flow /\ Start("login", "host").at = "host"
      /\ Start("login", "host").kind = "login"
  BY StartTyped DEF PCs
<1>1. r \in Flow /\ r.at = "host" /\ r.account = a /\ r.mounted = TRUE /\ r.kind = "login"
  BY <1>0 DEF Flow, Tokens
<1>2. /\ Becomes(f, r) /\ SentInv' /\ TypeOK /\ Idle(f) /\ AlsoBusy(f) /\ torn' = torn
      /\ screen = "login" /\ screen' = screen /\ vault' = vault /\ base' = HostOf[a]
  BY SubmitSent DEF Submit, SessionInv, SentInv
<1> HIDE DEF r
<1>3. flow'[f] = r
  BY <1>2 DEF Becomes, TypeOK
<1>4. AtRest => AloneAt(f)'
  BY <1>1, <1>2, <1>3 DEF AtRest, AloneAt, Wiping, Asking, Paired
<1> QED
  BY <1>1, <1>2, <1>4, StartSession

LEMMA SignOutSession ==
    ASSUME SessionInv, NEW f \in Flows, SignOut(f)
    PROVE  SessionInv'
<1> DEFINE r == [Start("logout", "wipeAccess") EXCEPT !.wipes = 1]
<1>0. Start("logout", "wipeAccess") \in Flow /\ Start("logout", "wipeAccess").at = "wipeAccess"
      /\ Start("logout", "wipeAccess").kind = "logout"
  BY StartTyped DEF PCs
<1>1. r \in Flow /\ r.at = "wipeAccess" /\ r.kind = "logout"
  BY <1>0 DEF Flow
<1>2. /\ Becomes(f, r) /\ SentInv' /\ TypeOK /\ Idle(f) /\ AlsoBusy(f) /\ torn' = torn
      /\ vault' = vault
  BY SignOutSent DEF SignOut, SessionInv, SentInv
<1> HIDE DEF r
<1>3. flow'[f] = r
  BY <1>2 DEF Becomes, TypeOK
<1>4. AtRest => AloneAt(f)'
  BY <1>1, <1>2, <1>3 DEF AtRest, AloneAt, Wiping, Asking, Paired
<1> QED
  BY <1>1, <1>2, <1>4, StartSession

\* A restart leaves the vault as a whole step left it, unless a save was torn.
LEMMA KillSession == SessionInv /\ Kill => SessionInv'
<1> SUFFICES ASSUME SessionInv, Kill PROVE SessionInv'
  OBVIOUS
<1>1. SentInv' /\ TypeOK
  BY KillSent DEF SessionInv, SentInv
<1>2. /\ vault' = vault /\ crowded' = crowded
      /\ torn' = (torn \/ \E f \in Flows : At(f, "refresh"))
      /\ flow' = [f \in Flows |-> IF f = Boot THEN Start("restore", "restore") ELSE Resting]
  BY DEF Kill
<1>3. Boot \in Flows
  BY DEF Flows
<1>4. Start("restore", "restore").at = "restore" /\ Start("restore", "restore").kind = "restore"
      /\ Resting.at = "idle"
  BY StartTyped DEF PCs, Resting
<1>5. /\ flow'[Boot].at = "restore" /\ flow'[Boot].kind = "restore"
      /\ \A g \in Flows : flow'[g].at # "idle" => g = Boot
  BY <1>2, <1>3, <1>4
<1>6. Alone'
  BY <1>5 DEF Alone, Idle
<1>7. ASSUME ~torn', ~crowded' PROVE AloneAt(Boot)'
  <2>1. ~torn /\ ~crowded /\ \A f \in Flows : flow[f].at # "refresh"
    BY <1>1, <1>2, <1>7 DEF TypeOK, At
  <2>2. Paired
    BY <2>1 DEF SessionInv, AtRest, AloneAt
  <2> QED
    BY <1>2, <1>5, <2>2 DEF AloneAt, Wiping, Asking, Paired
<1> QED
  BY <1>1, <1>3, <1>5, <1>6, <1>7 DEF SessionInv, Idle

LEMMA InitSession == Init => SessionInv
<1> SUFFICES ASSUME Init PROVE SessionInv
  OBVIOUS
<1>1. SentInv
  BY InitSent
<1>2. Boot \in Flows
  BY DEF Flows
<1>3. Start("restore", "restore").at = "restore" /\ Start("restore", "restore").kind = "restore"
      /\ Resting.at = "idle"
  BY StartTyped DEF PCs, Resting
<1>4. /\ flow[Boot].at = "restore" /\ flow[Boot].kind = "restore"
      /\ \A g \in Flows : flow[g].at # "idle" => g = Boot
  BY <1>2, <1>3 DEF Init
<1>5. Alone
  BY <1>4 DEF Alone, Idle
<1>6. AloneAt(Boot)
  BY <1>4 DEF Init, AloneAt, Wiping, Asking, Paired
<1> QED
  BY <1>1, <1>2, <1>4, <1>5, <1>6 DEF SessionInv, Idle

LEMMA SessionInductive == SessionInv /\ [Next]_vars => SessionInv'
<1> SUFFICES ASSUME SessionInv, [Next]_vars PROVE SessionInv'
  OBVIOUS
<1>1. ASSUME NEW f \in Slots, SignOut(f) \/ \E a \in Accounts : Submit(f, a)
      PROVE  SessionInv'
  <2>1. f \in Flows
    BY DEF Flows
  <2> QED
    BY <1>1, <2>1, SignOutSession, SubmitSession
<1>2. ASSUME NEW f \in Flows, Prompt(f) PROVE SessionInv'
  BY <1>2, RestoreSession, WriteHostSession, ObtainSession, WriteAccessSession,
     WriteRefreshSession, WipeAccessSession, WipeRefreshSession, AttachSession,
     ProfileAnsweredSession, ReadRefreshSession
     DEF Prompt
<1>3. CASE UNCHANGED vars
  <2>1. SentInv'
    BY <1>3, SentInductive DEF SessionInv
  <2> QED
    BY <1>3, <2>1 DEF vars, SessionInv, Alone, Idle, AtRest, AloneAt, Paired
<1> QED
  BY <1>1, <1>2, <1>3, KillSession, RenewedSession DEF Next, User

(***************************************************************************)
(* At rest the app shows the landing page of the account whose tokens and  *)
(* host are in the vault, and the vault never pairs two accounts' tokens,  *)
(* whenever the app was killed and whatever the server answered: unless a  *)
(* save was killed half-way or two calls of the user crossed since the app *)
(* last came to rest signed out (token_vault.dart, session_gate.dart).     *)
(***************************************************************************)
THEOREM OneSessionHolds == Spec => []OneSession
<1>1. SessionInv => OneSession
  BY DEF SessionInv, OneSession, AtRest, Paired
<1> QED
  BY <1>1, InitSession, SessionInductive, PTL DEF Spec
=============================================================================
