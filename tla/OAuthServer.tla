----------------------------- MODULE OAuthServer -----------------------------
(***************************************************************************)
(* The OAuth 2.1 authorization server of the public deployment: requests    *)
(* wait in oauth_pending for `whatsvault oauth-approve` in a terminal, an    *)
(* approved request is polled for one code, a code is exchanged for a token  *)
(* pair, a refresh token rotates the pair, `oauth-revoke` is the off switch. *)
(*                                                                         *)
(* The server answers one request at a time; the terminal is another         *)
(* process on the same control.db.  A handler is one action unless the       *)
(* terminal can change what it read before it writes: approve (the server    *)
(* may delete the row) and refresh (revoke_all may revoke the token).        *)
(***************************************************************************)
EXTENDS Naturals, FiniteSets

CONSTANTS
  Requests,     \* request ids; a request stands for its user code, client,
                \* redirect URI and PKCE verifier
  Codes,        \* authorization codes
  Grants,       \* grant ids
  Pairs,        \* access and refresh token, issued together
  PENDING_TTL, CODE_TTL, ACCESS_TTL, REFRESH_TTL,
  MAX_PENDING,
  MaxTime,      \* bound on the wall clock
  None

ASSUME OAuthAssumption ==
  /\ {PENDING_TTL, CODE_TTL, ACCESS_TTL, REFRESH_TTL} \subseteq Nat \ {0}
  /\ MAX_PENDING \in Nat \ {0}
  /\ MaxTime \in Nat \ {0}

VARIABLES
  clock,        \* wall clock, may be set back
  begun,        \* time a request was recorded, 0 before
  pending,      \* oauth_pending: request -> row, None when absent
  codes,        \* oauth_codes: code -> row, None when absent
  tokens,       \* oauth_tokens: the rows
  grants,       \* who a grant was issued to and when, None before
  approving,    \* requests whose approve call has passed its checks
  refreshing,   \* refresh call past its checks: its pair and now_ms, or None
  spent,        \* codes and pairs that have been issued
  burnt,        \* grants whose refresh token was presented after rotation
  consent       \* per request: "no", "fresh" (approved), "stale" (approved,
                \* then revoke_all)

vars == <<clock, begun, pending, codes, tokens, grants, approving, refreshing,
          spent, burnt, consent>>

Pending == [expires: Nat, approved: BOOLEAN, collected: BOOLEAN]

Code == [request: Requests, expires: Nat, consumed: BOOLEAN]

Token == [kind: {"access", "refresh"}, pair: Pairs, grant: Grants,
          expires: Nat, revoked: BOOLEAN]

Grant == [request: Requests, at: Nat]

\* SQL NULL and "no row" are not a row.
ASSUME NoRowAssumption == None \notin Pending \cup Code \cup Grant

TypeOK ==
  /\ clock \in Nat
  /\ begun \in [Requests -> Nat]
  /\ pending \in [Requests -> Pending \cup {None}]
  /\ codes \in [Codes -> Code \cup {None}]
  /\ tokens \subseteq Token
  /\ grants \in [Grants -> Grant \cup {None}]
  /\ approving \subseteq Requests
  /\ refreshing \in [pair: Pairs, now: Nat] \cup {None}
  /\ spent \subseteq Codes \cup Pairs
  /\ burnt \subseteq Grants
  /\ consent \in [Requests -> {"no", "fresh", "stale"}]

Init ==
  /\ clock = 1
  /\ begun = [r \in Requests |-> 0]
  /\ pending = [r \in Requests |-> None]
  /\ codes = [k \in Codes |-> None]
  /\ tokens = {}
  /\ grants = [g \in Grants |-> None]
  /\ approving = {}
  /\ refreshing = None
  /\ spent = {}
  /\ burnt = {}
  /\ consent = [r \in Requests |-> "no"]

-----------------------------------------------------------------------------
Tick ==
  /\ clock < MaxTime
  /\ clock' = clock + 1
  /\ UNCHANGED <<begun, pending, codes, tokens, grants, approving, refreshing,
                 spent, burnt, consent>>

ClockJumpsBack ==
  /\ \E t \in 1..(clock - 1) : clock' = t
  /\ UNCHANGED <<begun, pending, codes, tokens, grants, approving, refreshing,
                 spent, burnt, consent>>

\* The server is between requests.
ServerFree == refreshing = None

-----------------------------------------------------------------------------
(* Authorization.                                                           *)

\* collect_expired: what is left of the three tables.
LivePending ==
  [r \in Requests |-> IF pending[r] # None /\ pending[r].expires <= clock
                      THEN None ELSE pending[r]]

LiveCodes ==
  [k \in Codes |-> IF codes[k] # None /\ codes[k].expires <= clock
                   THEN None ELSE codes[k]]

LiveTokens == {t \in tokens : t.expires > clock}

Waiting(table) == {r \in Requests : table[r] # None /\ ~table[r].approved}

\* begin_authorization collects, then refuses: too many requests wait, or the
\* client, redirect URI, challenge or state is not acceptable.
BeginRefused ==
  /\ ServerFree
  /\ pending' = LivePending
  /\ codes' = LiveCodes
  /\ tokens' = LiveTokens
  /\ UNCHANGED <<clock, begun, grants, approving, refreshing, spent, burnt, consent>>

\* Mutant: the bound is off by one.
begin_authorization_off_by_one(r) ==
  /\ ServerFree
  /\ begun[r] = 0
  /\ Cardinality(Waiting(LivePending)) <= MAX_PENDING
  /\ begun' = [begun EXCEPT ![r] = clock]
  /\ pending' = [LivePending EXCEPT ![r] =
       [expires |-> clock + PENDING_TTL, approved |-> FALSE, collected |-> FALSE]]
  /\ codes' = LiveCodes
  /\ tokens' = LiveTokens
  /\ UNCHANGED <<clock, grants, approving, refreshing, spent, burnt, consent>>

begin_authorization(r) ==
  /\ ServerFree
  /\ begun[r] = 0
  /\ Cardinality(Waiting(LivePending)) < MAX_PENDING
  /\ begun' = [begun EXCEPT ![r] = clock]
  /\ pending' = [LivePending EXCEPT ![r] =
       [expires |-> clock + PENDING_TTL, approved |-> FALSE, collected |-> FALSE]]
  /\ codes' = LiveCodes
  /\ tokens' = LiveTokens
  /\ UNCHANGED <<clock, grants, approving, refreshing, spent, burnt, consent>>

\* approve, in the terminal: SELECT and checks ...
ApproveReads(r) ==
  /\ pending[r] # None
  /\ ~pending[r].approved
  /\ clock <= pending[r].expires
  /\ approving' = approving \cup {r}
  /\ UNCHANGED <<clock, begun, pending, codes, tokens, grants, refreshing, spent,
                 burnt, consent>>

\* Mutant: the row is written whether or not it is still there.
approve_upserts(r) ==
  /\ r \in approving
  /\ approving' = approving \ {r}
  /\ pending' = [pending EXCEPT ![r] =
       [expires |-> IF pending[r] = None THEN None ELSE pending[r].expires,
        approved |-> TRUE, collected |-> FALSE]]
  /\ consent' = [consent EXCEPT ![r] = "fresh"]
  /\ UNCHANGED <<clock, begun, codes, tokens, grants, refreshing, spent, burnt>>

\* ... then UPDATE ... WHERE request_id, which finds no row if the server has
\* collected it meanwhile.
approve(r) ==
  /\ r \in approving
  /\ approving' = approving \ {r}
  /\ pending' = IF pending[r] = None THEN pending
                ELSE [pending EXCEPT ![r] =
                       [expires |-> pending[r].expires, approved |-> TRUE,
                        collected |-> pending[r].collected]]
  /\ consent' = [consent EXCEPT ![r] = "fresh"]
  /\ UNCHANGED <<clock, begun, codes, tokens, grants, refreshing, spent, burnt>>

\* Mutant: a request that was collected may be polled again.
poll_again(r, k) ==
  /\ ServerFree
  /\ pending[r] # None
  /\ pending[r].approved
  /\ clock <= pending[r].expires
  /\ k \notin spent
  /\ codes' = [codes EXCEPT ![k] =
       [request |-> r, expires |-> clock + CODE_TTL, consumed |-> FALSE]]
  /\ pending' = [pending EXCEPT ![r] =
       [expires |-> pending[r].expires, approved |-> TRUE, collected |-> TRUE]]
  /\ spent' = spent \cup {k}
  /\ UNCHANGED <<clock, begun, tokens, grants, approving, refreshing, burnt, consent>>

\* Mutant: an approved request may be polled whenever its row is still there.
poll_late(r, k) ==
  /\ ServerFree
  /\ pending[r] # None
  /\ pending[r].approved
  /\ ~pending[r].collected
  /\ k \notin spent
  /\ codes' = [codes EXCEPT ![k] =
       [request |-> r, expires |-> clock + CODE_TTL, consumed |-> FALSE]]
  /\ pending' = [pending EXCEPT ![r] =
       [expires |-> pending[r].expires, approved |-> TRUE, collected |-> TRUE]]
  /\ spent' = spent \cup {k}
  /\ UNCHANGED <<clock, begun, tokens, grants, approving, refreshing, burnt, consent>>

\* The browser polls; the code is k.
poll(r, k) ==
  /\ ServerFree
  /\ pending[r] # None
  /\ pending[r].approved
  /\ ~pending[r].collected
  /\ clock <= pending[r].expires
  /\ k \notin spent
  /\ codes' = [codes EXCEPT ![k] =
       [request |-> r, expires |-> clock + CODE_TTL, consumed |-> FALSE]]
  /\ pending' = [pending EXCEPT ![r] =
       [expires |-> pending[r].expires, approved |-> TRUE, collected |-> TRUE]]
  /\ spent' = spent \cup {k}
  /\ UNCHANGED <<clock, begun, tokens, grants, approving, refreshing, burnt, consent>>

-----------------------------------------------------------------------------
(* Tokens.                                                                  *)

\* _issue: both rows of a new pair.
Issued(p, g, now) ==
  {[kind |-> "access", pair |-> p, grant |-> g, expires |-> now + ACCESS_TTL,
    revoked |-> FALSE],
   [kind |-> "refresh", pair |-> p, grant |-> g, expires |-> now + REFRESH_TTL,
    revoked |-> FALSE]}

AsRevoked(t) ==
  [kind |-> t.kind, pair |-> t.pair, grant |-> t.grant, expires |-> t.expires,
   revoked |-> TRUE]

\* UPDATE oauth_tokens SET revoked_ms ... WHERE grant_id.
Without(g) == {IF t.grant = g THEN AsRevoked(t) ELSE t : t \in tokens}

RefreshRow(p) == {t \in tokens : t.kind = "refresh" /\ t.pair = p}

\* The caller presents code k with the client, redirect URI and verifier of
\* request r; consuming the code and minting the pair is one transaction.
exchange_code(k, r, g, p) ==
  /\ ServerFree
  /\ codes[k] # None
  /\ ~codes[k].consumed
  /\ clock <= codes[k].expires
  /\ codes[k].request = r
  /\ grants[g] = None
  /\ p \notin spent
  /\ codes' = [codes EXCEPT ![k] =
       [request |-> r, expires |-> codes[k].expires, consumed |-> TRUE]]
  /\ grants' = [grants EXCEPT ![g] = [request |-> r, at |-> clock]]
  /\ tokens' = tokens \cup Issued(p, g, clock)
  /\ spent' = spent \cup {p}
  /\ UNCHANGED <<clock, begun, pending, approving, refreshing, burnt, consent>>

\* Mutant: only the call with the rotated token is refused.
RefreshReused_refuses(p) ==
  /\ ServerFree
  /\ \E t \in RefreshRow(p) :
       /\ t.revoked
       /\ burnt' = burnt \cup {t.grant}
  /\ UNCHANGED <<clock, begun, pending, codes, tokens, grants, approving,
                 refreshing, spent, consent>>

\* refresh with a token that was rotated or revoked: the family goes.
RefreshReused(p) ==
  /\ ServerFree
  /\ \E t \in RefreshRow(p) :
       /\ t.revoked
       /\ tokens' = Without(t.grant)
       /\ burnt' = burnt \cup {t.grant}
  /\ UNCHANGED <<clock, begun, pending, codes, grants, approving, refreshing,
                 spent, consent>>

\* refresh: SELECT and checks ...
RefreshReads(p) ==
  /\ ServerFree
  /\ \E t \in RefreshRow(p) : ~t.revoked /\ clock <= t.expires
  /\ refreshing' = [pair |-> p, now |-> clock]
  /\ UNCHANGED <<clock, begun, pending, codes, tokens, grants, approving, spent,
                 burnt, consent>>

\* Mutant: rotation retires the refresh token and leaves the access token.
refresh_keeps_access(q) ==
  /\ refreshing # None
  /\ q \notin spent
  /\ \E t \in RefreshRow(refreshing.pair) :
       tokens' = {IF x = t THEN AsRevoked(x) ELSE x : x \in tokens}
                   \cup Issued(q, t.grant, refreshing.now)
  /\ spent' = spent \cup {q}
  /\ refreshing' = None
  /\ UNCHANGED <<clock, begun, pending, codes, grants, approving, burnt, consent>>

\* ... then the previous pair is retired and pair q issued, whatever has
\* become of the token that was read.
refresh(q) ==
  /\ refreshing # None
  /\ q \notin spent
  /\ \E t \in RefreshRow(refreshing.pair) :
       tokens' = Without(t.grant) \cup Issued(q, t.grant, refreshing.now)
  /\ spent' = spent \cup {q}
  /\ refreshing' = None
  /\ UNCHANGED <<clock, begun, pending, codes, grants, approving, burnt, consent>>

\* The server dies, or control.db stays locked by the terminal.
ServerCrashes ==
  /\ refreshing # None
  /\ refreshing' = None
  /\ UNCHANGED <<clock, begun, pending, codes, tokens, grants, approving, spent,
                 burnt, consent>>

\* oauth-revoke, in the terminal: tokens only.
revoke_all ==
  /\ tokens' = {AsRevoked(t) : t \in tokens}
  /\ consent' = [r \in Requests |-> IF consent[r] = "no" THEN "no" ELSE "stale"]
  /\ UNCHANGED <<clock, begun, pending, codes, grants, approving, refreshing, spent,
                 burnt>>

-----------------------------------------------------------------------------
ServerStep ==
  \/ BeginRefused
  \/ \E r \in Requests : begin_authorization(r)
  \/ \E r \in Requests, k \in Codes : poll(r, k)
  \/ \E k \in Codes, r \in Requests, g \in Grants, p \in Pairs :
        exchange_code(k, r, g, p)
  \/ \E p \in Pairs : RefreshReused(p)
  \/ \E p \in Pairs : RefreshReads(p)
  \/ \E q \in Pairs : refresh(q)
  \/ ServerCrashes

TerminalStep ==
  \/ \E r \in Requests : ApproveReads(r)
  \/ \E r \in Requests : approve(r)
  \/ revoke_all

Next == Tick \/ ClockJumpsBack \/ ServerStep \/ TerminalStep

Spec == Init /\ [][Next]_vars

-----------------------------------------------------------------------------
(* Properties.                                                              *)

\* One approval in the terminal yields at most one grant: however the browser
\* polls and the client redeems, across expiry and collection, two grants never
\* come from one request, and none from a request nobody approved.
OneGrantPerApproval ==
  \A g \in Grants : grants[g] # None =>
    /\ consent[grants[g].request] # "no"
    /\ \A h \in Grants : (grants[h] # None /\ grants[h].request = grants[g].request)
                           => h = g

\* Rotation leaves nothing of the previous pair: the unrevoked tokens of a
\* grant belong to one pair, also when revoke_all cuts into the rotation.
OneLivePair ==
  \A t, u \in tokens :
    (t.grant = u.grant /\ ~t.revoked /\ ~u.revoked) => t.pair = u.pair

\* A rotated refresh token that comes back kills the family for good.
ReuseKillsFamily == \A t \in tokens : t.grant \in burnt => t.revoked

\* A grant is no older than its request allows: PENDING_TTL to approve and
\* poll, CODE_TTL to redeem, even when the wall clock is set back in between.
GrantIsTimely ==
  \A g \in Grants : grants[g] # None =>
    grants[g].at <= begun[grants[g].request] + PENDING_TTL + CODE_TTL

\* Requests nobody approved never exceed MAX_PENDING rows, expired or not.
PendingBounded == Cardinality(Waiting(pending)) <= MAX_PENDING

-----------------------------------------------------------------------------
(* What the documentation says and the code does not do.                    *)

\* cli/commands.py, oauth-revoke: "The connector must re-authorise, which needs
\* a fresh approval here": a live token descends from an approval after the
\* last revoke_all.
RevokeNeedsFreshApproval ==
  \A t \in tokens : ~t.revoked => consent[grants[t.grant].request] = "fresh"
=============================================================================
