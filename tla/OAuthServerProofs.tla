-------------------------- MODULE OAuthServerProofs --------------------------
(* Safety of the OAuth server for any number of requests, codes, grants and  *)
(* token pairs, any lifetimes, and a wall clock that is set back at will.    *)
EXTENDS OAuthServer, FiniteSetTheorems, TLAPS

(* The inductive invariant, in parts.                                       *)

\* A request that was never recorded has left no trace; the clock is never at
\* the 0 that stands for "never".
UnbegunIsBlank ==
  /\ clock > 0
  /\ \A r \in Requests : begun[r] = 0 =>
       /\ pending[r] = None
       /\ \A k \in Codes : codes[k] # None => codes[k].request # r
       /\ \A g \in Grants : grants[g] # None => grants[g].request # r

\* A request passes through its stages once: until it is collected it has no
\* code, until its one code is consumed it has no grant, and it has one grant.
StagesOnce ==
  /\ \A r \in Requests : pending[r] # None /\ ~pending[r].collected =>
       /\ \A k \in Codes : codes[k] # None => codes[k].request # r
       /\ \A g \in Grants : grants[g] # None => grants[g].request # r
  /\ \A j, k \in Codes :
       (codes[j] # None /\ codes[k] # None /\ codes[j].request = codes[k].request)
         => j = k
  /\ \A k \in Codes : codes[k] # None /\ ~codes[k].consumed =>
       \A g \in Grants : grants[g] # None => grants[g].request # codes[k].request
  /\ \A g, h \in Grants :
       (grants[g] # None /\ grants[h] # None /\ grants[g].request = grants[h].request)
         => g = h

\* What comes after the approval has the approval.
Consented ==
  /\ \A r \in Requests : pending[r] # None /\ pending[r].approved => consent[r] # "no"
  /\ \A k \in Codes : codes[k] # None => consent[codes[k].request] # "no"
  /\ \A g \in Grants : grants[g] # None => consent[grants[g].request] # "no"

\* Deadlines add up from the time the request was recorded.
Deadlines ==
  /\ \A r \in Requests : pending[r] # None =>
       pending[r].expires <= begun[r] + PENDING_TTL
  /\ \A k \in Codes : codes[k] # None =>
       codes[k].expires <= begun[codes[k].request] + PENDING_TTL + CODE_TTL
  /\ GrantIsTimely

\* Tokens belong to a grant that was issued, a pair to one grant, and the
\* refresh under way is of a family that is not burnt.
Families ==
  /\ \A t \in tokens : grants[t.grant] # None /\ t.pair \in spent
  /\ \A t, u \in tokens : t.pair = u.pair => t.grant = u.grant
  /\ \A g \in burnt : grants[g] # None
  /\ refreshing # None => \A t \in RefreshRow(refreshing.pair) : t.grant \notin burnt

\* The waiting requests can be counted.
WaitingCounted ==
  /\ IsFiniteSet(Waiting(pending))
  /\ PendingBounded

IInv ==
  /\ TypeOK
  /\ UnbegunIsBlank
  /\ StagesOnce
  /\ Consented
  /\ Deadlines
  /\ Families
  /\ OneLivePair
  /\ ReuseKillsFamily
  /\ WaitingCounted
-----------------------------------------------------------------------------
(* The operators on the three tables.                                       *)

\* The rows of a new pair are tokens of that pair and grant, none revoked.
LEMMA IssuedRows ==
  ASSUME NEW p \in Pairs, NEW g \in Grants, NEW now \in Nat
  PROVE  /\ Issued(p, g, now) \subseteq Token
         /\ \A t \in Issued(p, g, now) : t.pair = p /\ t.grant = g /\ ~t.revoked
BY OAuthAssumption DEF Issued, Token

\* Revoking a token changes nothing else of it.
LEMMA RevokedRow ==
  ASSUME NEW t \in Token
  PROVE  /\ AsRevoked(t) \in Token
         /\ AsRevoked(t).kind = t.kind /\ AsRevoked(t).pair = t.pair
         /\ AsRevoked(t).grant = t.grant /\ AsRevoked(t).revoked
BY DEF AsRevoked, Token

\* Revoking a family keeps every row, and only the family is touched.
LEMMA WithoutRows ==
  ASSUME tokens \subseteq Token, NEW g
  PROVE  /\ Without(g) \subseteq Token
         /\ \A u \in Without(g) : \E t \in tokens :
              /\ u.kind = t.kind /\ u.pair = t.pair /\ u.grant = t.grant
              /\ t.revoked => u.revoked
              /\ t.grant = g => u.revoked
BY RevokedRow DEF Without

\* collect_expired only removes rows.
LEMMA CollectedRows ==
  ASSUME TypeOK
  PROVE  /\ LivePending \in [Requests -> Pending \cup {None}]
         /\ \A r \in Requests : LivePending[r] # None => LivePending[r] = pending[r]
         /\ LiveCodes \in [Codes -> Code \cup {None}]
         /\ \A k \in Codes : LiveCodes[k] # None => LiveCodes[k] = codes[k]
         /\ LiveTokens \subseteq tokens
BY DEF TypeOK, LivePending, LiveCodes, LiveTokens

-----------------------------------------------------------------------------
(* Preservation, action by action.                                          *)

\* Nothing is recorded at first.
LEMMA InitInv == Init => IInv
<1> SUFFICES ASSUME Init PROVE IInv
  OBVIOUS
<1>1. TypeOK
  BY DEF Init, TypeOK
<1>2. UnbegunIsBlank /\ StagesOnce /\ Consented /\ Deadlines
  BY DEF Init, UnbegunIsBlank, StagesOnce, Consented, Deadlines, GrantIsTimely
<1>3. Families /\ OneLivePair /\ ReuseKillsFamily
  BY DEF Init, Families, OneLivePair, ReuseKillsFamily
<1>4. Waiting(pending) = {}
  BY DEF Init, Waiting
<1>5. WaitingCounted
  BY <1>4, FS_EmptySet, OAuthAssumption DEF WaitingCounted, PendingBounded
<1> QED BY <1>1, <1>2, <1>3, <1>5 DEF IInv

\* The rows, and what a call in flight has read of them.
tables == <<begun, pending, codes, tokens, grants, refreshing, spent, burnt, consent>>

\* Clock steps and the reads of approve change nothing the invariant speaks of.
LEMMA FrameStep == IInv /\ TypeOK' /\ clock' > 0 /\ UNCHANGED tables => IInv'
BY DEF IInv, tables, UnbegunIsBlank, StagesOnce, Consented, Deadlines, GrantIsTimely,
       Families, RefreshRow, OneLivePair, ReuseKillsFamily, WaitingCounted,
       PendingBounded, Waiting

\* A smaller set of waiting requests can be counted and keeps the bound.
LEMMA FewerWaiting ==
  ASSUME WaitingCounted, Waiting(pending)' \subseteq Waiting(pending)
  PROVE  WaitingCounted'
<1>1. /\ IsFiniteSet(Waiting(pending)')
      /\ Cardinality(Waiting(pending)') <= Cardinality(Waiting(pending))
  BY FS_Subset DEF WaitingCounted
<1>2. Cardinality(Waiting(pending)) \in Nat /\ Cardinality(Waiting(pending)') \in Nat
  BY <1>1, FS_CardinalityType DEF WaitingCounted
<1> QED BY <1>1, <1>2, OAuthAssumption DEF WaitingCounted, PendingBounded

\* begin_authorization that refuses: collection loses rows and adds none.
LEMMA BeginRefusedStep == IInv /\ BeginRefused => IInv'
<1> SUFFICES ASSUME IInv, BeginRefused PROVE IInv'
  OBVIOUS
<1> USE DEF BeginRefused
<1>1. TypeOK /\ TypeOK'
  BY CollectedRows DEF IInv, TypeOK
<1>2. UnbegunIsBlank'
  BY <1>1, CollectedRows DEF IInv, UnbegunIsBlank
<1>3. StagesOnce'
  BY <1>1, CollectedRows DEF IInv, StagesOnce
<1>4. Consented'
  BY <1>1, CollectedRows DEF IInv, Consented
<1>5. Deadlines'
  BY <1>1, CollectedRows DEF IInv, Deadlines, GrantIsTimely
<1>6. Families' /\ OneLivePair' /\ ReuseKillsFamily'
  BY <1>1, CollectedRows DEF IInv, Families, RefreshRow, OneLivePair, ReuseKillsFamily
<1>7. WaitingCounted'
  <2>1. Waiting(pending)' \subseteq Waiting(pending)
    BY <1>1, CollectedRows DEF Waiting
  <2> QED BY <2>1, FewerWaiting DEF IInv
<1> QED BY <1>1, <1>2, <1>3, <1>4, <1>5, <1>6, <1>7 DEF IInv

\* begin_authorization: a blank request gets its row, one more waits.
LEMMA BeginStep ==
  ASSUME IInv, NEW r \in Requests, begin_authorization(r)
  PROVE  IInv'
<1> DEFINE row == [expires |-> clock + PENDING_TTL, approved |-> FALSE, collected |-> FALSE]
<1> USE DEF begin_authorization
<1>0. TypeOK
  BY DEF IInv
<1>1. row \in Pending /\ clock \in Nat
  BY OAuthAssumption DEF IInv, TypeOK, Pending
<1>2. TypeOK'
  BY <1>1, CollectedRows DEF IInv, TypeOK
<1>3. /\ pending'[r] = row
      /\ \A q \in Requests : q # r /\ pending'[q] # None => pending'[q] = pending[q]
  BY <1>0, CollectedRows
<1>4. \A k \in Codes : codes'[k] # None => codes'[k] = codes[k]
  BY <1>0, CollectedRows
<1>5. /\ begun'[r] = clock
      /\ \A q \in Requests : q # r => begun'[q] = begun[q]
  BY <1>0 DEF TypeOK
<1>6. begun[r] = 0 /\ \A k \in Codes : codes[k] # None => codes[k].request # r
  BY DEF IInv, UnbegunIsBlank
<1>7. \A g \in Grants : grants[g] # None => grants[g].request # r
  BY DEF IInv, UnbegunIsBlank
<1> HIDE DEF row
<1>8. UnbegunIsBlank'
  <2>1. ASSUME NEW q \in Requests, begun'[q] = 0, q # r
        PROVE  pending'[q] = None
    BY <2>1, <1>3, <1>5 DEF IInv, UnbegunIsBlank
  <2>2. ASSUME begun'[r] = 0 PROVE FALSE
    BY <2>2, <1>5 DEF IInv, UnbegunIsBlank
  <2> QED BY <2>1, <2>2, <1>4, <1>5 DEF IInv, UnbegunIsBlank
<1>9. StagesOnce'
  BY <1>3, <1>4, <1>6, <1>7 DEF IInv, StagesOnce
<1>10. Consented'
  BY <1>3, <1>4 DEF IInv, Consented, row
<1>11. Deadlines'
  <2>1. row.expires <= begun'[r] + PENDING_TTL
    BY <1>1, <1>5, OAuthAssumption DEF row
  <2>2. \A k \in Codes : codes'[k] # None => codes[k] \in Code
    BY <1>4 DEF IInv, TypeOK
  <2>3. \A k \in Codes : codes'[k] # None =>
          codes'[k].expires <= begun'[codes'[k].request] + PENDING_TTL + CODE_TTL
    BY <1>4, <1>5, <1>6, <2>2 DEF IInv, Deadlines, Code
  <2>4. GrantIsTimely'
    BY <1>5, <1>7 DEF IInv, Deadlines, GrantIsTimely, TypeOK, Grant
  <2>5. \A q \in Requests : pending'[q] # None =>
          pending'[q].expires <= begun'[q] + PENDING_TTL
    BY <2>1, <1>3, <1>5 DEF IInv, Deadlines
  <2> QED BY <2>3, <2>4, <2>5 DEF Deadlines
<1>12. Families' /\ OneLivePair' /\ ReuseKillsFamily'
  BY <1>0, CollectedRows
  DEF IInv, Families, RefreshRow, OneLivePair, ReuseKillsFamily
<1>13. WaitingCounted'
  <2> DEFINE W == Waiting(LivePending)
  <2>1. W \subseteq Waiting(pending)
    BY <1>0, CollectedRows DEF Waiting
  <2>2. IsFiniteSet(W) /\ Cardinality(W) \in Nat
    BY <2>1, FS_Subset, FS_CardinalityType DEF IInv, WaitingCounted
  <2>3. Waiting(pending)' \subseteq W \cup {r}
    BY <1>0, CollectedRows DEF Waiting
  <2>4. Cardinality(W) < MAX_PENDING
    OBVIOUS
  <2> HIDE DEF W
  <2>5. /\ IsFiniteSet(W \cup {r}) /\ Cardinality(W \cup {r}) \in Nat
        /\ Cardinality(W \cup {r}) <= Cardinality(W) + 1
    <3>1. /\ IsFiniteSet(W \cup {r})
          /\ Cardinality(W \cup {r}) = IF r \in W THEN Cardinality(W) ELSE Cardinality(W) + 1
      BY <2>2, FS_AddElement
    <3> QED BY <3>1, <2>2
  <2>6. /\ IsFiniteSet(Waiting(pending)')
        /\ Cardinality(Waiting(pending)') <= Cardinality(W \cup {r})
    BY <2>3, <2>5, FS_Subset
  <2>7. Cardinality(Waiting(pending)') \in Nat
    BY <2>6, FS_CardinalityType
  <2> QED BY <2>2, <2>4, <2>5, <2>6, <2>7, OAuthAssumption DEF WaitingCounted, PendingBounded
<1> QED BY <1>2, <1>8, <1>9, <1>10, <1>11, <1>12, <1>13 DEF IInv

\* approve: the row, if it is still there, is approved and otherwise unchanged.
LEMMA ApproveStep ==
  ASSUME IInv, NEW r \in Requests, approve(r)
  PROVE  IInv'
<1> USE DEF approve
<1>1. TypeOK'
  BY DEF IInv, TypeOK, Pending
<1>2. \A q \in Requests : pending'[q] # None =>
        /\ pending[q] # None
        /\ pending'[q].expires = pending[q].expires
        /\ pending'[q].collected = pending[q].collected
        /\ pending'[q].approved => pending[q].approved \/ q = r
        /\ pending[q].approved => pending'[q].approved
  BY DEF IInv, TypeOK, Pending
<1>3. \A q \in Requests : consent[q] # "no" => consent'[q] # "no"
  BY DEF IInv, TypeOK
<1>4. consent'[r] # "no"
  BY DEF IInv, TypeOK
<1>5. UnbegunIsBlank'
  BY <1>2 DEF IInv, UnbegunIsBlank
<1>6. StagesOnce'
  BY <1>2 DEF IInv, StagesOnce
<1>7. Consented'
  <2>1. \A k \in Codes : codes[k] # None => codes[k].request \in Requests
    BY DEF IInv, TypeOK, Code
  <2>2. \A g \in Grants : grants[g] # None => grants[g].request \in Requests
    BY DEF IInv, TypeOK, Grant
  <2> QED BY <1>2, <1>3, <1>4, <2>1, <2>2 DEF IInv, Consented
<1>8. Deadlines'
  BY <1>2 DEF IInv, Deadlines, GrantIsTimely
<1>9. Families' /\ OneLivePair' /\ ReuseKillsFamily'
  BY DEF IInv, Families, RefreshRow, OneLivePair, ReuseKillsFamily
<1>10. Waiting(pending)' \subseteq Waiting(pending)
  BY <1>2 DEF Waiting
<1>11. WaitingCounted'
  BY <1>10, FewerWaiting DEF IInv
<1> QED BY <1>1, <1>5, <1>6, <1>7, <1>8, <1>9, <1>11 DEF IInv

\* poll: the first code of an approved request; no second one.
LEMMA PollStep ==
  ASSUME IInv, NEW r \in Requests, NEW k \in Codes, poll(r, k)
  PROVE  IInv'
<1> DEFINE row == [request |-> r, expires |-> clock + CODE_TTL, consumed |-> FALSE]
<1> USE DEF poll
<1>1. row \in Code /\ clock \in Nat
  BY OAuthAssumption DEF IInv, TypeOK, Code
<1>2. codes'[k] = row /\ \A j \in Codes : j # k => codes'[j] = codes[j]
  BY DEF IInv, TypeOK
<1>3. /\ pending'[r].collected /\ pending'[r].expires = pending[r].expires
      /\ pending'[r].approved
      /\ \A q \in Requests : q # r => pending'[q] = pending[q]
  BY DEF IInv, TypeOK
<1>4. TypeOK'
  <2>1. codes' \in [Codes -> Code \cup {None}]
    BY <1>1 DEF IInv, TypeOK
  <2>2. pending' \in [Requests -> Pending \cup {None}]
    BY DEF IInv, TypeOK, Pending
  <2> QED BY <2>1, <2>2 DEF IInv, TypeOK
<1>5. /\ \A j \in Codes : codes[j] # None => codes[j].request # r
      /\ \A g \in Grants : grants[g] # None => grants[g].request # r
  BY DEF IInv, StagesOnce
<1>6. row.request = r /\ ~row.consumed /\ row.expires = clock + CODE_TTL
  OBVIOUS
<1> HIDE DEF row
<1>7. UnbegunIsBlank'
  <2>1. begun[r] # 0
    BY DEF IInv, UnbegunIsBlank
  <2> QED BY <1>2, <1>3, <1>6, <2>1 DEF IInv, UnbegunIsBlank
<1>8. StagesOnce'
  BY <1>2, <1>3, <1>5, <1>6 DEF IInv, StagesOnce
<1>9. Consented'
  BY <1>2, <1>3, <1>6 DEF IInv, Consented
<1>10. Deadlines'
  <2>1. /\ pending[r].expires \in Nat /\ begun[r] \in Nat
        /\ pending[r].expires <= begun[r] + PENDING_TTL
    BY DEF IInv, Deadlines, TypeOK, Pending
  <2>2. row.expires <= begun[r] + PENDING_TTL + CODE_TTL
    BY <1>1, <1>6, <2>1, OAuthAssumption
  <2> QED BY <1>2, <1>3, <1>6, <2>2 DEF IInv, Deadlines, GrantIsTimely
<1>11. Families' /\ OneLivePair' /\ ReuseKillsFamily'
  BY DEF IInv, Families, RefreshRow, OneLivePair, ReuseKillsFamily
<1>12. Waiting(pending)' \subseteq Waiting(pending)
  BY <1>3 DEF Waiting
<1>13. WaitingCounted'
  BY <1>12, FewerWaiting DEF IInv
<1> QED BY <1>4, <1>7, <1>8, <1>9, <1>10, <1>11, <1>13 DEF IInv

\* exchange_code: the one code of the request is consumed for its one grant.
LEMMA ExchangeStep ==
  ASSUME IInv, NEW k \in Codes, NEW r \in Requests, NEW g \in Grants,
         NEW p \in Pairs, exchange_code(k, r, g, p)
  PROVE  IInv'
<1> DEFINE row == [request |-> r, at |-> clock]
<1> USE DEF exchange_code
<1>1. row \in Grant /\ clock \in Nat /\ codes[k] \in Code
  BY DEF IInv, TypeOK, Grant
<1>2. row # None
  BY <1>1, NoRowAssumption
<1>3. grants'[g] = row /\ \A h \in Grants : h # g => grants'[h] = grants[h]
  BY DEF IInv, TypeOK
<1>4. /\ codes'[k].request = r /\ codes'[k].expires = codes[k].expires
      /\ codes'[k].consumed
      /\ \A j \in Codes : j # k => codes'[j] = codes[j]
  BY DEF IInv, TypeOK
<1>5. /\ Issued(p, g, clock) \subseteq Token
      /\ \A t \in Issued(p, g, clock) : t.pair = p /\ t.grant = g /\ ~t.revoked
  BY <1>1, IssuedRows
<1>6. TypeOK'
  <2>1. codes' \in [Codes -> Code \cup {None}]
    BY <1>1 DEF IInv, TypeOK, Code
  <2>2. grants' \in [Grants -> Grant \cup {None}]
    BY <1>1 DEF IInv, TypeOK
  <2> QED BY <1>5, <2>1, <2>2 DEF IInv, TypeOK
<1>7. row.request = r /\ row.at = clock
  OBVIOUS
<1> HIDE DEF row
<1>8. \A h \in Grants : grants[h] # None => grants[h].request # r
  BY DEF IInv, StagesOnce
<1>9. \A j \in Codes : codes'[j] # None /\ codes'[j].request = r => j = k
  BY <1>4 DEF IInv, StagesOnce
<1>10. UnbegunIsBlank'
  <2>1. begun[r] # 0
    BY DEF IInv, UnbegunIsBlank
  <2> QED BY <1>3, <1>4, <1>7, <2>1 DEF IInv, UnbegunIsBlank
<1>11. StagesOnce'
  <2>1. \A q \in Requests : pending[q] # None /\ ~pending[q].collected => q # r
    BY DEF IInv, StagesOnce
  <2>2. \A i, j \in Codes :
          (codes'[i] # None /\ codes'[j] # None /\ codes'[i].request = codes'[j].request)
            => i = j
    BY <1>4, <1>9 DEF IInv, StagesOnce
  <2>3. \A j \in Codes : codes'[j] # None /\ ~codes'[j].consumed =>
          \A h \in Grants : grants'[h] # None => grants'[h].request # codes'[j].request
    BY <1>3, <1>4, <1>7, <1>9 DEF IInv, StagesOnce
  <2> QED BY <1>3, <1>4, <1>7, <1>8, <2>1, <2>2, <2>3 DEF IInv, StagesOnce
<1>12. Consented'
  BY <1>3, <1>4, <1>7 DEF IInv, Consented
<1>13. Deadlines'
  <2>1. /\ codes[k].expires \in Nat /\ begun[r] \in Nat
        /\ codes[k].expires <= begun[r] + PENDING_TTL + CODE_TTL
    BY <1>1 DEF IInv, Deadlines, TypeOK, Code
  <2>2. row.at <= begun[r] + PENDING_TTL + CODE_TTL
    BY <1>1, <1>7, <2>1, OAuthAssumption
  <2> QED BY <1>3, <1>4, <1>7, <2>2 DEF IInv, Deadlines, GrantIsTimely
<1>14. \A t \in tokens : t.grant # g /\ t.pair # p
  BY DEF IInv, Families
<1>15. Families'
  <2>1. refreshing' = None
    BY DEF ServerFree
  <2> QED BY <1>2, <1>3, <1>5, <1>14, <2>1 DEF IInv, Families
<1>16. OneLivePair'
  BY <1>5, <1>14 DEF IInv, OneLivePair
<1>17. ReuseKillsFamily'
  <2>1. g \notin burnt
    BY DEF IInv, Families
  <2> QED BY <1>5, <2>1 DEF IInv, ReuseKillsFamily
<1>18. WaitingCounted'
  BY DEF IInv, WaitingCounted, PendingBounded, Waiting
<1> QED BY <1>6, <1>10, <1>11, <1>12, <1>13, <1>15, <1>16, <1>17, <1>18 DEF IInv

\* What the steps on oauth_tokens alone leave as it is.
LEMMA TokensOnly ==
  ASSUME IInv, UNCHANGED <<clock, begun, pending, codes, grants>>,
         \A r \in Requests : consent[r] # "no" => consent'[r] # "no"
  PROVE  UnbegunIsBlank' /\ StagesOnce' /\ Consented' /\ Deadlines' /\ WaitingCounted'
<1>1. \A k \in Codes : codes[k] # None => codes[k].request \in Requests
  BY DEF IInv, TypeOK, Code
<1>2. \A g \in Grants : grants[g] # None => grants[g].request \in Requests
  BY DEF IInv, TypeOK, Grant
<1>3. Consented'
  BY <1>1, <1>2 DEF IInv, Consented
<1> QED
  BY <1>3 DEF IInv, UnbegunIsBlank, StagesOnce, Deadlines, GrantIsTimely,
              WaitingCounted, PendingBounded, Waiting

\* A refresh token that comes back: its family is revoked and burnt.
LEMMA ReusedStep ==
  ASSUME IInv, NEW p \in Pairs, RefreshReused(p)
  PROVE  IInv'
<1> USE DEF RefreshReused
<1>1. PICK t \in tokens : tokens' = Without(t.grant) /\ burnt' = burnt \cup {t.grant}
  BY DEF RefreshRow
<1>2. tokens \subseteq Token /\ t.grant \in Grants /\ grants[t.grant] # None
  BY DEF IInv, TypeOK, Token, Families
<1>3. /\ tokens' \subseteq Token
      /\ \A u \in tokens' : \E v \in tokens :
           /\ u.kind = v.kind /\ u.pair = v.pair /\ u.grant = v.grant
           /\ v.revoked => u.revoked
           /\ v.grant = t.grant => u.revoked
  BY <1>1, <1>2, WithoutRows
<1>4. TypeOK'
  BY <1>1, <1>2, <1>3 DEF IInv, TypeOK
<1>5. Families'
  <2>1. \A u \in tokens' : grants[u.grant] # None /\ u.pair \in spent
    BY <1>3 DEF IInv, Families
  <2>2. \A u, v \in tokens' : u.pair = v.pair => u.grant = v.grant
    BY <1>3 DEF IInv, Families
  <2>3. refreshing' = None
    BY DEF ServerFree
  <2> QED BY <1>1, <1>2, <2>1, <2>2, <2>3 DEF IInv, Families
<1>6. OneLivePair'
  BY <1>3 DEF IInv, OneLivePair
<1>7. ReuseKillsFamily'
  BY <1>1, <1>3 DEF IInv, ReuseKillsFamily
<1> QED BY <1>4, <1>5, <1>6, <1>7, TokensOnly DEF IInv

\* The SELECT of refresh: a family with an unrevoked token is not burnt.
LEMMA RefreshReadsStep ==
  ASSUME IInv, NEW p \in Pairs, RefreshReads(p)
  PROVE  IInv'
<1> USE DEF RefreshReads
<1>1. TypeOK'
  BY DEF IInv, TypeOK
<1>2. PICK t \in tokens : t.pair = p /\ ~t.revoked
  BY DEF RefreshRow
<1>3. t.grant \notin burnt
  BY <1>2 DEF IInv, ReuseKillsFamily
<1>4. refreshing'.pair = p
  OBVIOUS
<1>5. \A u \in RefreshRow(p) : u.grant = t.grant
  BY <1>2 DEF IInv, Families, RefreshRow
<1>6. Families'
  BY <1>3, <1>4, <1>5 DEF IInv, Families, RefreshRow
<1>7. OneLivePair' /\ ReuseKillsFamily'
  BY DEF IInv, OneLivePair, ReuseKillsFamily
<1> QED BY <1>1, <1>6, <1>7, TokensOnly DEF IInv

\* The rotation: the family is retired before the new pair is issued, and it is
\* not burnt, although revoke_all may have cut in.
LEMMA RefreshStep ==
  ASSUME IInv, NEW q \in Pairs, refresh(q)
  PROVE  IInv'
<1> USE DEF refresh
<1>1. PICK t \in RefreshRow(refreshing.pair) :
        tokens' = Without(t.grant) \cup Issued(q, t.grant, refreshing.now)
  OBVIOUS
<1>2. /\ tokens \subseteq Token /\ t \in tokens /\ t.grant \in Grants
      /\ grants[t.grant] # None /\ refreshing.now \in Nat /\ t.grant \notin burnt
  BY DEF IInv, TypeOK, Token, Families, RefreshRow
<1>3. /\ Without(t.grant) \subseteq Token
      /\ \A u \in Without(t.grant) : \E v \in tokens :
           /\ u.kind = v.kind /\ u.pair = v.pair /\ u.grant = v.grant
           /\ v.revoked => u.revoked
           /\ v.grant = t.grant => u.revoked
  BY <1>2, WithoutRows
<1>4. /\ Issued(q, t.grant, refreshing.now) \subseteq Token
      /\ \A u \in Issued(q, t.grant, refreshing.now) :
           u.pair = q /\ u.grant = t.grant /\ ~u.revoked
  BY <1>2, IssuedRows
<1> DEFINE Old == Without(t.grant)
           New == Issued(q, t.grant, refreshing.now)
<1> HIDE DEF Old, New
<1>5. tokens' = Old \cup New
  BY <1>1 DEF Old, New
<1>6. \A u \in Old : /\ u.pair \in spent /\ u.pair # q /\ grants[u.grant] # None
                     /\ u.grant = t.grant => u.revoked
                     /\ u.grant \in burnt => u.revoked
  BY <1>3 DEF IInv, Families, ReuseKillsFamily, Old
<1>7. TypeOK'
  BY <1>3, <1>4, <1>5 DEF IInv, TypeOK, Old, New
<1>8. \A u, v \in Old : /\ u.pair = v.pair => u.grant = v.grant
                        /\ (u.grant = v.grant /\ ~u.revoked /\ ~v.revoked) => u.pair = v.pair
  BY <1>3 DEF IInv, Families, OneLivePair, Old
<1>9. \A u \in New : u.pair = q /\ u.grant = t.grant /\ ~u.revoked
  BY <1>4 DEF New
<1>10. Families'
  BY <1>2, <1>5, <1>6, <1>8, <1>9 DEF IInv, Families
<1>11. OneLivePair'
  BY <1>5, <1>6, <1>8, <1>9 DEF OneLivePair
<1>12. ReuseKillsFamily'
  BY <1>2, <1>5, <1>6, <1>9 DEF ReuseKillsFamily
<1> QED BY <1>7, <1>10, <1>11, <1>12, TokensOnly DEF IInv

\* The server dies before it writes: nothing of the refresh is left.
LEMMA CrashStep == IInv /\ ServerCrashes => IInv'
<1> SUFFICES ASSUME IInv, ServerCrashes PROVE IInv'
  OBVIOUS
<1> USE DEF ServerCrashes
<1>1. TypeOK'
  BY DEF IInv, TypeOK
<1>2. Families' /\ OneLivePair' /\ ReuseKillsFamily'
  BY DEF IInv, Families, OneLivePair, ReuseKillsFamily
<1> QED BY <1>1, <1>2, TokensOnly DEF IInv

\* oauth-revoke: every token is revoked, no consent is forgotten.
LEMMA RevokeStep == IInv /\ revoke_all => IInv'
<1> SUFFICES ASSUME IInv, revoke_all PROVE IInv'
  OBVIOUS
<1> USE DEF revoke_all
<1>1. tokens \subseteq Token
  BY DEF IInv, TypeOK
<1>2. /\ tokens' \subseteq Token
      /\ \A u \in tokens' : \E t \in tokens :
           u.kind = t.kind /\ u.pair = t.pair /\ u.grant = t.grant /\ u.revoked
  BY <1>1, RevokedRow
<1>3. TypeOK'
  BY <1>2 DEF IInv, TypeOK
<1>4. Families'
  BY <1>2 DEF IInv, Families, RefreshRow
<1>5. OneLivePair' /\ ReuseKillsFamily'
  BY <1>2 DEF OneLivePair, ReuseKillsFamily
<1>6. \A r \in Requests : consent[r] # "no" => consent'[r] # "no"
  OBVIOUS
<1> QED BY <1>3, <1>4, <1>5, <1>6, TokensOnly DEF IInv

\* Every step of the server, the terminal and the clock keeps the invariant.
LEMMA InvStep == IInv /\ [Next]_vars => IInv'
<1> SUFFICES ASSUME IInv, [Next]_vars PROVE IInv'
  OBVIOUS
<1>1. CASE UNCHANGED vars
  <2>1. TypeOK' /\ clock' > 0
    BY <1>1 DEF vars, IInv, TypeOK, UnbegunIsBlank
  <2> QED BY <1>1, <2>1, FrameStep DEF vars, tables
<1>2. CASE Tick \/ ClockJumpsBack
  <2>1. TypeOK' /\ clock' > 0
    BY <1>2 DEF Tick, ClockJumpsBack, IInv, TypeOK
  <2> QED BY <1>2, <2>1, FrameStep DEF Tick, ClockJumpsBack, tables
<1>3. CASE ServerStep
  BY <1>3, BeginRefusedStep, BeginStep, PollStep, ExchangeStep, ReusedStep,
     RefreshReadsStep, RefreshStep, CrashStep DEF ServerStep
<1>4. CASE TerminalStep
  <2>1. ASSUME NEW r \in Requests, ApproveReads(r)
        PROVE  IInv'
    <3>1. TypeOK' /\ clock' > 0
      BY <2>1 DEF ApproveReads, IInv, TypeOK, UnbegunIsBlank
    <3> QED BY <2>1, <3>1, FrameStep DEF ApproveReads, tables
  <2> QED BY <1>4, <2>1, ApproveStep, RevokeStep DEF TerminalStep
<1> QED BY <1>1, <1>2, <1>3, <1>4 DEF Next

-----------------------------------------------------------------------------
(* The theorems.                                                            *)

\* The invariant holds in every reachable state of the server, for any number
\* of requests, codes, grants and pairs and any lifetimes.
THEOREM Invariance == Spec => []IInv
<1>1. Init => IInv
  BY InitInv
<1>2. IInv /\ [Next]_vars => IInv'
  BY InvStep
<1> QED BY <1>1, <1>2, PTL DEF Spec

\* Type correctness: every row of the three tables has the shape of its table.
THEOREM TypeCorrect == Spec => []TypeOK
<1>1. IInv => TypeOK
  BY DEF IInv
<1> QED BY <1>1, Invariance, PTL

\* One approval in the terminal yields at most one grant, through poll,
\* exchange_code, expiry and collection, and there is no grant without one.
THEOREM ApprovalYieldsOneGrant == Spec => []OneGrantPerApproval
<1>1. IInv => OneGrantPerApproval
  BY DEF IInv, Consented, StagesOnce, OneGrantPerApproval
<1> QED BY <1>1, Invariance, PTL

\* Rotation leaves one live pair per grant, whenever revoke_all cuts in.
THEOREM RotationLeavesOne == Spec => []OneLivePair
<1>1. IInv => OneLivePair
  BY DEF IInv
<1> QED BY <1>1, Invariance, PTL

\* A family whose rotated refresh token came back never has a live token again.
THEOREM ReuseIsFatal == Spec => []ReuseKillsFamily
<1>1. IInv => ReuseKillsFamily
  BY DEF IInv
<1> QED BY <1>1, Invariance, PTL

\* A grant is issued within PENDING_TTL + CODE_TTL of its request, however the
\* wall clock is set back.
THEOREM GrantsAreTimely == Spec => []GrantIsTimely
<1>1. IInv => GrantIsTimely
  BY DEF IInv, Deadlines
<1> QED BY <1>1, Invariance, PTL

\* begin_authorization never lets more than MAX_PENDING requests wait, finitely
\* many request ids or not.
THEOREM WaitingIsBounded == Spec => []PendingBounded
<1>1. IInv => PendingBounded
  BY DEF IInv, WaitingCounted
<1> QED BY <1>1, Invariance, PTL
=============================================================================
