-------------------------- MODULE ControlPlaneProofs --------------------------
(* Safety of the processes that share control.db, for any number of calls,   *)
(* conversations, codes, token pairs, senders and grants.                    *)
EXTENDS ControlPlane, FiniteSetTheorems, TLAPS

(* The inductive invariant, in parts.  What is on disk and what the server's *)
(* connection sees are held to the same promises: a tool's commit may make    *)
(* the second the first at any statement of the token endpoint.               *)

V == View(Srv)

\* Only the server leaves anything uncommitted, and never in the tables of the
\* senders and of the terminal.
DbInv ==
  /\ db \in Tables /\ work \in Tables
  /\ writer \in Senders \cup {Srv, NoConn}
  /\ writer # Srv => work = db
  /\ work.used = db.used /\ work.active = db.active

\* In tables t, a row is of a code that cannot be redeemed any more, also when the
\* row has been collected, and a code has one live pair.
Sound(t) ==
  /\ \A r \in t.rows \cup collected : t.codes[r.code] # "fresh"
  /\ \A r, q \in t.rows :
       (q.code = r.code /\ ~q.revoked /\ ~r.revoked) => q.pair = r.pair

Has(t, p, kind) == \E r \in t.rows \cup collected : r.pair = p /\ r.kind = kind

\* Pair p has its audit row in tables t, and its token rows until they are
\* collected.
Paid(t, p) == p \in t.audit /\ Has(t, p, "access") /\ Has(t, p, "refresh")

\* What has left the server, or leaves it after the next commit, is in t.
Accounted(t) ==
  /\ \A c \in Calls : call[c] = "done" => c \in t.audit
  /\ \A p \in handed : Paid(t, p)

TokenInv == Sound(db) /\ Sound(V) /\ Accounted(db) /\ Accounted(V)

CommitInv == \A c \in Calls : call[c] = "commit" => c \in V.audit

\* What the token request has done so far, as its connection sees it.
LoopInv ==
  /\ loop \in Request \cup {None} /\ handed \subseteq Pairs /\ collected \subseteq Row
  /\ At("consume") => V.codes[loop.code] = "fresh"
  /\ At("retire") => V.codes[loop.code] # "fresh"
  /\ At("access") =>
       V.codes[loop.code] # "fresh" /\ \A r \in V.rows : r.code = loop.code => r.revoked
  /\ At("refresh") =>
       /\ V.codes[loop.code] # "fresh"
       /\ \A r \in V.rows : r.code = loop.code /\ ~r.revoked => r.pair = loop.pair
       /\ Has(V, loop.pair, "access")
  /\ At("audit") => Has(V, loop.pair, "access") /\ Has(V, loop.pair, "refresh")
  /\ At("commit") => Paid(V, loop.pair)
  /\ At("respond") => Paid(V, loop.pair) /\ Paid(db, loop.pair)

\* A call's fence leaves out what was fenced all through it, from the moment it
\* reads the fence to the result.
ToolInv ==
  /\ local \subseteq Convs /\ lock \in Calls \cup {None}
  /\ call \in [Calls -> {"new", "waiting", "fence", "read", "insert", "commit",
                         "done", "failed"}]
  /\ fence \in [Calls -> SUBSET Convs]
  /\ result \in [Calls -> SUBSET Convs]
  /\ open \in [Calls -> SUBSET Convs]
  /\ \A c \in InFlight : Convs \ local \subseteq open[c]
  /\ \A c \in Calls : call[c] = "read" => Convs \ fence[c] \subseteq open[c]
  /\ \A c \in Calls : call[c] \in {"insert", "commit", "done"} => result[c] \subseteq open[c]

\* The senders that have counted a use of g and not yet marked.
Marking(g) == {s \in Senders : sender[s] # None /\ sender[s].at = "mark" /\ sender[s].on = g}

\* A sender works from grants it found, below their limit when it read them.
Fits(m) ==
  /\ m.at # "mark" => \A g \in m.try : m.snap[g] # None
  /\ m.at = "update" =>
       m.on \in Grants /\ m.snap[m.on] # None /\ m.snap[m.on] < MaxActions
  /\ m.at = "mark" => m.on \in Grants

SenderInv ==
  /\ sender \in [Senders -> MarkReadCall \cup {None}]
  /\ \A s \in Senders : sender[s] # None => Fits(sender[s])

\* A use is counted before it is made.
GrantInv ==
  /\ marks \in [Grants -> Nat]
  /\ \A g \in Grants :
       /\ IsFiniteSet(Marking(g))
       /\ db.used[g] = None => marks[g] = 0 /\ Marking(g) = {}
       /\ db.used[g] # None =>
            marks[g] + Cardinality(Marking(g)) <= db.used[g] /\ db.used[g] <= MaxActions

IInv ==
  /\ DbInv /\ TokenInv /\ CommitInv /\ LoopInv /\ ToolInv /\ SenderInv /\ GrantInv
  /\ crashes \in 0..MaxCrashes
-----------------------------------------------------------------------------
(* control.db.                                                              *)

\* What the server's connection sees has the shape of the tables, and nothing of
\* the grants and of the device that is not on disk.
LEMMA ViewFacts ==
  ASSUME DbInv
  PROVE  V \in Tables /\ V.used = db.used /\ V.active = db.active
BY DEF DbInv, V, View

\* A statement of the server changes what its connection sees.
LEMMA ServerWrites ==
  ASSUME DbInv, NEW t \in Tables, t.used = V.used, t.active = V.active, Write(Srv, t)
  PROVE  DbInv' /\ db' = db /\ V' = t
BY ViewFacts DEF DbInv, Write, CanWrite, V, View

\* Its commit puts that on disk, or leaves the disk alone.
LEMMA ServerCommits ==
  ASSUME DbInv, Commit(Srv)
  PROVE  DbInv' /\ db' = V /\ V' = V
BY ControlAssumption DEF DbInv, Commit, V, View

\* A statement and its commit.
LEMMA ServerWritesAndCommits ==
  ASSUME DbInv, NEW t \in Tables, t.used = V.used, t.active = V.active,
         WriteAndCommit(Srv, t)
  PROVE  DbInv' /\ db' = t /\ V' = t
BY ControlAssumption DEF DbInv, WriteAndCommit, V, View

\* A crash of the server takes back what it had not committed.
LEMMA ServerRollsBack ==
  ASSUME DbInv, Rollback(Srv)
  PROVE  DbInv' /\ db' = db /\ V' = db
BY ControlAssumption DEF DbInv, Rollback, V, View

\* A sender sees the grants that are on disk, and what it may write the server
\* sees at once.
LEMMA SenderSees ==
  ASSUME DbInv, NEW s \in Senders
  PROVE  View(s) = db /\ (CanWrite(s) => V = db)
BY ControlAssumption DEF DbInv, V, View, CanWrite

LEMMA SenderWritesAndCommits ==
  ASSUME DbInv, NEW s \in Senders, NEW t \in Tables, WriteAndCommit(s, t)
  PROVE  DbInv' /\ db' = t /\ V' = t /\ V = db
BY ControlAssumption, SenderSees DEF DbInv, WriteAndCommit, V, View, CanWrite

\* The transaction a sender leaves open after a miss holds nothing.
LEMMA SenderMisses ==
  ASSUME DbInv, NEW s \in Senders, Write(s, View(s))
  PROVE  DbInv' /\ db' = db /\ V' = V
BY ControlAssumption, SenderSees DEF DbInv, Write, CanWrite, V, View

LEMMA SenderRollsBack ==
  ASSUME DbInv, NEW s \in Senders, Rollback(s)
  PROVE  DbInv' /\ db' = db /\ V' = V
BY ControlAssumption, SenderSees DEF DbInv, Rollback, V, View

LEMMA DbFrame ==
  ASSUME DbInv, UNCHANGED dbVars
  PROVE  DbInv' /\ db' = db /\ V' = V
BY DEF DbInv, dbVars, V, View

-----------------------------------------------------------------------------
(* What a step leaves alone.                                                *)

\* Tables u have the codes and tokens of t, and at least its audit rows.
Keeps(t, u) == u.rows = t.rows /\ u.codes = t.codes /\ t.audit \subseteq u.audit

\* A step that moves no token keeps the promises about tokens, whichever of the
\* disk and the view it makes the other.
LEMMA TokenFrame ==
  ASSUME TokenInv,
         Keeps(db, db') \/ Keeps(V, db'), Keeps(db, V') \/ Keeps(V, V'),
         \A c \in Calls : call'[c] = "done" => call[c] = "done" \/ c \in db'.audit \cap V'.audit,
         handed' = handed, collected' = collected
  PROVE  TokenInv'
<1>1. ASSUME NEW t, NEW u, Keeps(t, u), Sound(t), Accounted(t)
      PROVE  /\ Sound(u)
             /\ \A c \in Calls : call[c] = "done" => c \in u.audit
             /\ \A p \in handed : Paid(u, p)
  BY <1>1 DEF Keeps, Sound, Accounted, Paid, Has
<1>2. Sound(db') /\ Sound(V')
  BY <1>1 DEF TokenInv
<1>3. \A c \in Calls : call'[c] = "done" => c \in db'.audit /\ c \in V'.audit
  BY <1>1 DEF TokenInv
<1>4. \A p \in handed' : Paid(db', p) /\ Paid(V', p)
  BY <1>1 DEF TokenInv
<1> QED BY <1>2, <1>3, <1>4 DEF TokenInv, Sound, Accounted, Paid, Has

\* A tool's or a sender's step leaves a token request where it was.
LEMMA LoopFrame ==
  ASSUME LoopInv, Keeps(V, V'), Keeps(db, db') \/ Keeps(V, db'), UNCHANGED loopVars
  PROVE  LoopInv'
<1>1. loop' = loop /\ handed' = handed /\ collected' = collected
  BY DEF loopVars
<1>2. \A p, kind : Has(V, p, kind) => Has(V', p, kind)
  BY DEF Keeps, Has
<1>3. \A p : Paid(V, p) => Paid(V', p)
  BY <1>2 DEF Keeps, Paid
<1>4. \A p : Paid(V, p) /\ Paid(db, p) => Paid(db', p)
  BY DEF Keeps, Paid, Has
<1> QED BY <1>1, <1>2, <1>3, <1>4 DEF LoopInv, At, Keeps, Paid, Has

LEMMA ToolFrame ==
  ASSUME ToolInv, UNCHANGED toolVars
  PROVE  ToolInv'
BY DEF ToolInv, toolVars, InFlight

LEMMA SenderFrame ==
  ASSUME SenderInv, GrantInv, UNCHANGED senderVars, db'.used = db.used
  PROVE  SenderInv' /\ GrantInv'
BY DEF SenderInv, Fits, GrantInv, Marking, senderVars

-----------------------------------------------------------------------------
(* The initial states.                                                      *)

LEMMA InitInv == Init => IInv
<1> SUFFICES ASSUME Init PROVE IInv
  OBVIOUS
<1>1. DbInv /\ V = db
  BY ControlAssumption DEF Init, DbInv, Tables, V, View
<1>2. TokenInv /\ CommitInv
  BY <1>1 DEF Init, TokenInv, CommitInv, Sound, Accounted
<1>3. LoopInv
  BY DEF Init, LoopInv, At
<1>4. ToolInv
  BY DEF Init, ToolInv, InFlight
<1>5. SenderInv
  BY DEF Init, SenderInv
<1>6. GrantInv
  <2>1. \A g \in Grants : Marking(g) = {}
    BY DEF Init, Marking
  <2> QED BY <2>1, FS_EmptySet DEF Init, GrantInv
<1> QED BY <1>1, <1>2, <1>3, <1>4, <1>5, <1>6, ControlAssumption DEF Init, IInv
-----------------------------------------------------------------------------
(* The tools.                                                               *)

\* A tool's steps outside control.db: only the fence is at stake.
LEMMA ToolReadsStep ==
  ASSUME IInv, NEW c \in Calls,
         Admit(c) \/ TakesLock(c) \/ FenceReads(c) \/ ToolReads(c)
  PROVE  IInv'
<1>1. UNCHANGED <<dbVars, loopVars, senderVars, crashes>>
  BY DEF Admit, TakesLock, FenceReads, ToolReads
<1>2. DbInv' /\ db' = db /\ V' = V
  BY <1>1, DbFrame DEF IInv
<1>3. \A d \in Calls : call'[d] \in {"commit", "done"} => call'[d] = call[d]
  BY DEF Admit, TakesLock, FenceReads, ToolReads, IInv, ToolInv
<1>4. TokenInv'
  <2>1. handed' = handed /\ collected' = collected
    BY <1>1 DEF loopVars
  <2>2. Keeps(db, db') /\ Keeps(V, V')
    BY <1>2 DEF Keeps
  <2> QED BY <1>3, <2>1, <2>2, TokenFrame DEF IInv
<1>5. LoopInv'
  BY <1>1, <1>2, LoopFrame DEF IInv, Keeps
<1>6. SenderInv' /\ GrantInv'
  BY <1>1, <1>2, SenderFrame DEF IInv
<1>7. CommitInv'
  BY <1>2, <1>3 DEF IInv, CommitInv
<1>8. ToolInv'
  <2>1. CASE Admit(c)
    BY <2>1 DEF Admit, IInv, ToolInv, InFlight
  <2>2. CASE TakesLock(c)
    BY <2>2 DEF TakesLock, IInv, ToolInv, InFlight
  <2>3. CASE FenceReads(c)
    BY <2>3 DEF FenceReads, local_only_ids, IInv, ToolInv, InFlight
  <2>4. CASE ToolReads(c)
    <3>1. PICK found \in {Readable(c), {}} : result' = [result EXCEPT ![c] = found]
      BY <2>4 DEF ToolReads
    <3>2. found \subseteq open[c] /\ found \subseteq Convs
      BY <2>4 DEF ToolReads, Readable, IInv, ToolInv
    <3> QED BY <2>4, <3>1, <3>2 DEF ToolReads, IInv, ToolInv, InFlight
  <2> QED BY <2>1, <2>2, <2>3, <2>4
<1> QED BY <1>1, <1>2, <1>4, <1>5, <1>6, <1>7, <1>8 DEF IInv

\* audit.record's INSERT.
LEMMA AuditInsertsStep ==
  ASSUME IInv, NEW c \in Calls, AuditInserts(c)
  PROVE  IInv'
<1>1. V \in Tables /\ V.used = db.used
  BY ViewFacts DEF IInv
<1>2. WithAudit(c) \in Tables
  BY <1>1 DEF WithAudit, Tables, V
<1>3. DbInv' /\ db' = db /\ V' = WithAudit(c)
  BY <1>2, ServerWrites DEF AuditInserts, IInv, WithAudit, V
<1>4. Keeps(V, V') /\ Keeps(db, db') /\ c \in V'.audit
  BY <1>3 DEF Keeps, WithAudit, V
<1>5. TokenInv'
  BY <1>4, TokenFrame DEF AuditInserts, IInv, ToolInv, loopVars
<1>6. LoopInv'
  BY <1>4, LoopFrame DEF AuditInserts, IInv
<1>7. CommitInv'
  BY <1>4 DEF AuditInserts, IInv, CommitInv, Keeps, ToolInv
<1>8. ToolInv'
  BY DEF AuditInserts, IInv, ToolInv, InFlight
<1>9. SenderInv' /\ GrantInv'
  BY <1>3, SenderFrame DEF AuditInserts, IInv
<1> QED BY <1>3, <1>5, <1>6, <1>7, <1>8, <1>9 DEF AuditInserts, IInv

\* Its commit, wherever the token endpoint is.
LEMMA AuditCommitsStep ==
  ASSUME IInv, NEW c \in Calls, AuditCommits(c)
  PROVE  IInv'
<1>1. DbInv' /\ db' = V /\ V' = V
  BY ServerCommits DEF AuditCommits, IInv
<1>2. Keeps(V, V') /\ Keeps(V, db') /\ c \in V'.audit /\ c \in db'.audit
  BY <1>1 DEF AuditCommits, Keeps, IInv, CommitInv
<1>3. TokenInv'
  BY <1>2, TokenFrame DEF AuditCommits, IInv, ToolInv, loopVars
<1>4. LoopInv'
  BY <1>2, LoopFrame DEF AuditCommits, IInv
<1>5. CommitInv'
  BY <1>1 DEF AuditCommits, IInv, CommitInv, ToolInv
<1>6. ToolInv'
  BY DEF AuditCommits, IInv, ToolInv, InFlight
<1>7. SenderInv' /\ GrantInv'
  BY <1>1, SenderFrame, ViewFacts DEF AuditCommits, IInv
<1> QED BY <1>1, <1>3, <1>4, <1>5, <1>6, <1>7 DEF AuditCommits, IInv

\* A call that is dropped has no result.
LEMMA DropKeepsTools ==
  ASSUME ToolInv, NEW C \in SUBSET Calls, Drop(C), local' = local, lock' = None
  PROVE  /\ ToolInv'
         /\ \A c \in Calls : call'[c] = IF c \in C THEN "failed" ELSE call[c]
BY DEF Drop, ToolInv, InFlight

\* The INSERT fails: the call is over.
LEMMA AuditFailsStep ==
  ASSUME IInv, NEW c \in Calls, AuditFails(c)
  PROVE  IInv'
<1>1. DbInv' /\ db' = db /\ V' = V
  BY DbFrame DEF AuditFails, IInv
<1>2. Keeps(V, V') /\ Keeps(db, db')
  BY <1>1 DEF Keeps
<1>3. /\ ToolInv'
      /\ \A d \in Calls : call'[d] = IF d \in {c} THEN "failed" ELSE call[d]
  BY DropKeepsTools DEF AuditFails, IInv
<1>4. TokenInv'
  BY <1>2, <1>3, TokenFrame DEF AuditFails, IInv, loopVars
<1>5. LoopInv'
  BY <1>2, LoopFrame DEF AuditFails, IInv
<1>6. CommitInv'
  BY <1>1, <1>3 DEF IInv, CommitInv
<1>7. SenderInv' /\ GrantInv'
  BY <1>1, SenderFrame DEF AuditFails, IInv
<1> QED BY <1>1, <1>3, <1>4, <1>5, <1>6, <1>7 DEF AuditFails, IInv

\* The server dies: what it had pending goes with the calls that waited for it.
LEMMA ServerCrashesStep ==
  ASSUME IInv, ServerCrashes
  PROVE  IInv'
<1>1. DbInv' /\ db' = db /\ V' = db
  BY ServerRollsBack DEF ServerCrashes, IInv
<1>2. Keeps(db, V') /\ Keeps(db, db')
  BY <1>1 DEF Keeps
<1>3. /\ ToolInv'
      /\ \A d \in Calls : call'[d] = IF d \in InFlight THEN "failed" ELSE call[d]
  BY DropKeepsTools DEF ServerCrashes, IInv, InFlight
<1>4. TokenInv'
  BY <1>2, <1>3, TokenFrame DEF ServerCrashes, IInv
<1>5. LoopInv'
  BY DEF ServerCrashes, IInv, LoopInv, At
<1>6. CommitInv'
  BY <1>3 DEF IInv, CommitInv, InFlight
<1>7. SenderInv' /\ GrantInv'
  BY <1>1, SenderFrame DEF ServerCrashes, IInv
<1> QED BY <1>1, <1>3, <1>4, <1>5, <1>6, <1>7, ControlAssumption DEF ServerCrashes, IInv
-----------------------------------------------------------------------------
(* The token endpoint.                                                      *)

\* What no statement of the token endpoint touches.
LEMMA LoopRest ==
  ASSUME IInv, UNCHANGED <<toolVars, senderVars, crashes>>,
         db'.used = db.used, V.audit \subseteq V'.audit
  PROVE  ToolInv' /\ SenderInv' /\ GrantInv' /\ CommitInv' /\ crashes' \in 0..MaxCrashes
<1>1. CommitInv'
  BY DEF IInv, CommitInv, toolVars
<1> QED BY <1>1, ToolFrame, SenderFrame DEF IInv

\* The statements that only read, the response, and one that raises.
LEMMA LoopReadsStep ==
  ASSUME IInv,
         \/ \E k \in Codes, p \in Pairs : ExchangeReads(k, p)
         \/ \E o \in Pairs, p \in Pairs : RefreshReads(o, p)
         \/ Responds \/ LoopFails
  PROVE  IInv'
<1>1. UNCHANGED <<dbVars, toolVars, senderVars, crashes>>
  BY DEF ExchangeReads, RefreshReads, Responds, LoopFails
<1>2. DbInv' /\ db' = db /\ V' = V
  BY <1>1, DbFrame DEF IInv
<1>3. ToolInv' /\ SenderInv' /\ GrantInv' /\ CommitInv' /\ crashes' \in 0..MaxCrashes
  BY <1>1, <1>2, LoopRest
<1>4. call' = call /\ V \in Tables
  BY <1>1, ViewFacts DEF toolVars, IInv
<1>5. CASE \E k \in Codes, p \in Pairs : ExchangeReads(k, p)
  <2> PICK k \in Codes, p \in Pairs : ExchangeReads(k, p)
    BY <1>5
  <2>1. TokenInv'
    BY <1>2, <1>4, TokenFrame DEF ExchangeReads, IInv, Keeps
  <2>2. LoopInv'
    BY <1>2, NoRowAssumption DEF ExchangeReads, IInv, LoopInv, At, Request, V
  <2> QED BY <1>2, <1>3, <2>1, <2>2 DEF IInv
<1>6. CASE \E o \in Pairs, p \in Pairs : RefreshReads(o, p)
  <2> PICK o \in Pairs, p \in Pairs : RefreshReads(o, p)
    BY <1>6
  <2>1. TokenInv'
    BY <1>2, <1>4, TokenFrame DEF RefreshReads, IInv, Keeps
  <2>2. PICK r \in V.rows : loop' = [at |-> "retire", code |-> r.code, pair |-> p]
    BY DEF RefreshReads, V
  <2>3. r.code \in Codes /\ V.codes[r.code] # "fresh"
    BY <1>4 DEF IInv, TokenInv, Sound, Tables, Row
  <2>4. LoopInv'
    BY <1>2, <2>2, <2>3, NoRowAssumption DEF RefreshReads, IInv, LoopInv, At, Request
  <2> QED BY <1>2, <1>3, <2>1, <2>4 DEF IInv
<1>7. CASE Responds
  <2>1. Paid(V, loop.pair) /\ Paid(db, loop.pair) /\ loop.pair \in Pairs
    BY <1>7 DEF Responds, IInv, LoopInv, At, Request
  <2>2. TokenInv'
    BY <1>2, <1>4, <1>7, <2>1 DEF Responds, IInv, TokenInv, Accounted, Sound, Paid, Has
  <2>3. LoopInv'
    BY <1>7, <2>1 DEF Responds, IInv, LoopInv, At
  <2> QED BY <1>2, <1>3, <2>2, <2>3 DEF IInv
<1>8. CASE LoopFails
  <2>1. TokenInv'
    BY <1>2, <1>4, <1>8, TokenFrame DEF LoopFails, IInv, Keeps
  <2>2. LoopInv'
    BY <1>8 DEF LoopFails, IInv, LoopInv, At
  <2> QED BY <1>2, <1>3, <2>1, <2>2 DEF IInv
<1> QED BY <1>5, <1>6, <1>7, <1>8

\* The request that goes on is the same request.
LEMMA GoesOn ==
  ASSUME LoopInv, loop # None, handed' = handed, collected' = collected,
         NEW at \in {"consume", "retire", "access", "refresh", "audit", "commit", "respond"},
         Goes(at)
  PROVE  /\ loop' \in Request /\ loop' # None /\ handed' \subseteq Pairs
         /\ collected' = collected /\ collected \subseteq Row
         /\ loop'.at = at /\ loop'.code = loop.code /\ loop'.pair = loop.pair
         /\ loop.code \in Codes /\ loop.pair \in Pairs
<1>1. loop \in Request
  BY DEF LoopInv
<1>2. loop' \in Request
  BY <1>1 DEF Goes, Request
<1> QED BY <1>1, <1>2, NoRowAssumption DEF Goes, Request, LoopInv

\* The code is consumed before anything is minted for it.
LEMMA ConsumesStep ==
  ASSUME IInv, Consumes
  PROVE  IInv'
<1> DEFINE t == [codes |-> [V.codes EXCEPT ![loop.code] = "consumed"], rows |-> V.rows,
                 audit |-> V.audit, used |-> V.used, active |-> V.active]
<1>1. V \in Tables /\ V.used = db.used
  BY ViewFacts DEF IInv
<1>2. /\ loop' \in Request /\ loop' # None /\ handed' \subseteq Pairs
      /\ collected' = collected /\ collected \subseteq Row
      /\ loop'.at = "access" /\ loop'.code = loop.code /\ loop'.pair = loop.pair
      /\ loop.code \in Codes /\ loop.pair \in Pairs
  BY GoesOn DEF Consumes, At, IInv
<1>3. t \in Tables
  BY <1>1, <1>2 DEF Tables
<1>4. DbInv' /\ db' = db /\ V' = t
  BY <1>3, ServerWrites DEF Consumes, IInv, V
<1>5. ToolInv' /\ SenderInv' /\ GrantInv' /\ CommitInv' /\ crashes' \in 0..MaxCrashes
  BY <1>4, LoopRest DEF Consumes
<1>6. \A r \in V.rows : r.code # loop.code
  BY DEF Consumes, IInv, LoopInv, TokenInv, Sound
<1>7. LoopInv'
  <2>1. V'.codes[loop.code] = "consumed" /\ V'.rows = V.rows
    BY <1>1, <1>2, <1>4 DEF Tables
  <2> QED BY <1>2, <1>6, <2>1 DEF LoopInv, At
<1>8. /\ V'.rows = V.rows /\ V'.audit = V.audit
      /\ \A k \in Codes : V.codes[k] # "fresh" => V'.codes[k] # "fresh"
      /\ \A r \in V.rows \cup collected : r.code \in Codes
  BY <1>1, <1>2, <1>4 DEF Tables, Row
<1> HIDE DEF t
<1>9. Sound(V)'
  BY <1>2, <1>8 DEF IInv, TokenInv, Sound
<1>10. TokenInv'
  BY <1>2, <1>4, <1>8, <1>9 DEF Consumes, toolVars, IInv, TokenInv, Sound, Accounted, Paid, Has
<1> QED BY <1>4, <1>5, <1>7, <1>10 DEF IInv

\* Retiring a family keeps every row, revokes those of the code and no other.
LEMMA RetiredFacts ==
  ASSUME NEW rows \in SUBSET Row, NEW k \in Codes
  PROVE  /\ Retired(rows, k) \in SUBSET Row
         /\ \A r \in rows : \E q \in Retired(rows, k) :
              q.pair = r.pair /\ q.kind = r.kind /\ q.code = r.code
         /\ \A q \in Retired(rows, k) :
              /\ q.code = k => q.revoked
              /\ \E r \in rows : /\ q.pair = r.pair /\ q.kind = r.kind /\ q.code = r.code
                                 /\ ~q.revoked => ~r.revoked
<1> DEFINE out(r) == IF r.code = k
                     THEN [pair |-> r.pair, kind |-> r.kind, code |-> r.code, revoked |-> TRUE]
                     ELSE r
<1>1. Retired(rows, k) = {out(r) : r \in rows}
  BY DEF Retired
<1>2. ASSUME NEW r \in rows
      PROVE  /\ out(r) \in Row
             /\ out(r).pair = r.pair /\ out(r).kind = r.kind /\ out(r).code = r.code
             /\ out(r).code = k => out(r).revoked
             /\ ~out(r).revoked => ~r.revoked
  BY DEF Row
<1> HIDE DEF out
<1> QED BY <1>1, <1>2

\* So tables whose family of k is retired keep their promises.
LEMMA RetiredIsSound ==
  ASSUME NEW t \in Tables, NEW u \in Tables, NEW k \in Codes,
         u.rows = Retired(t.rows, k), u.codes = t.codes, u.audit = t.audit
  PROVE  /\ Sound(t) => Sound(u)
         /\ \A p \in Pairs : Paid(t, p) => Paid(u, p)
<1> DEFINE rs == Retired(t.rows, k)
<1>1. /\ \A r \in t.rows : \E q \in rs :
           q.pair = r.pair /\ q.kind = r.kind /\ q.code = r.code
      /\ \A q \in rs : \E r \in t.rows :
           /\ q.pair = r.pair /\ q.kind = r.kind /\ q.code = r.code
           /\ ~q.revoked => ~r.revoked
  BY RetiredFacts DEF Tables
<1> HIDE DEF rs
<1>2. u.rows = rs
  BY DEF rs
<1> QED BY <1>1, <1>2 DEF Sound, Paid, Has

LEMMA RetiresStep ==
  ASSUME IInv, Retires
  PROVE  IInv'
<1> DEFINE t == [codes |-> V.codes, rows |-> Retired(V.rows, loop.code),
                 audit |-> V.audit, used |-> V.used, active |-> V.active]
<1>1. V \in Tables /\ V.used = db.used /\ V.rows \in SUBSET Row
  BY ViewFacts DEF IInv, Tables
<1>2. /\ loop' \in Request /\ loop' # None /\ handed' \subseteq Pairs
      /\ collected' = collected /\ collected \subseteq Row
      /\ loop'.at = "access" /\ loop'.code = loop.code /\ loop'.pair = loop.pair
      /\ loop.code \in Codes /\ loop.pair \in Pairs
  BY GoesOn DEF Retires, At, IInv
<1>3. Retired(V.rows, loop.code) \in SUBSET Row
  BY <1>1, <1>2, RetiredFacts
<1>4. t \in Tables
  BY <1>1, <1>3 DEF Tables
<1>5. DbInv' /\ db' = db /\ V' = t
  BY <1>4, ServerWrites DEF Retires, IInv, V
<1>6. ToolInv' /\ SenderInv' /\ GrantInv' /\ CommitInv' /\ crashes' \in 0..MaxCrashes
  BY <1>5, LoopRest DEF Retires
<1>7. \A q \in V'.rows : q.code = loop.code => q.revoked
  BY <1>1, <1>2, <1>5, RetiredFacts
<1>8. LoopInv'
  BY <1>2, <1>5, <1>7 DEF Retires, IInv, LoopInv, At
<1>9. Sound(V') /\ \A p \in Pairs : Paid(V, p) => Paid(V', p)
  BY <1>1, <1>2, <1>4, <1>5, RetiredIsSound DEF IInv, TokenInv
<1>10. TokenInv'
  BY <1>5, <1>9 DEF Retires, toolVars, IInv, LoopInv, TokenInv, Sound, Accounted, Paid, Has
<1> QED BY <1>5, <1>6, <1>8, <1>10 DEF IInv

\* A retired pair is used again: the family goes, with whatever was pending.
LEMMA RefreshReusedStep ==
  ASSUME IInv, NEW o \in Pairs, RefreshReused(o)
  PROVE  IInv'
<1>1. V \in Tables /\ V.used = db.used /\ V.rows \in SUBSET Row
  BY ViewFacts DEF IInv, Tables
<1>2. PICK r \in V.rows :
        WriteAndCommit(Srv, [codes |-> V.codes, rows |-> Retired(V.rows, r.code),
                             audit |-> V.audit, used |-> V.used, active |-> V.active])
  BY DEF RefreshReused, V
<1> DEFINE t == [codes |-> V.codes, rows |-> Retired(V.rows, r.code),
                 audit |-> V.audit, used |-> V.used, active |-> V.active]
<1>3. r.code \in Codes /\ Retired(V.rows, r.code) \in SUBSET Row
  BY <1>1, RetiredFacts DEF Row
<1>4. t \in Tables
  BY <1>1, <1>3 DEF Tables
<1>5. DbInv' /\ db' = t /\ V' = t
  BY <1>2, <1>4, ServerWritesAndCommits DEF IInv
<1>6. ToolInv' /\ SenderInv' /\ GrantInv' /\ CommitInv' /\ crashes' \in 0..MaxCrashes
  BY <1>1, <1>5, LoopRest DEF RefreshReused
<1>7. Sound(t) /\ \A p \in Pairs : Paid(V, p) => Paid(t, p)
  BY <1>1, <1>3, <1>4, RetiredIsSound DEF IInv, TokenInv
<1>8. LoopInv'
  BY DEF RefreshReused, loopVars, IInv, LoopInv, At
<1>9. TokenInv'
  BY <1>5, <1>7 DEF RefreshReused, toolVars, loopVars, IInv, LoopInv, TokenInv, Sound,
                    Accounted, Paid, Has
<1> QED BY <1>5, <1>6, <1>8, <1>9 DEF IInv

\* Collection deletes rows and codes of the view and commits: what is gone is
\* remembered as collected, and no code becomes fresh.
LEMMA CollectStep ==
  ASSUME IInv, NEW gone \in SUBSET V.rows, NEW late \in SUBSET Codes,
         collect_expired(gone, late)
  PROVE  IInv'
<1> DEFINE t == [codes |-> [k \in Codes |-> IF k \in late THEN "collected" ELSE V.codes[k]],
                 rows |-> V.rows \ gone, audit |-> V.audit, used |-> V.used,
                 active |-> V.active]
<1>1. V \in Tables /\ V.used = db.used /\ V.rows \in SUBSET Row
  BY ViewFacts DEF IInv, Tables
<1>2. t \in Tables
  BY <1>1 DEF Tables
<1>3. DbInv' /\ db' = t /\ V' = t
  BY <1>2, ServerWritesAndCommits DEF collect_expired, IInv, V
<1>4. collected' = collected \cup gone /\ handed' = handed /\ loop' = None
  BY DEF collect_expired
<1>5. ToolInv' /\ SenderInv' /\ GrantInv' /\ CommitInv' /\ crashes' \in 0..MaxCrashes
  BY <1>1, <1>3, LoopRest DEF collect_expired
<1>6. LoopInv'
  BY <1>1, <1>4 DEF IInv, LoopInv, At
<1>7. /\ t.rows \cup collected' = V.rows \cup collected /\ t.rows \subseteq V.rows
      /\ t.audit = V.audit /\ \A k \in Codes : V.codes[k] # "fresh" => t.codes[k] # "fresh"
      /\ \A r \in V.rows \cup collected : r.code \in Codes
  BY <1>1, <1>4 DEF IInv, LoopInv, Row
<1> HIDE DEF t
<1>8. Sound(V)'
  <2>1. \A r \in V'.rows \cup collected' : V'.codes[r.code] # "fresh"
    BY <1>3, <1>7 DEF IInv, TokenInv, Sound
  <2>2. \A r, q \in V'.rows :
          (q.code = r.code /\ ~q.revoked /\ ~r.revoked) => q.pair = r.pair
    BY <1>3, <1>7 DEF IInv, TokenInv, Sound
  <2> QED BY <2>1, <2>2 DEF Sound
<1>9. Accounted(V)'
  BY <1>3, <1>4, <1>7 DEF collect_expired, toolVars, IInv, TokenInv, Accounted, Paid, Has
<1>10. TokenInv'
  BY <1>3, <1>8, <1>9 DEF TokenInv, Sound, Accounted, Paid, Has
<1> QED BY <1>3, <1>5, <1>6, <1>10 DEF IInv

\* The two INSERTs: no live row of the code is of another pair.
LEMMA InsertsStep ==
  ASSUME IInv, NEW kind, NEW next, Inserts(kind, next),
         <<kind, next>> \in {<<"access", "refresh">>, <<"refresh", "audit">>}
  PROVE  IInv'
<1> DEFINE n == [pair |-> loop.pair, kind |-> kind, code |-> loop.code, revoked |-> FALSE]
           t == [codes |-> V.codes, rows |-> V.rows \cup {n},
                 audit |-> V.audit, used |-> V.used, active |-> V.active]
<1>0. (kind = "access" /\ next = "refresh") \/ (kind = "refresh" /\ next = "audit")
  OBVIOUS
<1>1. V \in Tables /\ V.used = db.used /\ V.rows \in SUBSET Row
  BY ViewFacts DEF IInv, Tables
<1>2. /\ loop' \in Request /\ loop' # None /\ handed' \subseteq Pairs
      /\ collected' = collected /\ collected \subseteq Row
      /\ loop'.at = next /\ loop'.code = loop.code /\ loop'.pair = loop.pair
      /\ loop.code \in Codes /\ loop.pair \in Pairs
  BY <1>0, GoesOn DEF Inserts, At, IInv
<1>3. n \in Row
  BY <1>0, <1>2 DEF Row
<1>4. t \in Tables
  BY <1>1, <1>3 DEF Tables
<1>5. DbInv' /\ db' = db /\ V' = t
  BY <1>4, ServerWrites DEF Inserts, IInv, V
<1>6. ToolInv' /\ SenderInv' /\ GrantInv' /\ CommitInv' /\ crashes' \in 0..MaxCrashes
  BY <1>5, LoopRest DEF Inserts
<1>7. /\ V.codes[loop.code] # "fresh"
      /\ \A r \in V.rows : r.code = loop.code /\ ~r.revoked => r.pair = loop.pair
      /\ kind = "refresh" => Has(V, loop.pair, "access")
  BY <1>0 DEF Inserts, At, IInv, LoopInv
<1>8. /\ V'.codes = V.codes /\ V'.audit = V.audit /\ V'.rows = V.rows \cup {n}
      /\ n.pair = loop.pair /\ n.code = loop.code /\ n.kind = kind
  BY <1>5
<1> HIDE DEF n, t
<1>9. \A p, k : Has(V, p, k) => Has(V', p, k)
  BY <1>8 DEF Has
<1>10. Has(V', loop.pair, kind)
  BY <1>8 DEF Has
<1>11. LoopInv'
  <2>1. CASE kind = "access" /\ next = "refresh"
    <3>1. \A r \in V'.rows : r.code = loop.code /\ ~r.revoked => r.pair = loop.pair
      BY <1>7, <1>8
    <3> QED BY <1>2, <1>7, <1>8, <1>10, <2>1, <3>1 DEF LoopInv, At, Has
  <2>2. CASE kind = "refresh" /\ next = "audit"
    BY <1>2, <1>7, <1>9, <1>10, <2>2 DEF LoopInv, At, Has
  <2> QED BY <1>0, <2>1, <2>2
<1>12. Sound(V')
  BY <1>7, <1>8 DEF IInv, TokenInv, Sound
<1>13. \A p : Paid(V, p) => Paid(V', p)
  BY <1>8, <1>9 DEF Paid
<1>14. TokenInv'
  BY <1>5, <1>8, <1>12, <1>13
  DEF Inserts, toolVars, IInv, TokenInv, Sound, Accounted, Paid, Has
<1> QED BY <1>5, <1>6, <1>11, <1>14 DEF IInv

\* _issue's audit row.
LEMMA IssueAuditsStep ==
  ASSUME IInv, IssueAudits
  PROVE  IInv'
<1>1. V \in Tables /\ V.used = db.used
  BY ViewFacts DEF IInv
<1>2. /\ loop' \in Request /\ loop' # None /\ handed' \subseteq Pairs
      /\ collected' = collected /\ collected \subseteq Row
      /\ loop'.at = "commit" /\ loop'.code = loop.code /\ loop'.pair = loop.pair
      /\ loop.code \in Codes /\ loop.pair \in Pairs
  BY GoesOn DEF IssueAudits, At, IInv
<1>3. WithAudit(loop.pair) \in Tables
  BY <1>1, <1>2 DEF WithAudit, Tables, V
<1>4. DbInv' /\ db' = db /\ V' = WithAudit(loop.pair)
  BY <1>3, ServerWrites DEF IssueAudits, IInv, WithAudit, V
<1>5. Keeps(V, V') /\ Keeps(db, db') /\ loop.pair \in V'.audit
  BY <1>4 DEF Keeps, WithAudit, V
<1>6. TokenInv'
  BY <1>5, TokenFrame DEF IssueAudits, toolVars, IInv
<1>7. LoopInv'
  BY <1>2, <1>5 DEF IssueAudits, IInv, LoopInv, At, Keeps, Paid, Has
<1>8. ToolInv' /\ SenderInv' /\ GrantInv' /\ CommitInv' /\ crashes' \in 0..MaxCrashes
  BY <1>4, <1>5, LoopRest DEF IssueAudits, Keeps
<1> QED BY <1>4, <1>6, <1>7, <1>8 DEF IInv

LEMMA IssueCommitsStep ==
  ASSUME IInv, IssueCommits
  PROVE  IInv'
<1>1. DbInv' /\ db' = V /\ V' = V
  BY ServerCommits DEF IssueCommits, IInv
<1>2. /\ loop' \in Request /\ loop' # None /\ handed' \subseteq Pairs
      /\ collected' = collected /\ collected \subseteq Row
      /\ loop'.at = "respond" /\ loop'.code = loop.code /\ loop'.pair = loop.pair
  BY GoesOn DEF IssueCommits, At, IInv
<1>3. TokenInv'
  BY <1>1, TokenFrame DEF IssueCommits, toolVars, IInv, Keeps
<1>4. LoopInv'
  BY <1>1, <1>2 DEF IssueCommits, IInv, LoopInv, At, Paid, Has
<1>5. ToolInv' /\ SenderInv' /\ GrantInv' /\ CommitInv' /\ crashes' \in 0..MaxCrashes
  BY <1>1, LoopRest, ViewFacts DEF IssueCommits, IInv
<1> QED BY <1>1, <1>3, <1>4, <1>5 DEF IInv

-----------------------------------------------------------------------------
(* The terminal.                                                            *)

LEMMA TerminalStep ==
  ASSUME IInv,
         \/ \E v \in Convs, fenced \in BOOLEAN : set_visibility(v, fenced)
         \/ revoke_device
  PROVE  IInv'
<1>1. CASE \E v \in Convs, fenced \in BOOLEAN : set_visibility(v, fenced)
  <2> PICK v \in Convs, fenced \in BOOLEAN : set_visibility(v, fenced)
    BY <1>1
  <2>1. DbInv' /\ db' = db /\ V' = V
    BY DbFrame DEF set_visibility, IInv
  <2>2. TokenInv' /\ LoopInv'
    BY <2>1, TokenFrame, LoopFrame DEF set_visibility, IInv, Keeps, loopVars
  <2>3. SenderInv' /\ GrantInv' /\ CommitInv'
    BY <2>1, SenderFrame DEF set_visibility, IInv, CommitInv
  <2>4. local' \subseteq Convs
    BY DEF set_visibility, IInv, ToolInv
  <2>5. \A c \in Calls : /\ open'[c] \in SUBSET Convs /\ open[c] \subseteq open'[c]
                         /\ c \in InFlight => Convs \ local' \subseteq open'[c]
    BY DEF set_visibility, IInv, ToolInv
  <2>6. open' \in [Calls -> SUBSET Convs]
    BY <2>5 DEF set_visibility
  <2>7. ToolInv'
    BY <2>4, <2>5, <2>6 DEF set_visibility, IInv, ToolInv, InFlight
  <2> QED BY <2>1, <2>2, <2>3, <2>7 DEF set_visibility, IInv
<1>2. CASE revoke_device
  <2>1. DbInv' /\ V = db /\ V' = db' /\ Keeps(db, db') /\ db'.used = db.used
    BY <1>2, ControlAssumption DEF revoke_device, IInv, DbInv, Tables, V, View, Keeps
  <2>2. TokenInv' /\ LoopInv'
    BY <1>2, <2>1, TokenFrame, LoopFrame DEF revoke_device, IInv, loopVars, toolVars
  <2>3. ToolInv' /\ SenderInv' /\ GrantInv' /\ CommitInv' /\ crashes' \in 0..MaxCrashes
    BY <1>2, <2>1, LoopRest DEF revoke_device, Keeps
  <2> QED BY <2>1, <2>2, <2>3 DEF IInv
<1> QED BY <1>1, <1>2
-----------------------------------------------------------------------------
(* The senders.                                                             *)

\* What no sender touches.
LEMMA SenderRest ==
  ASSUME IInv, UNCHANGED <<toolVars, loopVars, crashes>>, Keeps(db, db'), Keeps(V, V')
  PROVE  TokenInv' /\ LoopInv' /\ ToolInv' /\ CommitInv' /\ crashes' \in 0..MaxCrashes
<1>1. TokenInv'
  BY TokenFrame DEF IInv, toolVars, loopVars
<1>2. CommitInv'
  BY DEF IInv, CommitInv, toolVars, Keeps
<1> QED BY <1>1, <1>2, LoopFrame, ToolFrame DEF IInv

\* One sender moves.
LEMMA SenderMoves ==
  ASSUME SenderInv, NEW s \in Senders, NEW m \in MarkReadCall \cup {None},
         sender' = [sender EXCEPT ![s] = m], m # None => Fits(m)
  PROVE  SenderInv'
BY DEF SenderInv, Fits

\* A call under way is of the right shape.
LEMMA SenderCall ==
  ASSUME SenderInv, NEW s \in Senders, sender[s] # None
  PROVE  /\ sender[s] \in MarkReadCall /\ Fits(sender[s])
         /\ sender[s].try \in SUBSET Grants /\ sender[s].on \in Grants \cup {None}
         /\ sender[s].snap \in [Grants -> Nat \cup {None}]
BY DEF SenderInv, MarkReadCall

\* As long as no sender comes to its mark, the counts stay above the marks.
LEMMA NoneComesToMark ==
  ASSUME DbInv, SenderInv, GrantInv, marks' = marks, db'.used = db.used,
         NEW s \in Senders, NEW m, sender' = [sender EXCEPT ![s] = m],
         m # None => m.at # "mark"
  PROVE  GrantInv'
<1> SUFFICES ASSUME NEW g \in Grants
             PROVE  /\ IsFiniteSet(Marking(g)')
                    /\ db.used[g] = None => marks[g] = 0 /\ Marking(g)' = {}
                    /\ db.used[g] # None =>
                         /\ marks[g] + Cardinality(Marking(g)') <= db.used[g]
                         /\ db.used[g] <= MaxActions
  BY DEF GrantInv
<1>1. Marking(g)' \subseteq Marking(g)
  BY DEF Marking, SenderInv
<1>2. /\ IsFiniteSet(Marking(g)') /\ Cardinality(Marking(g)') <= Cardinality(Marking(g))
      /\ Cardinality(Marking(g)') \in Nat /\ Cardinality(Marking(g)) \in Nat
  BY <1>1, FS_Subset, FS_CardinalityType DEF GrantInv
<1> QED
  <2>1. CASE db.used[g] = None
    BY <1>1, <1>2, <2>1 DEF GrantInv
  <2>2. CASE db.used[g] # None
    <3>1. marks[g] \in Nat /\ marks[g] + Cardinality(Marking(g)) <= db.used[g]
          /\ db.used[g] <= MaxActions
      BY <2>2 DEF GrantInv
    <3>2. db.used[g] \in Nat
      BY <2>2 DEF DbInv, Tables
    <3> QED BY <1>2, <2>2, <3>1, <3>2, ControlAssumption
  <2> QED BY <2>1, <2>2

\* store_grant: a grant starts at no use, and nobody is marking under it.
LEMMA StoreGrantStep ==
  ASSUME IInv, NEW s \in Senders, NEW g \in Grants, store_grant(s, g)
  PROVE  IInv'
<1> DEFINE t == [codes |-> db.codes, rows |-> db.rows, audit |-> db.audit,
                 used |-> [db.used EXCEPT ![g] = 0], active |-> db.active]
<1>1. View(s) = db
  BY SenderSees DEF IInv
<1>2. t \in Tables /\ db.used \in [Grants -> Nat \cup {None}]
  BY DEF IInv, DbInv, Tables
<1>3. DbInv' /\ db' = t /\ V' = t /\ V = db
  BY <1>1, <1>2, SenderWritesAndCommits DEF store_grant, IInv
<1>4. TokenInv' /\ LoopInv' /\ ToolInv' /\ CommitInv' /\ crashes' \in 0..MaxCrashes
  BY <1>3, SenderRest DEF store_grant, Keeps
<1>5. SenderInv'
  BY DEF store_grant, senderVars, IInv, SenderInv, Fits
<1>6. GrantInv'
  <2>1. \A h \in Grants : Marking(h)' = Marking(h)
    BY DEF store_grant, senderVars, Marking
  <2>2. marks' = marks /\ db.used[g] = None
    BY <1>1 DEF store_grant, senderVars
  <2>3. \A h \in Grants : db'.used[h] = IF h = g THEN 0 ELSE db.used[h]
    BY <1>2, <1>3
  <2>4. Marking(g) = {} /\ marks[g] = 0 /\ Cardinality({}) = 0
    BY <2>2, FS_EmptySet DEF IInv, GrantInv
  <2>5. marks \in [Grants -> Nat] /\ 0 <= MaxActions
    BY ControlAssumption DEF IInv, GrantInv
  <2>6. ASSUME NEW h \in Grants
        PROVE  /\ IsFiniteSet(Marking(h)')
               /\ db'.used[h] = None => marks'[h] = 0 /\ Marking(h)' = {}
               /\ db'.used[h] # None => marks'[h] + Cardinality(Marking(h)') <= db'.used[h]
                                        /\ db'.used[h] <= MaxActions
    <3>1. CASE h = g
      BY <2>1, <2>2, <2>3, <2>4, <2>5, <3>1, ControlAssumption DEF IInv, GrantInv
    <3>2. CASE h # g
      BY <2>1, <2>2, <2>3, <3>2 DEF IInv, GrantInv
    <3> QED BY <3>1, <3>2
  <2> QED BY <2>2, <2>5, <2>6 DEF GrantInv
<1> QED BY <1>3, <1>4, <1>5, <1>6 DEF IInv

\* A sender's steps that count nothing.
LEMMA SenderLooksStep ==
  ASSUME IInv, NEW s \in Senders,
         \/ GrantsRead(s) \/ (\E g \in Grants : GrantChecked(s, g))
         \/ GrantMissed(s) \/ MarkReadDenied(s) \/ SenderEnds(s)
  PROVE  IInv'
<1>1. View(s) = db /\ db.used \in [Grants -> Nat \cup {None}]
  BY SenderSees DEF IInv, DbInv, Tables
<1>2. DbInv' /\ db' = db /\ V' = V
  BY DbFrame, SenderMisses, SenderRollsBack
  DEF GrantsRead, GrantChecked, GrantMissed, MarkReadDenied, SenderEnds, IInv
<1>3. UNCHANGED <<toolVars, loopVars, marks, crashes>>
  BY DEF GrantsRead, GrantChecked, GrantMissed, MarkReadDenied, SenderEnds
<1>4. TokenInv' /\ LoopInv' /\ ToolInv' /\ CommitInv' /\ crashes' \in 0..MaxCrashes
  BY <1>2, <1>3, SenderRest DEF Keeps
<1>5. ASSUME NEW m \in MarkReadCall \cup {None}, sender' = [sender EXCEPT ![s] = m],
             m # None => Fits(m) /\ m.at # "mark"
      PROVE  IInv'
  <2>1. SenderInv'
    BY <1>5, SenderMoves DEF IInv
  <2>2. GrantInv'
    BY <1>2, <1>3, <1>5, NoneComesToMark DEF IInv
  <2> QED BY <1>2, <1>4, <2>1, <2>2 DEF IInv
<1>6. CASE GrantsRead(s)
  <2> DEFINE m == [try |-> {g \in Grants : db.used[g] # None}, snap |-> db.used,
                   on |-> None, at |-> "loop"]
  <2>1. m \in MarkReadCall /\ Fits(m) /\ m.at # "mark"
    BY <1>1 DEF MarkReadCall, Fits
  <2>2. sender' = [sender EXCEPT ![s] = m]
    BY <1>1, <1>6 DEF GrantsRead
  <2> QED BY <1>5, <2>1, <2>2
<1>7. CASE \E g \in Grants : GrantChecked(s, g)
  <2> PICK g \in Grants : GrantChecked(s, g)
    BY <1>7
  <2>1. /\ Fits(sender[s]) /\ sender[s].at = "loop" /\ g \in sender[s].try
        /\ sender[s].try \in SUBSET Grants /\ sender[s].snap \in [Grants -> Nat \cup {None}]
    BY SenderCall DEF GrantChecked, IInv
  <2>2. sender[s].snap[g] # None
    BY <2>1 DEF Fits
  <2> DEFINE m == [try |-> sender[s].try \ {g}, snap |-> sender[s].snap,
                   on |-> g, at |-> "update"]
             n == [try |-> sender[s].try \ {g}, snap |-> sender[s].snap,
                   on |-> None, at |-> "loop"]
  <2>3. m \in MarkReadCall /\ n \in MarkReadCall
    BY <2>1 DEF MarkReadCall
  <2>4. \/ sender[s].snap[g] < MaxActions /\ sender' = [sender EXCEPT ![s] = m]
        \/ sender' = [sender EXCEPT ![s] = n]
    BY DEF GrantChecked, SenderGoes
  <2>5. Fits(n) /\ (sender[s].snap[g] < MaxActions => Fits(m))
    BY <2>1, <2>2 DEF Fits
  <2> QED BY <1>5, <2>3, <2>4, <2>5
<1>8. CASE GrantMissed(s)
  <2> DEFINE m == [try |-> sender[s].try, snap |-> sender[s].snap,
                   on |-> None, at |-> "loop"]
  <2>1. /\ Fits(sender[s]) /\ sender[s].at = "update"
        /\ sender[s].try \in SUBSET Grants /\ sender[s].snap \in [Grants -> Nat \cup {None}]
    BY <1>8, SenderCall DEF GrantMissed, IInv
  <2>2. m \in MarkReadCall /\ Fits(m) /\ m.at # "mark"
    BY <2>1 DEF MarkReadCall, Fits
  <2>3. sender' = [sender EXCEPT ![s] = m]
    BY <1>8 DEF GrantMissed, SenderGoes
  <2> QED BY <1>5, <2>2, <2>3
<1>9. CASE MarkReadDenied(s) \/ SenderEnds(s)
  <2>1. sender' = [sender EXCEPT ![s] = None]
    BY <1>9 DEF MarkReadDenied, SenderEnds
  <2> QED BY <1>5, <2>1
<1> QED BY <1>6, <1>7, <1>8, <1>9

\* The use is counted, below the limit because the count is the one that was
\* checked, and the sender comes to its mark.
LEMMA GrantConsumedStep ==
  ASSUME IInv, NEW s \in Senders, GrantConsumed(s)
  PROVE  IInv'
<1>0. /\ sender[s] # None /\ sender[s].at = "update" /\ Fits(sender[s])
      /\ sender[s].snap \in [Grants -> Nat \cup {None}]
  BY SenderCall DEF GrantConsumed, IInv
<1> PICK g \in Grants : g = sender[s].on
  BY <1>0 DEF Fits
<1> DEFINE u == db.used[g]
           t == [codes |-> db.codes, rows |-> db.rows, audit |-> db.audit,
                 used |-> [db.used EXCEPT ![g] = @ + 1], active |-> db.active]
           m == [try |-> {}, snap |-> sender[s].snap, on |-> g, at |-> "mark"]
<1>1. View(s) = db /\ db.used \in [Grants -> Nat \cup {None}]
  BY SenderSees DEF IInv, DbInv, Tables
<1>2. u # None /\ u < MaxActions
  BY <1>0, <1>1 DEF GrantConsumed, Fits
<1>3. u \in Nat /\ u + 1 <= MaxActions
  BY <1>1, <1>2, ControlAssumption
<1>4. t \in Tables
  BY <1>1, <1>2, <1>3 DEF IInv, DbInv, Tables
<1>5. DbInv' /\ db' = t /\ V' = t /\ V = db
  BY <1>1, <1>4, SenderWritesAndCommits DEF GrantConsumed, Counted, IInv
<1>6. TokenInv' /\ LoopInv' /\ ToolInv' /\ CommitInv' /\ crashes' \in 0..MaxCrashes
  BY <1>5, SenderRest DEF GrantConsumed, Keeps
<1>7. m \in MarkReadCall /\ m # None /\ Fits(m) /\ m.at = "mark" /\ m.on = g
  <2>1. m \in MarkReadCall
    BY <1>0 DEF MarkReadCall
  <2> QED BY <1>2, <2>1, NoRowAssumption DEF Fits
<1>8. sender' = [sender EXCEPT ![s] = m] /\ marks' = marks
  BY DEF GrantConsumed, SenderGoes
<1>9. SenderInv'
  BY <1>7, <1>8, SenderMoves DEF IInv
<1>10. \A h \in Grants : db'.used[h] = IF h = g THEN u + 1 ELSE db.used[h]
  BY <1>1, <1>5
<1>11. sender \in [Senders -> MarkReadCall \cup {None}] /\ marks \in [Grants -> Nat]
  BY DEF IInv, SenderInv, GrantInv
<1> HIDE DEF m, t, u
<1>12. ASSUME NEW h \in Grants
       PROVE  /\ IsFiniteSet(Marking(h)')
              /\ db'.used[h] = None => marks'[h] = 0 /\ Marking(h)' = {}
              /\ db'.used[h] # None => marks'[h] + Cardinality(Marking(h)') <= db'.used[h]
                                       /\ db'.used[h] <= MaxActions
  <2>1. CASE h = g
    <3>1. Marking(g)' = Marking(g) \cup {s} /\ s \notin Marking(g)
      BY <1>0, <1>7, <1>8, <1>11 DEF Marking
    <3>2. /\ IsFiniteSet(Marking(g)) /\ marks[g] + Cardinality(Marking(g)) <= u
          /\ marks[g] \in Nat
      BY <1>2, <1>11 DEF IInv, GrantInv, u
    <3>3. Cardinality(Marking(g)) \in Nat
      BY <3>2, FS_CardinalityType
    <3>4. /\ IsFiniteSet(Marking(g) \cup {s})
          /\ Cardinality(Marking(g) \cup {s}) = Cardinality(Marking(g)) + 1
      BY <3>1, <3>2, FS_AddElement
    <3>5. Cardinality(Marking(g)') = Cardinality(Marking(g)) + 1 /\ IsFiniteSet(Marking(g)')
      BY <3>1, <3>4
    <3>6. db'.used[g] = u + 1 /\ marks'[g] = marks[g] /\ u + 1 # None
      BY <1>2, <1>3, <1>8, <1>10, ControlAssumption
    <3>7. marks[g] + (Cardinality(Marking(g)) + 1) <= u + 1
      BY <1>3, <3>2, <3>3
    <3> QED BY <1>3, <2>1, <3>5, <3>6, <3>7
  <2>2. CASE h # g
    <3>1. Marking(h)' = Marking(h)
      BY <1>0, <1>7, <1>8, <1>11, <2>2 DEF Marking
    <3> QED BY <1>8, <1>10, <2>2, <3>1 DEF IInv, GrantInv
  <2> QED BY <2>1, <2>2
<1>13. GrantInv'
  BY <1>8, <1>11, <1>12 DEF GrantInv
<1> QED BY <1>5, <1>6, <1>9, <1>13 DEF IInv

\* The mark is made: one that was counted is no longer to come.
LEMMA MarkReadStep ==
  ASSUME IInv, NEW s \in Senders, mark_read(s)
  PROVE  IInv'
<1>1. sender[s] # None /\ sender[s].at = "mark" /\ sender[s].on \in Grants
  BY SenderCall DEF mark_read, IInv, Fits
<1> PICK g \in Grants : g = sender[s].on
  BY <1>1
<1>2. DbInv' /\ db' = db /\ V' = V
  BY DbFrame DEF mark_read, IInv
<1>3. TokenInv' /\ LoopInv' /\ ToolInv' /\ CommitInv' /\ crashes' \in 0..MaxCrashes
  BY <1>2, SenderRest DEF mark_read, Keeps
<1>4. sender' = [sender EXCEPT ![s] = None]
  BY DEF mark_read
<1>5. SenderInv'
  BY <1>4, SenderMoves DEF IInv
<1>6. sender \in [Senders -> MarkReadCall \cup {None}] /\ marks \in [Grants -> Nat]
  BY DEF IInv, SenderInv, GrantInv
<1>7. /\ marks' \in [Grants -> Nat]
      /\ \A h \in Grants : marks'[h] = IF h = g THEN marks[g] + 1 ELSE marks[h]
  BY <1>1, <1>6 DEF mark_read
<1>8. ASSUME NEW h \in Grants
      PROVE  /\ IsFiniteSet(Marking(h)')
             /\ db.used[h] = None => marks'[h] = 0 /\ Marking(h)' = {}
             /\ db.used[h] # None => marks'[h] + Cardinality(Marking(h)') <= db.used[h]
                                     /\ db.used[h] <= MaxActions
  <2>1. CASE h = g
    <3>1. Marking(g)' = Marking(g) \ {s} /\ s \in Marking(g)
      BY <1>1, <1>4, <1>6 DEF Marking
    <3>2. IsFiniteSet(Marking(g)) /\ db.used[g] # None /\ marks[g] \in Nat
      BY <1>1, <1>6, <3>1 DEF IInv, GrantInv
    <3>3. Cardinality(Marking(g)) \in Nat
      BY <3>2, FS_CardinalityType
    <3>4. /\ IsFiniteSet(Marking(g) \ {s})
          /\ Cardinality(Marking(g) \ {s}) = Cardinality(Marking(g)) - 1
      BY <3>1, <3>2, FS_RemoveElement
    <3>5. Cardinality(Marking(g)') = Cardinality(Marking(g)) - 1 /\ IsFiniteSet(Marking(g)')
      BY <3>1, <3>4
    <3>6. marks[g] + Cardinality(Marking(g)) <= db.used[g] /\ db.used[g] <= MaxActions
      BY <1>1, <3>2 DEF IInv, GrantInv
    <3>7. marks'[g] = marks[g] + 1
      BY <1>1, <1>7
    <3>8. marks'[g] + Cardinality(Marking(g)') = marks[g] + Cardinality(Marking(g))
      BY <3>2, <3>3, <3>5, <3>7
    <3> QED BY <2>1, <3>2, <3>5, <3>6, <3>8
  <2>2. CASE h # g
    <3>1. Marking(h)' = Marking(h)
      BY <1>1, <1>4, <1>6, <2>2 DEF Marking
    <3> QED BY <1>7, <2>2, <3>1 DEF IInv, GrantInv
  <2> QED BY <2>1, <2>2
<1>9. GrantInv'
  BY <1>2, <1>7, <1>8 DEF GrantInv
<1> QED BY <1>2, <1>3, <1>5, <1>9 DEF IInv

-----------------------------------------------------------------------------
(* The theorems.                                                            *)

LEMMA InvStep == IInv /\ [Next]_vars => IInv'
<1> SUFFICES ASSUME IInv, [Next]_vars PROVE IInv'
  OBVIOUS
<1>1. CASE UNCHANGED vars
  <2>1. UNCHANGED <<dbVars, toolVars, loopVars, senderVars, crashes>>
    BY <1>1 DEF vars
  <2>2. DbInv' /\ db' = db /\ V' = V
    BY <2>1, DbFrame DEF IInv
  <2>3. TokenInv' /\ LoopInv' /\ ToolInv' /\ CommitInv' /\ crashes' \in 0..MaxCrashes
    BY <2>1, <2>2, SenderRest DEF Keeps
  <2> QED BY <2>1, <2>2, <2>3, SenderFrame DEF IInv
<1>2. CASE \E c \in Calls : Admit(c) \/ ToolStep(c)
  BY <1>2, ToolReadsStep, AuditInsertsStep, AuditCommitsStep, AuditFailsStep DEF ToolStep
<1>3. CASE \/ \E k \in Codes, p \in Pairs : ExchangeReads(k, p)
           \/ \E o \in Pairs : RefreshReused(o) \/ \E p \in Pairs : RefreshReads(o, p)
  BY <1>3, LoopReadsStep, RefreshReusedStep
<1>4. CASE LoopStep
  BY <1>4, ConsumesStep, RetiresStep, InsertsStep, IssueAuditsStep, IssueCommitsStep,
     LoopReadsStep DEF LoopStep
<1>5. CASE \E gone \in SUBSET View(Srv).rows, late \in SUBSET Codes :
              collect_expired(gone, late)
  BY <1>5, CollectStep DEF V
<1>6. CASE \E s \in Senders : SenderStep(s)
  BY <1>6, SenderLooksStep, StoreGrantStep, GrantConsumedStep, MarkReadStep DEF SenderStep
<1> QED BY <1>1, <1>2, <1>3, <1>4, <1>5, <1>6, ServerCrashesStep, TerminalStep DEF Next

\* The invariant holds in every reachable state.
THEOREM Invariance == Spec => []IInv
<1> QED BY InitInv, InvStep, PTL DEF Spec

\* Type correctness: no crash, failed statement or foreign commit leaves a table,
\* a call or a token request out of shape.
THEOREM TypeCorrect == Spec => []TypeOK
<1>1. IInv => TypeOK
  BY DEF IInv, DbInv, LoopInv, ToolInv, SenderInv, GrantInv, TypeOK
<1> QED BY <1>1, Invariance, PTL

\* Whatever the server sent is on disk with its audit row, and a pair's token rows
\* until collect_expired deletes them, for any number of calls and token requests
\* on its one connection, whoever commits for whom.
THEOREM NothingUnaudited == Spec => []SentIsAudited
<1>1. IInv => SentIsAudited
  BY DEF IInv, TokenInv, Accounted, Paid, Has, Stored, SentIsAudited
<1> QED BY <1>1, Invariance, PTL

\* The fence holds however often it is moved between a tool's two reads.
THEOREM FencesHold == Spec => []FenceHolds
<1>1. IInv => FenceHolds
  BY DEF IInv, ToolInv, FenceHolds
<1> QED BY <1>1, Invariance, PTL

\* A code is redeemed once, even where a tool's commit splits the exchange and
\* the server then dies, and after its rows have been collected.
THEOREM CodesAreSpent == Spec => []TokensComeFromCode
<1>1. IInv => TokensComeFromCode
  BY DEF IInv, TokenInv, Sound, TokensComeFromCode
<1> QED BY <1>1, Invariance, PTL

\* No more reads are marked than the phone signed for, for any number of senders
\* that race for the last use and any that die in between.
THEOREM GrantsAreLimits == Spec => []WithinGrant
<1>1. IInv => WithinGrant
  <2> SUFFICES ASSUME IInv, NEW g \in Grants, marks[g] > 0
               PROVE  db.used[g] # None /\ marks[g] <= db.used[g] /\ db.used[g] <= MaxActions
    BY DEF WithinGrant
  <2>1. db.used[g] # None /\ marks[g] \in Nat
    BY DEF IInv, GrantInv
  <2>2. db.used[g] \in Nat
    BY <2>1 DEF IInv, DbInv, Tables
  <2>3. /\ IsFiniteSet(Marking(g))
        /\ marks[g] + Cardinality(Marking(g)) <= db.used[g] /\ db.used[g] <= MaxActions
    BY <2>1 DEF IInv, GrantInv
  <2>4. Cardinality(Marking(g)) \in Nat
    BY <2>3, FS_CardinalityType
  <2> QED BY <2>1, <2>2, <2>3, <2>4
<1> QED BY <1>1, Invariance, PTL
=============================================================================
