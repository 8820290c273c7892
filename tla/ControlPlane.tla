----------------------------- MODULE ControlPlane -----------------------------
(***************************************************************************)
(* The processes that share control.db while the MCP server is published:    *)
(* the server itself, whose event loop runs the OAuth token endpoint and the *)
(* bearer gate and whose worker threads run the audited read tools, all on   *)
(* ONE connection; the processes that mark messages as read under a phone-   *)
(* signed capability grant, on connections of their own; and the terminal.   *)
(*                                                                         *)
(* The worker threads take db_lock, the event loop does not: a tool's commit *)
(* may fall between two statements of the token endpoint.                    *)
(***************************************************************************)
EXTENDS ControlDb, Naturals, FiniteSets

CONSTANTS
  Calls,        \* tool calls
  Convs,        \* conversations
  Codes,        \* authorization codes the server has handed to clients
  Pairs,        \* token pairs
  Senders,      \* processes that call mark_read
  Grants,       \* capability grants of one conversation
  MaxActions,   \* max_actions of each
  MaxCrashes,   \* bound on crashes
  Srv,          \* the server's connection
  None

ASSUME ControlAssumption ==
  /\ MaxActions \in Nat \ {0}
  /\ MaxCrashes \in Nat
  /\ Srv \notin Senders /\ NoConn \notin Senders \cup {Srv}
  /\ None \notin Calls \cup Codes \cup Pairs \cup Nat

VARIABLES
  local,        \* conversations with mcp_visibility LOCAL_ONLY
  lock,         \* db_lock: the call that holds it, or None
  call,         \* per call: where it is
  fence,        \* per call: the local_only_ids it read
  result,       \* per call: conversations its result is taken from
  open,         \* per call: conversations that were not fenced all through it
  loop,         \* the token request the event loop is in, or None
  handed,       \* pairs sent to a client
  collected,    \* token rows that collect_expired has deleted
  sender,       \* per sender: its mark_read call, or None
  marks,        \* per grant: reads marked at the provider under it
  crashes

dbVars == <<db, writer, work>>
toolVars == <<local, lock, call, fence, result, open>>
loopVars == <<loop, handed, collected>>
senderVars == <<sender, marks>>
vars == <<dbVars, toolVars, loopVars, senderVars, crashes>>

-----------------------------------------------------------------------------
Row == [pair: Pairs, kind: {"access", "refresh"}, code: Codes, revoked: BOOLEAN]

\* The tables this module is about.
Tables == [codes: [Codes -> {"fresh", "consumed", "collected"}],   \* oauth_codes
           rows: SUBSET Row,                    \* oauth_tokens
           audit: SUBSET (Calls \cup Pairs),    \* audit_log: tool calls, issued pairs
           used: [Grants -> Nat \cup {None}],   \* used_count; None: no grant
           active: BOOLEAN]                     \* the device that signed them

Request == [at: {"consume", "retire", "access", "refresh", "audit", "commit", "respond"},
            code: Codes, pair: Pairs]

MarkReadCall == [try: SUBSET Grants, snap: [Grants -> Nat \cup {None}],
                 on: Grants \cup {None}, at: {"loop", "update", "mark"}]

ASSUME NoRowAssumption == None \notin Request \cup MarkReadCall

TypeOK ==
  /\ db \in Tables /\ work \in Tables
  /\ writer \in Senders \cup {Srv, NoConn}
  /\ local \subseteq Convs
  /\ lock \in Calls \cup {None}
  /\ call \in [Calls -> {"new", "waiting", "fence", "read", "insert", "commit",
                         "done", "failed"}]
  /\ fence \in [Calls -> SUBSET Convs]
  /\ result \in [Calls -> SUBSET Convs]
  /\ open \in [Calls -> SUBSET Convs]
  /\ loop \in Request \cup {None}
  /\ handed \subseteq Pairs /\ collected \subseteq Row
  /\ sender \in [Senders -> MarkReadCall \cup {None}]
  /\ marks \in [Grants -> Nat]
  /\ crashes \in 0..MaxCrashes

Init ==
  /\ db = [codes |-> [k \in Codes |-> "fresh"], rows |-> {}, audit |-> {},
           used |-> [g \in Grants |-> None], active |-> TRUE]
  /\ work = db
  /\ writer = NoConn
  /\ local = {}
  /\ lock = None
  /\ call = [c \in Calls |-> "new"]
  /\ fence = [c \in Calls |-> {}]
  /\ result = [c \in Calls |-> {}]
  /\ open = [c \in Calls |-> {}]
  /\ loop = None
  /\ handed = {}
  /\ collected = {}
  /\ sender = [s \in Senders |-> None]
  /\ marks = [g \in Grants |-> 0]
  /\ crashes = 0

-----------------------------------------------------------------------------
(* The bearer gate and the read tools.                                      *)

InFlight == {c \in Calls : call[c] \notin {"new", "done", "failed"}}

\* These calls end without a result.
Drop(C) ==
  /\ call' = [c \in Calls |-> IF c \in C THEN "failed" ELSE call[c]]
  /\ fence' = [c \in Calls |-> IF c \in C THEN {} ELSE fence[c]]
  /\ result' = [c \in Calls |-> IF c \in C THEN {} ELSE result[c]]
  /\ open' = [c \in Calls |-> IF c \in C THEN {} ELSE open[c]]

\* BearerAuthMiddleware lets a request through, on the event loop and between
\* token requests; one with neither the static nor a live access token gets a
\* 401: no step.
Admit(c) ==
  /\ loop = None
  /\ call[c] = "new"
  /\ call' = [call EXCEPT ![c] = "waiting"]
  /\ open' = [open EXCEPT ![c] = Convs \ local]
  /\ UNCHANGED <<dbVars, local, lock, fence, result, loopVars, senderVars, crashes>>

\* guard: the worker thread takes db_lock.
TakesLock(c) ==
  /\ lock = None
  /\ call[c] = "waiting"
  /\ lock' = c
  /\ call' = [call EXCEPT ![c] = "fence"]
  /\ UNCHANGED <<dbVars, local, fence, result, open, loopVars, senderVars, crashes>>

\* Mutant: one NULL row when nothing is fenced.
local_only_ids_null == IF local = {} THEN {None} ELSE local

local_only_ids == local

\* The tool reads the fence ...
FenceReads(c) ==
  /\ call[c] = "fence"
  /\ fence' = [fence EXCEPT ![c] = local_only_ids]
  /\ call' = [call EXCEPT ![c] = "read"]
  /\ UNCHANGED <<dbVars, local, lock, result, open, loopVars, senderVars, crashes>>

\* Mutant: the fence is not applied to the rows.
Readable_all(c) == Convs

\* What search, get_messages, list_chats, get_message_status and
\* get_conversation_window leave in a result.
Readable(c) == Convs \ fence[c]

\* ... then the rows; or it raises.
ToolReads(c) ==
  /\ call[c] = "read"
  /\ \E found \in {Readable(c), {}} : result' = [result EXCEPT ![c] = found]
  /\ call' = [call EXCEPT ![c] = "insert"]
  /\ UNCHANGED <<dbVars, local, lock, fence, open, loopVars, senderVars, crashes>>

WithAudit(what) ==
  [codes |-> View(Srv).codes, rows |-> View(Srv).rows,
   audit |-> View(Srv).audit \cup {what}, used |-> View(Srv).used,
   active |-> View(Srv).active]

\* audit.record in guard's finally: INSERT ...
AuditInserts(c) ==
  /\ call[c] = "insert"
  /\ Write(Srv, WithAudit(c))
  /\ call' = [call EXCEPT ![c] = "commit"]
  /\ UNCHANGED <<local, lock, fence, result, open, loopVars, senderVars, crashes>>

\* Mutant: the row waits for somebody else's commit.
AuditCommits_later(c) ==
  /\ call[c] = "commit"
  /\ call' = [call EXCEPT ![c] = "done"]
  /\ lock' = None
  /\ UNCHANGED <<dbVars, local, fence, result, open, loopVars, senderVars, crashes>>

\* ... and commit, of whatever the connection has pending; the lock is released
\* and the result sent.
AuditCommits(c) ==
  /\ call[c] = "commit"
  /\ Commit(Srv)
  /\ call' = [call EXCEPT ![c] = "done"]
  /\ fence' = [fence EXCEPT ![c] = {}]
  /\ lock' = None
  /\ UNCHANGED <<local, result, open, loopVars, senderVars, crashes>>

\* Another process keeps control.db locked: record raises, the result is lost.
AuditFails(c) ==
  /\ call[c] = "insert"
  /\ ~CanWrite(Srv)
  /\ Drop({c})
  /\ lock' = None
  /\ UNCHANGED <<dbVars, local, loopVars, senderVars, crashes>>

ToolStep(c) ==
  \/ TakesLock(c) \/ FenceReads(c) \/ ToolReads(c)
  \/ AuditInserts(c) \/ AuditCommits(c) \/ AuditFails(c)

-----------------------------------------------------------------------------
(* The token endpoint, statement by statement, without db_lock.             *)

Goes(at) == loop' = [at |-> at, code |-> loop.code, pair |-> loop.pair]

At(at) == loop # None /\ loop.at = at

\* A pair with fresh secrets.
Fresh(p) ==
  p \notin handed /\ \A r \in View(Srv).rows \cup collected : r.pair # p

\* Mutant: the code is not consumed before the pair is minted.
ExchangeReads_mints(k, p) ==
  /\ loop = None
  /\ View(Srv).codes[k] = "fresh"
  /\ Fresh(p)
  /\ loop' = [at |-> "access", code |-> k, pair |-> p]
  /\ UNCHANGED <<dbVars, toolVars, handed, collected, senderVars, crashes>>

\* exchange_code: SELECT and checks.
ExchangeReads(k, p) ==
  /\ loop = None
  /\ View(Srv).codes[k] = "fresh"
  /\ Fresh(p)
  /\ loop' = [at |-> "consume", code |-> k, pair |-> p]
  /\ UNCHANGED <<dbVars, toolVars, handed, collected, senderVars, crashes>>

\* UPDATE oauth_codes ... AND consumed_ms IS NULL.
Consumes ==
  /\ At("consume")
  /\ Write(Srv, [codes |-> [View(Srv).codes EXCEPT ![loop.code] = "consumed"],
                 rows |-> View(Srv).rows, audit |-> View(Srv).audit,
                 used |-> View(Srv).used, active |-> View(Srv).active])
  /\ Goes("access")
  /\ UNCHANGED <<toolVars, handed, collected, senderVars, crashes>>

\* refresh with pair o: SELECT and checks.
RefreshReads(o, p) ==
  /\ loop = None
  /\ Fresh(p)
  /\ \E r \in View(Srv).rows :
       /\ r.pair = o /\ r.kind = "refresh" /\ ~r.revoked
       /\ loop' = [at |-> "retire", code |-> r.code, pair |-> p]
  /\ UNCHANGED <<dbVars, toolVars, handed, collected, senderVars, crashes>>

\* UPDATE oauth_tokens SET revoked_ms ... WHERE grant_id: the family of code k.
Retired(rows, k) ==
  {IF r.code = k THEN [pair |-> r.pair, kind |-> r.kind, code |-> r.code, revoked |-> TRUE]
   ELSE r : r \in rows}

Retires ==
  /\ At("retire")
  /\ Write(Srv, [codes |-> View(Srv).codes, rows |-> Retired(View(Srv).rows, loop.code),
                 audit |-> View(Srv).audit, used |-> View(Srv).used,
                 active |-> View(Srv).active])
  /\ Goes("access")
  /\ UNCHANGED <<toolVars, handed, collected, senderVars, crashes>>

\* refresh with a pair o that was retired: the family goes, and is committed at
\* once, with whatever a tool has pending.  Its audit row answers for nothing
\* that was sent and is left out.
RefreshReused(o) ==
  /\ loop = None
  /\ \E r \in View(Srv).rows :
       /\ r.pair = o /\ r.kind = "refresh" /\ r.revoked
       /\ WriteAndCommit(Srv,
            [codes |-> View(Srv).codes, rows |-> Retired(View(Srv).rows, r.code),
             audit |-> View(Srv).audit, used |-> View(Srv).used,
             active |-> View(Srv).active])
  /\ UNCHANGED <<toolVars, loopVars, senderVars, crashes>>

\* _issue: the two INSERTs ...
Inserts(kind, next) ==
  /\ At(kind)
  /\ Write(Srv, [codes |-> View(Srv).codes,
                 rows |-> View(Srv).rows \cup
                   {[pair |-> loop.pair, kind |-> kind, code |-> loop.code,
                     revoked |-> FALSE]},
                 audit |-> View(Srv).audit, used |-> View(Srv).used,
                 active |-> View(Srv).active])
  /\ Goes(next)
  /\ UNCHANGED <<toolVars, handed, collected, senderVars, crashes>>

\* ... the audit row ...
IssueAudits ==
  /\ At("audit")
  /\ Write(Srv, WithAudit(loop.pair))
  /\ Goes("commit")
  /\ UNCHANGED <<toolVars, handed, collected, senderVars, crashes>>

\* ... and commit: record's, then _issue's own, which finds nothing of this
\* request left.
IssueCommits ==
  /\ At("commit")
  /\ Commit(Srv)
  /\ Goes("respond")
  /\ UNCHANGED <<toolVars, handed, collected, senderVars, crashes>>

Responds ==
  /\ At("respond")
  /\ handed' = handed \cup {loop.pair}
  /\ loop' = None
  /\ UNCHANGED <<dbVars, toolVars, collected, senderVars, crashes>>

\* collect_expired, at every authorize: the DELETEs of codes and tokens and the
\* commit, of whatever else is pending too.  The clock decides which rows are past
\* their expiry and may be set either way, so any may be, but an access token
\* expires before the refresh token of its pair.  (A tool's commit between the
\* DELETEs is a collection of the first ones only.)
collect_expired(gone, late) ==
  /\ loop = None
  /\ gone \subseteq View(Srv).rows
  /\ \A r \in gone, q \in View(Srv).rows :
       (r.kind = "refresh" /\ q.kind = "access" /\ q.pair = r.pair) => q \in gone
  /\ WriteAndCommit(Srv,
       [codes |-> [k \in Codes |-> IF k \in late THEN "collected"
                                  ELSE View(Srv).codes[k]],
        rows |-> View(Srv).rows \ gone, audit |-> View(Srv).audit,
        used |-> View(Srv).used, active |-> View(Srv).active])
  /\ collected' = collected \cup gone
  /\ UNCHANGED <<toolVars, loop, handed, senderVars, crashes>>

\* Another process has control.db locked: the statement raises, a 500.
LoopFails ==
  /\ loop # None /\ loop.at \notin {"commit", "respond"}
  /\ ~CanWrite(Srv)
  /\ loop' = None
  /\ UNCHANGED <<dbVars, toolVars, handed, collected, senderVars, crashes>>

LoopStep ==
  \/ Consumes \/ Retires \/ Inserts("access", "refresh") \/ Inserts("refresh", "audit")
  \/ IssueAudits \/ IssueCommits \/ Responds \/ LoopFails

\* The server dies and is restarted by launchd.
ServerCrashes ==
  /\ crashes < MaxCrashes
  /\ crashes' = crashes + 1
  /\ Rollback(Srv)
  /\ lock' = None
  /\ Drop(InFlight)
  /\ loop' = None
  /\ UNCHANGED <<local, handed, collected, senderVars>>

-----------------------------------------------------------------------------
(* mark_read under a capability grant.                                      *)

\* store_grant, of a grant whose signature verifies.
store_grant(s, g) ==
  /\ sender[s] = None
  /\ View(s).active
  /\ View(s).used[g] = None
  /\ WriteAndCommit(s, [codes |-> View(s).codes, rows |-> View(s).rows,
                        audit |-> View(s).audit,
                        used |-> [View(s).used EXCEPT ![g] = 0],
                        active |-> View(s).active])
  /\ UNCHANGED <<toolVars, loopVars, senderVars, crashes>>

SenderGoes(s, try, on, at) ==
  sender' = [sender EXCEPT ![s] = [try |-> try, snap |-> sender[s].snap, on |-> on, at |-> at]]

\* mark_read of a target that checks out; verify_and_consume SELECTs the grants.
GrantsRead(s) ==
  /\ sender[s] = None
  /\ \E g \in Grants : View(s).used[g] # None
  /\ sender' = [sender EXCEPT ![s] =
       [try |-> {g \in Grants : View(s).used[g] # None}, snap |-> View(s).used,
        on |-> None, at |-> "loop"]]
  /\ UNCHANGED <<dbVars, toolVars, loopVars, marks, crashes>>

\* The next row: the device's key is looked up, the limits and the signature are
\* checked against the row that was read.
GrantChecked(s, g) ==
  /\ sender[s] # None /\ sender[s].at = "loop"
  /\ g \in sender[s].try
  /\ IF View(s).active /\ sender[s].snap[g] < MaxActions
     THEN SenderGoes(s, sender[s].try \ {g}, g, "update")
     ELSE SenderGoes(s, sender[s].try \ {g}, None, "loop")
  /\ UNCHANGED <<dbVars, toolVars, loopVars, marks, crashes>>

Counted(s) ==
  [codes |-> View(s).codes, rows |-> View(s).rows, audit |-> View(s).audit,
   used |-> [View(s).used EXCEPT ![sender[s].on] = @ + 1], active |-> View(s).active]

\* Mutant: UPDATE without AND used_count=?.
GrantConsumed_blind(s) ==
  /\ sender[s] # None /\ sender[s].at = "update"
  /\ WriteAndCommit(s, Counted(s))
  /\ SenderGoes(s, {}, sender[s].on, "mark")
  /\ UNCHANGED <<toolVars, loopVars, marks, crashes>>

\* UPDATE ... AND used_count=?, and commit.
GrantConsumed(s) ==
  /\ sender[s] # None /\ sender[s].at = "update"
  /\ View(s).used[sender[s].on] = sender[s].snap[sender[s].on]
  /\ WriteAndCommit(s, Counted(s))
  /\ SenderGoes(s, {}, sender[s].on, "mark")
  /\ UNCHANGED <<toolVars, loopVars, marks, crashes>>

\* The UPDATE finds the count changed: no row, no commit, and the transaction it
\* opened stays open.
GrantMissed(s) ==
  /\ sender[s] # None /\ sender[s].at = "update"
  /\ View(s).used[sender[s].on] # sender[s].snap[sender[s].on]
  /\ Write(s, View(s))
  /\ SenderGoes(s, sender[s].try, None, "loop")
  /\ UNCHANGED <<toolVars, loopVars, marks, crashes>>

\* No row is left: AUTHORIZATION_MISSING; or control.db is locked: it raises.
MarkReadDenied(s) ==
  /\ sender[s] # None
  /\ \/ sender[s].at = "loop" /\ sender[s].try = {}
     \/ sender[s].at = "update" /\ ~CanWrite(s)
  /\ sender' = [sender EXCEPT ![s] = None]
  /\ UNCHANGED <<dbVars, toolVars, loopVars, marks, crashes>>

mark_read(s) ==
  /\ sender[s] # None /\ sender[s].at = "mark"
  /\ marks' = [marks EXCEPT ![sender[s].on] = @ + 1]
  /\ sender' = [sender EXCEPT ![s] = None]
  /\ UNCHANGED <<dbVars, toolVars, loopVars, crashes>>

\* The sender's process ends, with or without a call under way.
SenderEnds(s) ==
  /\ sender[s] # None \/ writer = s
  /\ Rollback(s)
  /\ sender' = [sender EXCEPT ![s] = None]
  /\ UNCHANGED <<toolVars, loopVars, marks, crashes>>

SenderStep(s) ==
  \/ GrantsRead(s) \/ (\E g \in Grants : store_grant(s, g) \/ GrantChecked(s, g))
  \/ GrantConsumed(s) \/ GrantMissed(s) \/ MarkReadDenied(s) \/ mark_read(s)
  \/ SenderEnds(s)

-----------------------------------------------------------------------------
(* The terminal.                                                            *)

\* mcp-visibility, on vault.db.
set_visibility(v, fenced) ==
  /\ local' = IF fenced THEN local \cup {v} ELSE local \ {v}
  /\ local' # local
  /\ open' = [c \in Calls |-> IF c \in InFlight THEN open[c] \cup (Convs \ local')
                              ELSE open[c]]
  /\ UNCHANGED <<dbVars, lock, call, fence, result, loopVars, senderVars, crashes>>

\* revoke of the phone.
revoke_device ==
  /\ writer = NoConn
  /\ db.active
  /\ db' = [codes |-> db.codes, rows |-> db.rows, audit |-> db.audit,
            used |-> db.used, active |-> FALSE]
  /\ work' = db'
  /\ UNCHANGED <<writer, toolVars, loopVars, senderVars, crashes>>

-----------------------------------------------------------------------------
Next ==
  \/ \E c \in Calls : Admit(c) \/ ToolStep(c)
  \/ \E k \in Codes, p \in Pairs : ExchangeReads(k, p)
  \/ \E o \in Pairs : RefreshReused(o) \/ \E p \in Pairs : RefreshReads(o, p)
  \/ LoopStep
  \/ \E gone \in SUBSET View(Srv).rows, late \in SUBSET Codes : collect_expired(gone, late)
  \/ ServerCrashes
  \/ \E s \in Senders : SenderStep(s)
  \/ \E v \in Convs, fenced \in BOOLEAN : set_visibility(v, fenced)
  \/ revoke_device

Spec == Init /\ [][Next]_vars

-----------------------------------------------------------------------------
(* Properties.                                                              *)

\* The row of one half of pair p is on disk, or has expired and was collected.
Stored(p, kind) ==
  \E r \in db.rows \cup collected : r.pair = p /\ r.kind = kind

\* Everything that leaves the server is accounted for: a result that was sent has
\* its audit row on disk for ever, a token pair that was handed out has its audit
\* row and, until they expire and are collected, both its token rows, whatever
\* crashes afterwards and whoever else commits or fails to.
SentIsAudited ==
  /\ \A c \in Calls : call[c] = "done" => c \in db.audit
  /\ \A p \in handed :
       p \in db.audit /\ Stored(p, "access") /\ Stored(p, "refresh")

\* No result holds anything of a conversation that was fenced all through the
\* call, however the fence moves between the tool's two reads.
FenceHolds == \A c \in Calls : call[c] = "done" => result[c] \subseteq open[c]

\* A code that has ever put a token on disk cannot be redeemed again, even when a
\* tool's commit cuts the exchange in two and the server then dies, and even when
\* collect_expired has deleted rows of it: the code is consumed or gone, and all
\* pairs on disk but one are revoked.
TokensComeFromCode ==
  /\ \A r \in db.rows \cup collected : db.codes[r.code] # "fresh"
  /\ \A r, q \in db.rows :
       (q.code = r.code /\ ~q.revoked /\ ~r.revoked) => q.pair = r.pair

\* The provider is never asked for more reads than the phone signed for, and
\* each is counted before it is asked for: two callers that race for the last
\* use, and one that dies in between, included.
WithinGrant ==
  \A g \in Grants : marks[g] > 0 =>
    db.used[g] # None /\ marks[g] <= db.used[g] /\ db.used[g] <= MaxActions

-----------------------------------------------------------------------------
(* What the documentation says and the code does not do.                    *)

\* db/connection.py: "the caller must hold a lock around every use, or two
\* requests will interleave on one connection.  apps.mcp.server does both."  With
\* that lock, and as oauth.py says of exchange_code ("in the same transaction"),
\* a code that is consumed on disk has its pair on disk once the request is over.
ExchangeIsAtomic ==
  loop = None => \A k \in Codes : db.codes[k] = "consumed" =>
    \E p \in Pairs : \A kind \in {"access", "refresh"} :
      \E r \in db.rows \cup collected : r.pair = p /\ r.kind = kind /\ r.code = k
=============================================================================
