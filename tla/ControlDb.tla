------------------------------ MODULE ControlDb ------------------------------
(***************************************************************************)
(* control.db as the connections of several processes see it.  Python's      *)
(* sqlite3 opens a transaction before the first INSERT or UPDATE of a         *)
(* connection and ends it in commit(); reads outside one are autocommit.     *)
(* One connection at a time may have written without having committed, the   *)
(* others wait for it and then fail with "database is locked".               *)
(***************************************************************************)
CONSTANT NoConn

VARIABLES
  db,           \* what is committed
  writer,       \* the connection with an open write transaction, or NoConn
  work          \* what that connection sees

\* What a SELECT on connection c finds.
View(c) == IF writer = c THEN work ELSE db

CanWrite(c) == writer \in {NoConn, c}

\* A statement of c that leaves its view at state s, not committed.
Write(c, s) ==
  /\ CanWrite(c)
  /\ writer' = c
  /\ work' = s
  /\ UNCHANGED db

\* commit() on c; a no-op without an open transaction.
Commit(c) ==
  /\ db' = View(c)
  /\ work' = IF writer = c THEN db' ELSE work
  /\ writer' = IF writer = c THEN NoConn ELSE writer

\* A statement of c and its commit, with nothing of c in between.
WriteAndCommit(c, s) ==
  /\ CanWrite(c)
  /\ db' = s
  /\ work' = s
  /\ writer' = NoConn

\* The process of c is gone: its open transaction is rolled back.
Rollback(c) ==
  /\ writer' = IF writer = c THEN NoConn ELSE writer
  /\ work' = IF writer = c THEN db ELSE work
  /\ UNCHANGED db
=============================================================================
