------------------------------ MODULE Bootstrap ------------------------------
(***************************************************************************)
(* First run and schema upgrades: `whatsvault init` mints the keys in the    *)
(* Keychain, creates vault.db and control.db under them and migrates both,   *)
(* `whatsvault mcp-provision` mints the two service keys, and every daemon   *)
(* and CLI verb opens the databases with the keys it finds.                  *)
(*                                                                         *)
(* A process may die between any two steps; each migration is a transaction. *)
(* Keychain entries may be lost or spoilt at any moment; the user puts them   *)
(* right, or moves a database aside, while no provisioning verb runs.        *)
(***************************************************************************)
EXTENDS Naturals, Sequences

CONSTANTS
  Operators,    \* processes that run init and mcp-provision
  Releases,     \* bound: number of schema releases
  MaxFaults,    \* bound: crashes, and Keychain entries lost or spoilt
  Absent, Spoilt

ASSUME BootstrapAssumption ==
  /\ Releases \in Nat \ {0}
  /\ MaxFaults \in Nat
  /\ Absent \notin Nat /\ Spoilt \notin Nat /\ Absent # Spoilt

Kinds == {"vault", "control"}

ServiceKeys == {"token", "audit"}

\* What init goes through, in its order: DB_KEY_NAMES, then _SERVICE_KEYS.
Order == <<"vault", "control", "token", "audit">>

Names == Kinds \cup ServiceKeys

VARIABLES
  keychain,     \* per name: the key (its number), Absent, or Spoilt: wrong length
  minted,       \* per name: keys ever minted; each differs from all others
  file,         \* per database: Absent, or the key its pages are under (0: no page
                \* written yet) and PRAGMA user_version
  shipped,      \* schema version of the installed release
  pc,           \* per operator: the running verb, or Absent
  faults

vars == <<keychain, minted, file, shipped, pc, faults>>

-----------------------------------------------------------------------------
Database == [key: Nat, version: 0..Releases]

Run == [verb: {"init", "mcp-provision"}, i: 1..Len(Order) + 1,
        at: {"check", "mint", "set", "open", "migrate"}, key: Nat]

\* "No file" and "no verb" are not a file or a verb.
ASSUME AbsentAssumption == Absent \notin Database \cup Run

TypeOK ==
  /\ keychain \in [Names -> Nat \cup {Absent, Spoilt}]
  /\ minted \in [Names -> Nat]
  /\ \A n \in Names : keychain[n] \in 1..minted[n] \cup {Absent, Spoilt}
  /\ file \in [Kinds -> Database \cup {Absent}]
  /\ shipped \in 1..Releases
  /\ pc \in [Operators -> Run \cup {Absent}]
  /\ faults \in 0..MaxFaults

Init ==
  /\ keychain = [n \in Names |-> Absent]
  /\ minted = [n \in Names |-> 0]
  /\ file = [k \in Kinds |-> Absent]
  /\ shipped = 1
  /\ pc = [o \in Operators |-> Absent]
  /\ faults = 0

Empty == [key |-> 0, version |-> 0]

\* KeyStore.require succeeds.
Usable(n) == keychain[n] \notin {Absent, Spoilt}

_has_key(n) == Usable(n)

\* Mutant: any database on disk stops init.
_stranded_present == {k \in Kinds : file[k] # Absent}

\* Databases on disk whose key is unusable.
_stranded == {k \in Kinds : file[k] # Absent /\ ~_has_key(k)}

\* open_db with a key: the first read fails on pages that are under another.
Opens(k, key) == file[k] # Absent => file[k].key \in {0, key}

\* Mutant: the file is opened afresh.
Connected_truncates(k) == [file EXCEPT ![k] = Empty]

\* connect creates the file.
Connected(k) == [file EXCEPT ![k] = IF file[k] = Absent THEN Empty ELSE file[k]]

-----------------------------------------------------------------------------
(* The provisioning verbs, step by step.                                    *)

Item(o) == Order[pc[o].i]

Running(o, at) == pc[o] # Absent /\ pc[o].i <= Len(Order) /\ pc[o].at = at

Goto(o, at, key) ==
  pc' = [pc EXCEPT ![o] = [verb |-> pc[o].verb, i |-> pc[o].i, at |-> at, key |-> key]]

\* On to the next item; mcp-provision opens the databases and migrates nothing.
NextItem(o) ==
  pc' = [pc EXCEPT ![o] =
    [verb |-> pc[o].verb, i |-> pc[o].i + 1, key |-> 0,
     at |-> IF pc[o].verb = "mcp-provision" /\ pc[o].i = 1 THEN "open" ELSE "check"]]

\* The verb raises, or returns an error.
Gives_up(o) == pc' = [pc EXCEPT ![o] = Absent]

Quiet == UNCHANGED <<shipped, faults>>

\* init_vault: with a database stranded nothing is changed, a report: no step.
init_vault(o) ==
  /\ pc[o] = Absent
  /\ _stranded = {}
  /\ pc' = [pc EXCEPT ![o] = [verb |-> "init", i |-> 1, at |-> "check", key |-> 0]]
  /\ UNCHANGED <<keychain, minted, file>> /\ Quiet

\* open_ctx of mcp-provision, then cmd_mcp_provision.
cmd_mcp_provision(o) ==
  /\ pc[o] = Absent
  /\ pc' = [pc EXCEPT ![o] =
       [verb |-> "mcp-provision", i |-> 1, at |-> "open", key |-> 0]]
  /\ UNCHANGED <<keychain, minted, file>> /\ Quiet

\* Mutant: the key is looked at before the file.
_ensure_database_key_first(o) ==
  /\ Running(o, "check") /\ Item(o) \in Kinds
  /\ Goto(o, IF _has_key(Item(o)) THEN "open" ELSE "mint", 0)
  /\ UNCHANGED <<keychain, minted, file>> /\ Quiet

\* Mutant: an existing database is left as it is.
_ensure_database_skips(o) ==
  /\ Running(o, "check") /\ Item(o) \in Kinds
  /\ \/ file[Item(o)] # Absent /\ NextItem(o)
     \/ /\ file[Item(o)] = Absent
        /\ Goto(o, IF _has_key(Item(o)) THEN "open" ELSE "mint", 0)
  /\ UNCHANGED <<keychain, minted, file>> /\ Quiet

\* _ensure_database: an existing file, or a usable key, is opened and never given
\* another key.
_ensure_database(o) ==
  /\ Running(o, "check") /\ Item(o) \in Kinds
  /\ Goto(o, IF file[Item(o)] # Absent \/ _has_key(Item(o)) THEN "open" ELSE "mint", 0)
  /\ UNCHANGED <<keychain, minted, file>> /\ Quiet

\* The service keys.  init tries to mint over a spoilt key, and raises in
\* provision; mcp-provision reports it.
EnsureServiceKey(o) ==
  /\ Running(o, "check") /\ Item(o) \in ServiceKeys
  /\ \/ Usable(Item(o)) /\ NextItem(o)
     \/ ~Usable(Item(o)) /\ (pc[o].verb = "init" \/ keychain[Item(o)] = Absent)
        /\ Goto(o, "mint", 0)
     \/ pc[o].verb = "mcp-provision" /\ keychain[Item(o)] = Spoilt /\ Gives_up(o)
  /\ UNCHANGED <<keychain, minted, file>> /\ Quiet

\* Mutant: a key that cannot be used is replaced.
ProvisionReads_usable(o) ==
  /\ Running(o, "mint")
  /\ IF Usable(Item(o)) THEN Gives_up(o) ELSE Goto(o, "set", 0)
  /\ UNCHANGED <<keychain, minted, file>> /\ Quiet

\* provision: get_password, and KeyExists unless there is no entry ...
ProvisionReads(o) ==
  /\ Running(o, "mint")
  /\ IF keychain[Item(o)] # Absent THEN Gives_up(o) ELSE Goto(o, "set", 0)
  /\ UNCHANGED <<keychain, minted, file>> /\ Quiet

\* ... then set_password.
ProvisionSets(o) ==
  /\ Running(o, "set")
  /\ LET key == minted[Item(o)] + 1
     IN /\ minted' = [minted EXCEPT ![Item(o)] = key]
        /\ keychain' = [keychain EXCEPT ![Item(o)] = key]
        /\ IF Item(o) \in Kinds THEN Goto(o, "open", key) ELSE NextItem(o)
  /\ UNCHANGED file /\ Quiet

\* open_existing, or the rest of provision_db with the key just minted.
open_db(o) ==
  /\ Running(o, "open")
  /\ LET k == Item(o)
         key == IF pc[o].key # 0 THEN pc[o].key ELSE keychain[k]
     IN IF key \in {Absent, Spoilt} THEN Gives_up(o) /\ UNCHANGED file
        ELSE IF ~Opens(k, key) THEN Gives_up(o) /\ UNCHANGED file
        ELSE /\ file' = Connected(k)
             /\ IF pc[o].verb = "init" THEN Goto(o, "migrate", key) ELSE NextItem(o)
  /\ UNCHANGED <<keychain, minted>> /\ Quiet

\* Mutant: one migration too many.
migrate_past_end(o) ==
  /\ Running(o, "migrate")
  /\ IF file[Item(o)].version <= shipped
     THEN /\ file' = [file EXCEPT ![Item(o)] =
                [key |-> pc[o].key, version |-> file[Item(o)].version + 1]]
          /\ pc' = pc
     ELSE file' = file /\ NextItem(o)
  /\ UNCHANGED <<keychain, minted>> /\ Quiet

\* migrate: the next migration above user_version, in one transaction; the first
\* one writes the first page, under this connection's key.
migrate(o) ==
  /\ Running(o, "migrate")
  /\ IF file[Item(o)].version < shipped
     THEN /\ file' = [file EXCEPT ![Item(o)] =
                [key |-> pc[o].key, version |-> file[Item(o)].version + 1]]
          /\ pc' = pc
     ELSE file' = file /\ NextItem(o)
  /\ UNCHANGED <<keychain, minted>> /\ Quiet

\* The verb prints that it is ok.
Reports(o) ==
  /\ pc[o] # Absent /\ pc[o].i > Len(Order)
  /\ pc' = [pc EXCEPT ![o] = Absent]
  /\ UNCHANGED <<keychain, minted, file>> /\ Quiet

\* open_databases and open_ctx: the vault, then the control database.  A missing
\* key or a wrong one ends in a report; a missing file is created, empty.
open_databases(k) ==
  /\ Usable("vault") /\ Opens("vault", keychain["vault"])
  /\ k = "control" => file["vault"] # Absent /\ Usable("control")
  /\ file[k] = Absent
  /\ file' = Connected(k)
  /\ UNCHANGED <<keychain, minted, pc>> /\ Quiet

-----------------------------------------------------------------------------
(* Around them.                                                             *)

Idle == \A o \in Operators : pc[o] = Absent

Fault == faults < MaxFaults /\ faults' = faults + 1

\* The process dies, or a migration fails and raises.
Dies(o) ==
  /\ pc[o] # Absent /\ Fault /\ Gives_up(o)
  /\ UNCHANGED <<keychain, minted, file, shipped>>

\* A Keychain entry is lost, or replaced by bytes of another length.
LoseKey(n, left) ==
  /\ Usable(n) /\ Fault
  /\ keychain' = [keychain EXCEPT ![n] = left]
  /\ UNCHANGED <<minted, file, shipped, pc>>

\* The user puts an unusable entry right, or deletes it.
Mend(n) ==
  /\ Idle /\ ~Usable(n)
  /\ \/ minted[n] > 0 /\ keychain' = [keychain EXCEPT ![n] = minted[n]]
     \/ keychain' = [keychain EXCEPT ![n] = Absent]
  /\ UNCHANGED <<minted, file, shipped, pc, faults>>

\* What init's message asks for, to the letter: "Restore the Keychain entry, or move
\* the ... database aside and re-run".  The second leaves the entry as it is.
Repair(k) ==
  /\ Idle /\ k \in _stranded
  /\ \/ /\ minted[k] > 0
        /\ keychain' = [keychain EXCEPT ![k] = minted[k]]
        /\ UNCHANGED file
     \/ file' = [file EXCEPT ![k] = Absent] /\ UNCHANGED keychain
  /\ UNCHANGED <<minted, shipped, pc, faults>>

\* A release with another migration is installed.
Upgrade ==
  /\ Idle /\ shipped < Releases
  /\ shipped' = shipped + 1
  /\ UNCHANGED <<keychain, minted, file, pc, faults>>

-----------------------------------------------------------------------------
InitSteps(o) ==
  \/ _ensure_database(o) \/ EnsureServiceKey(o)
  \/ ProvisionReads(o) \/ ProvisionSets(o)
  \/ open_db(o) \/ migrate(o) \/ Reports(o)

Next ==
  \/ \E o \in Operators : init_vault(o) \/ cmd_mcp_provision(o) \/ InitSteps(o) \/ Dies(o)
  \/ \E k \in Kinds : open_databases(k)
  \/ \E n \in Names, left \in {Absent, Spoilt} : LoseKey(n, left)
  \/ \E n \in Names : Mend(n)
  \/ \E k \in Kinds : Repair(k)
  \/ Upgrade

Spec == Init /\ [][Next]_vars

\* A verb that was started goes on; the user comes back to init, and does what
\* its message asks for, one way or the other, and no more than that.
FairSpec ==
  /\ Spec
  /\ \A o \in Operators : WF_vars(InitSteps(o)) /\ SF_vars(init_vault(o))
  /\ \A k \in Kinds : SF_vars(Repair(k))

-----------------------------------------------------------------------------
(* Properties.                                                              *)

\* bootstrap's "one genuinely dangerous operation": wherever init was cut off,
\* whatever was lost, restored or moved aside before it was run again, and
\* whichever empty file a daemon left, the Keychain never holds a usable key
\* beside a database that is under another one.
KeyFitsDatabase ==
  \A k \in Kinds :
    Usable(k) /\ file[k] # Absent /\ file[k].key # 0 => keychain[k] = file[k].key

\* A provisioning verb never rotates a key and never mints over an entry it cannot
\* use, which would destroy the evidence of the damage.
NeverRotates ==
  [][\A n \in Names : minted'[n] # minted[n] => keychain[n] = Absent]_vars

\* A database is re-encrypted never, and its schema only moves forward.
ForwardOnly ==
  [][\A k \in Kinds : file[k] # Absent /\ file'[k] # Absent =>
       /\ file'[k].version >= file[k].version
       /\ file[k].key # 0 => file'[k].key = file[k].key]_vars

Ready ==
  /\ \A n \in Names : Usable(n)
  /\ \A k \in Kinds : file[k] = [key |-> keychain[k], version |-> shipped]

\* "ok" from init is true, whatever was lost while it ran: both databases are on
\* disk at the shipped schema under the last key minted for them, and the keys of
\* the daemon have been minted.
OkMeansReady ==
  [][\A o \in Operators : Reports(o) /\ pc[o].verb = "init" =>
       /\ \A n \in Names : minted[n] > 0
       /\ \A k \in Kinds : file[k] = [key |-> minted[k], version |-> shipped]]_vars

\* However often it dies and whatever is lost on the way, re-running init and doing
\* to the letter what its message asks for ends with a complete vault, or at an
\* entry of the wrong length with no database beside it, over which provision
\* refuses to mint and about which init's message says nothing.
InitConverges ==
  <>[](Ready \/ \E n \in Names \ _stranded : keychain[n] = Spoilt)

-----------------------------------------------------------------------------
(* What the program says and does not do.                                   *)

\* init's message: "Restore the Keychain entry, or move the ... database aside and
\* re-run to start fresh."  Whichever of the two is done, the database is there
\* with a key in the end.
StartsFresh ==
  \A k \in Kinds : k \in _stranded ~> Usable(k) /\ file[k] # Absent
=============================================================================
