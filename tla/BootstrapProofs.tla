--------------------------- MODULE BootstrapProofs ---------------------------
(* Safety of init, mcp-provision and the migrations for any number of        *)
(* operators, releases, crashes and lost keys.  What is said about keys needs *)
(* that no two provisioning verbs run at once: provision reads the Keychain  *)
(* entry and sets it in two calls, and nothing in the code keeps a second     *)
(* init from coming between.                                                 *)
EXTENDS Bootstrap, TLAPS

\* No two operators are in a provisioning verb.
OneAtATime == \A o, q \in Operators : pc[o] # Absent /\ pc[q] # Absent => o = q

(* The inductive invariant, in parts.  The first two hold however many verbs  *)
(* run at once.                                                             *)

\* Only databases are opened and migrated; the one being migrated is on disk.
Places ==
  \A o \in Operators : pc[o] # Absent =>
    /\ pc[o].at # "check" => pc[o].i <= Len(Order)
    /\ pc[o].at \in {"open", "migrate"} => Item(o) \in Kinds
    /\ pc[o].at = "migrate" => file[Item(o)] # Absent

\* No database is ahead of the release, and a key in the Keychain is the last one
\* that was minted under its name.
Latest ==
  /\ \A k \in Kinds : file[k] # Absent => file[k].version <= shipped
  /\ \A n \in Names : Usable(n) => keychain[n] = minted[n]

\* A database with a schema is under the last key minted for it, and one without
\* has no page yet.
FilesFit ==
  \A k \in Kinds : file[k] # Absent =>
    \/ file[k].version = 0 /\ file[k].key = 0
    \/ file[k].version > 0 /\ file[k].key = minted[k] /\ minted[k] > 0

\* A verb that is about to mint has no entry to overwrite and no database to
\* strand; one that opens or migrates holds the last key, or none yet.
VerbsFit ==
  \A o \in Operators : pc[o] # Absent =>
    /\ pc[o].at \in {"mint", "set"} =>
         ~Usable(Item(o)) /\ (Item(o) \in Kinds => file[Item(o)] = Absent)
    /\ pc[o].at = "set" => keychain[Item(o)] = Absent
    /\ pc[o].at = "open" => pc[o].key \in {0, minted[Item(o)]}
    /\ pc[o].at = "migrate" => pc[o].key = minted[Item(o)] /\ pc[o].key > 0

\* What init has gone past is done.
Progress ==
  \A o \in Operators : pc[o] # Absent /\ pc[o].verb = "init" =>
    \A j \in 1..(pc[o].i - 1) :
      /\ minted[Order[j]] > 0
      /\ Order[j] \in Kinds =>
           file[Order[j]] # Absent /\ file[Order[j]].version = shipped

BaseInv == TypeOK /\ Places /\ Latest

IInv == BaseInv /\ FilesFit /\ VerbsFit /\ Progress
-----------------------------------------------------------------------------
(* The order of the items, and a verb's moves.                              *)

\* The four items, each a name of its own.
LEMMA OrderFacts ==
  /\ Len(Order) = 4
  /\ \A i \in 1..4 : Order[i] \in Names
  /\ Order[1] = "vault" /\ Order[2] = "control" /\ Order[3] = "token" /\ Order[4] = "audit"
  /\ \A i, j \in 1..4 : Order[i] = Order[j] => i = j
BY DEF Order, Names, Kinds, ServiceKeys

\* Where a running verb is.
LEMMA RunningFacts ==
  ASSUME TypeOK, NEW o \in Operators, NEW at, Running(o, at)
  PROVE  /\ pc[o] \in Run /\ pc[o] # Absent /\ pc[o].at = at
         /\ pc[o].i \in 1..4 /\ Item(o) \in Names
BY OrderFacts DEF TypeOK, Running, Run, Item

\* Goto stays at the item; the other operators are left alone.
LEMMA GotoMoves ==
  ASSUME TypeOK, NEW o \in Operators, pc[o] \in Run,
         NEW at \in {"check", "mint", "set", "open", "migrate"}, NEW key \in Nat,
         Goto(o, at, key)
  PROVE  /\ pc' \in [Operators -> Run \cup {Absent}]
         /\ \A q \in Operators : q # o => pc'[q] = pc[q]
         /\ pc'[o] # Absent
         /\ pc'[o].verb = pc[o].verb /\ pc'[o].i = pc[o].i
         /\ pc'[o].at = at /\ pc'[o].key = key
<1> DEFINE run == [verb |-> pc[o].verb, i |-> pc[o].i, at |-> at, key |-> key]
<1>1. run \in Run
  BY DEF Run
<1>2. run # Absent
  BY <1>1, AbsentAssumption
<1>3. pc' = [pc EXCEPT ![o] = run]
  BY DEF Goto
<1>4. pc'[o] = run
  BY <1>3 DEF TypeOK
<1> QED BY <1>1, <1>2, <1>3, <1>4 DEF TypeOK

\* NextItem leaves the item for the next one; only mcp-provision's second item
\* is opened straight away.
LEMMA NextItemMoves ==
  ASSUME TypeOK, NEW o \in Operators, pc[o] \in Run, pc[o].i \in 1..4, NextItem(o)
  PROVE  /\ pc' \in [Operators -> Run \cup {Absent}]
         /\ \A q \in Operators : q # o => pc'[q] = pc[q]
         /\ pc'[o] # Absent
         /\ pc'[o].verb = pc[o].verb /\ pc'[o].i = pc[o].i + 1
         /\ pc'[o].at \in {"open", "check"} /\ pc'[o].key = 0
         /\ pc'[o].at = "open" => pc[o].i = 1
<1> DEFINE run == [verb |-> pc[o].verb, i |-> pc[o].i + 1, key |-> 0,
                   at |-> IF pc[o].verb = "mcp-provision" /\ pc[o].i = 1
                          THEN "open" ELSE "check"]
<1>1. run \in Run
  BY OrderFacts DEF Run
<1>2. run # Absent
  BY <1>1, AbsentAssumption
<1>3. pc' = [pc EXCEPT ![o] = run]
  BY DEF NextItem
<1>4. pc'[o] = run
  BY <1>3 DEF TypeOK
<1> QED BY <1>1, <1>2, <1>3, <1>4 DEF TypeOK

\* Gives_up ends the verb.
LEMMA GivesUpMoves ==
  ASSUME TypeOK, NEW o \in Operators, Gives_up(o)
  PROVE  /\ pc' \in [Operators -> Run \cup {Absent}]
         /\ \A q \in Operators : q # o => pc'[q] = pc[q]
         /\ pc'[o] = Absent
BY DEF Gives_up, TypeOK

-----------------------------------------------------------------------------
(* Preservation, action by action.                                          *)

\* Nothing is on disk and nothing runs.
LEMMA InitInv == Init => IInv
<1> SUFFICES ASSUME Init PROVE IInv
  OBVIOUS
<1>1. TypeOK
  BY BootstrapAssumption DEF Init, TypeOK
<1>2. Places /\ Latest
  BY DEF Init, Places, Latest, Usable
<1>3. FilesFit /\ VerbsFit /\ Progress
  BY DEF Init, FilesFit, VerbsFit, Progress
<1> QED BY <1>1, <1>2, <1>3 DEF IInv, BaseInv

\* The start of a verb, at its first item.
LEMMA StartStep ==
  ASSUME NEW o \in Operators, init_vault(o) \/ cmd_mcp_provision(o)
  PROVE  /\ BaseInv => BaseInv'
         /\ IInv => IInv'
<1> SUFFICES ASSUME BaseInv PROVE BaseInv' /\ (IInv => IInv')
  BY DEF IInv
<1> USE DEF init_vault, cmd_mcp_provision, Quiet
<1>1. PICK run : /\ run \in {[verb |-> "init", i |-> 1, at |-> "check", key |-> 0],
                             [verb |-> "mcp-provision", i |-> 1, at |-> "open", key |-> 0]}
                 /\ pc' = [pc EXCEPT ![o] = run]
  OBVIOUS
<1>2. run \in Run /\ run.i = 1 /\ run.key = 0 /\ run.at \in {"check", "open"}
  BY <1>1, OrderFacts DEF Run
<1>3. UNCHANGED <<keychain, minted, file, shipped, faults>>
  OBVIOUS
<1>4. pc'[o] = run /\ \A q \in Operators : q # o => pc'[q] = pc[q]
  BY <1>1 DEF BaseInv, TypeOK
<1>5. BaseInv'
  <2>1. TypeOK'
    BY <1>1, <1>2, <1>3 DEF BaseInv, TypeOK
  <2>2. Places'
    BY <1>2, <1>3, <1>4, OrderFacts DEF BaseInv, Places, Item, Kinds
  <2>3. Latest'
    BY <1>3 DEF BaseInv, Latest, Usable
  <2> QED BY <2>1, <2>2, <2>3 DEF BaseInv
<1>6. ASSUME IInv PROVE IInv'
  <2>1. FilesFit'
    BY <1>3, <1>6 DEF IInv, FilesFit
  <2>2. VerbsFit'
    BY <1>2, <1>3, <1>4, <1>6 DEF IInv, VerbsFit, Item, Usable
  <2>3. Progress'
    BY <1>2, <1>3, <1>4, <1>6 DEF IInv, Progress
  <2> QED BY <1>5, <2>1, <2>2, <2>3 DEF IInv
<1> QED BY <1>5, <1>6

\* A verb stops: it reports, raises, or its process dies.
LEMMA StopStep ==
  ASSUME NEW o \in Operators, Gives_up(o), UNCHANGED <<keychain, minted, file, shipped>>,
         faults' \in 0..MaxFaults
  PROVE  /\ BaseInv => BaseInv'
         /\ IInv => IInv'
<1> SUFFICES ASSUME BaseInv PROVE BaseInv' /\ (IInv => IInv')
  BY DEF IInv
<1>1. /\ pc' \in [Operators -> Run \cup {Absent}]
      /\ \A q \in Operators : pc'[q] # Absent => pc'[q] = pc[q]
  BY GivesUpMoves DEF BaseInv
<1>2. TypeOK'
  BY <1>1 DEF BaseInv, TypeOK
<1>3. BaseInv'
  BY <1>1, <1>2 DEF BaseInv, Places, Latest, Item, Usable
<1>4. ASSUME IInv PROVE IInv'
  <2>1. FilesFit'
    BY <1>4 DEF IInv, FilesFit
  <2>2. VerbsFit'
    BY <1>1, <1>4 DEF IInv, VerbsFit, Item, Usable
  <2>3. Progress'
    BY <1>1, <1>4 DEF IInv, Progress
  <2> QED BY <1>3, <2>1, <2>2, <2>3 DEF IInv
<1> QED BY <1>3, <1>4

\* A verb goes on at its item and changes nothing else; what the new place asks
\* for holds.
LEMMA GotoStep ==
  ASSUME BaseInv, NEW o \in Operators, NEW from, Running(o, from),
         NEW at \in {"check", "mint", "set", "open", "migrate"}, NEW key \in Nat,
         Goto(o, at, key), UNCHANGED <<keychain, minted, file, shipped, faults>>,
         at \in {"open", "migrate"} => Item(o) \in Kinds,
         at = "migrate" => file[Item(o)] # Absent
  PROVE  /\ BaseInv'
         /\ /\ IInv
            /\ at \in {"mint", "set"} =>
                 ~Usable(Item(o)) /\ (Item(o) \in Kinds => file[Item(o)] = Absent)
            /\ at = "set" => keychain[Item(o)] = Absent
            /\ at = "open" => key \in {0, minted[Item(o)]}
            /\ at = "migrate" => key = minted[Item(o)] /\ key > 0
            => IInv'
<1>1. pc[o] \in Run /\ pc[o] # Absent /\ pc[o].i \in 1..4
  BY RunningFacts DEF BaseInv
<1>2. /\ pc' \in [Operators -> Run \cup {Absent}]
      /\ \A q \in Operators : q # o => pc'[q] = pc[q]
      /\ pc'[o] # Absent
      /\ pc'[o].verb = pc[o].verb /\ pc'[o].i = pc[o].i
      /\ pc'[o].at = at /\ pc'[o].key = key
  BY <1>1, GotoMoves DEF BaseInv
<1>3. Item(o)' = Item(o) /\ \A q \in Operators : q # o => Item(q)' = Item(q)
  BY <1>2 DEF Item
<1>4. TypeOK'
  BY <1>2 DEF BaseInv, TypeOK
<1>5. Places'
  BY <1>1, <1>2, <1>3, OrderFacts DEF BaseInv, Places
<1>6. Latest'
  BY DEF BaseInv, Latest, Usable
<1>7. ASSUME IInv,
             at \in {"mint", "set"} =>
               ~Usable(Item(o)) /\ (Item(o) \in Kinds => file[Item(o)] = Absent),
             at = "set" => keychain[Item(o)] = Absent,
             at = "open" => key \in {0, minted[Item(o)]},
             at = "migrate" => key = minted[Item(o)] /\ key > 0
      PROVE  IInv'
  <2>1. FilesFit'
    BY <1>7 DEF IInv, FilesFit
  <2>2. VerbsFit'
    BY <1>2, <1>3, <1>7 DEF IInv, VerbsFit, Usable
  <2>3. Progress'
    BY <1>1, <1>2, <1>7 DEF IInv, Progress
  <2> QED BY <1>4, <1>5, <1>6, <2>1, <2>2, <2>3 DEF IInv, BaseInv
<1> QED BY <1>4, <1>5, <1>6, <1>7 DEF BaseInv

\* A verb goes on to its next item and changes nothing else; init leaves a
\* finished item behind.
LEMMA NextItemStep ==
  ASSUME BaseInv, NEW o \in Operators, NEW from, Running(o, from), NextItem(o),
         UNCHANGED <<keychain, minted, file, shipped, faults>>
  PROVE  /\ BaseInv'
         /\ /\ IInv
            /\ pc[o].verb = "init" =>
                 /\ minted[Item(o)] > 0
                 /\ Item(o) \in Kinds =>
                      file[Item(o)] # Absent /\ file[Item(o)].version = shipped
            => IInv'
<1>1. pc[o] \in Run /\ pc[o] # Absent /\ pc[o].i \in 1..4
  BY RunningFacts DEF BaseInv
<1>2. /\ pc' \in [Operators -> Run \cup {Absent}]
      /\ \A q \in Operators : q # o => pc'[q] = pc[q]
      /\ pc'[o] # Absent
      /\ pc'[o].verb = pc[o].verb /\ pc'[o].i = pc[o].i + 1
      /\ pc'[o].at \in {"open", "check"} /\ pc'[o].key = 0
      /\ pc'[o].at = "open" => pc[o].i = 1
  BY <1>1, NextItemMoves DEF BaseInv
<1>3. \A q \in Operators : q # o => Item(q)' = Item(q)
  BY <1>2 DEF Item
<1>4. TypeOK'
  BY <1>2 DEF BaseInv, TypeOK
<1>5. Places'
  <2>1. pc'[o].at = "open" => Item(o)' \in Kinds /\ pc'[o].i <= Len(Order)
    BY <1>2, OrderFacts DEF Item, Kinds
  <2> QED BY <1>2, <1>3, <2>1 DEF BaseInv, Places
<1>6. Latest'
  BY DEF BaseInv, Latest, Usable
<1>7. ASSUME IInv,
             pc[o].verb = "init" =>
               /\ minted[Item(o)] > 0
               /\ Item(o) \in Kinds =>
                    file[Item(o)] # Absent /\ file[Item(o)].version = shipped
      PROVE  IInv'
  <2>1. FilesFit'
    BY <1>7 DEF IInv, FilesFit
  <2>2. VerbsFit'
    BY <1>2, <1>3, <1>7 DEF IInv, VerbsFit, Usable
  <2>3. ASSUME NEW j \in 1..(pc'[o].i - 1)
        PROVE  j \in 1..(pc[o].i - 1) \/ Order[j] = Item(o)
    BY <1>1, <1>2, <2>3 DEF Item
  <2>4. Progress'
    BY <1>1, <1>2, <1>7, <2>3 DEF IInv, Progress
  <2> QED BY <1>4, <1>5, <1>6, <2>1, <2>2, <2>4 DEF IInv, BaseInv
<1> QED BY <1>4, <1>5, <1>6, <1>7 DEF BaseInv

\* _ensure_database: only a database that is not there and has no key is minted
\* for.
LEMMA EnsureDatabaseStep ==
  ASSUME NEW o \in Operators, _ensure_database(o)
  PROVE  /\ BaseInv => BaseInv'
         /\ IInv => IInv'
<1> SUFFICES ASSUME BaseInv PROVE BaseInv' /\ (IInv => IInv')
  BY DEF IInv
<1> DEFINE at == IF file[Item(o)] # Absent \/ _has_key(Item(o)) THEN "open" ELSE "mint"
<1>1. /\ Running(o, "check") /\ Item(o) \in Kinds /\ Goto(o, at, 0)
      /\ UNCHANGED <<keychain, minted, file, shipped, faults>>
  BY DEF _ensure_database, Quiet
<1>2. /\ at \in {"open", "mint"}
      /\ at = "mint" => file[Item(o)] = Absent /\ ~Usable(Item(o))
  BY DEF _has_key
<1> HIDE DEF at
<1> QED BY <1>1, <1>2, GotoStep

\* The service keys: one that is usable is left, one that is not is minted for.
LEMMA EnsureServiceKeyStep ==
  ASSUME NEW o \in Operators, EnsureServiceKey(o)
  PROVE  /\ BaseInv => BaseInv'
         /\ IInv => IInv'
<1> SUFFICES ASSUME BaseInv PROVE BaseInv' /\ (IInv => IInv')
  BY DEF IInv
<1>1. /\ Running(o, "check") /\ Item(o) \in ServiceKeys
      /\ UNCHANGED <<keychain, minted, file, shipped, faults>>
  BY DEF EnsureServiceKey, Quiet
<1>2. Item(o) \notin Kinds /\ Item(o) \in Names
  BY <1>1 DEF ServiceKeys, Kinds, Names
<1>3. CASE Usable(Item(o)) /\ NextItem(o)
  <2>1. minted[Item(o)] > 0
    BY <1>2, <1>3 DEF BaseInv, TypeOK, Usable
  <2> QED BY <1>1, <1>2, <1>3, <2>1, NextItemStep
<1>4. CASE ~Usable(Item(o)) /\ Goto(o, "mint", 0)
  BY <1>1, <1>2, <1>4, GotoStep
<1>5. CASE Gives_up(o)
  BY <1>1, <1>5, StopStep DEF BaseInv, TypeOK
<1> QED BY <1>3, <1>4, <1>5 DEF EnsureServiceKey

\* provision's read: it goes on only without an entry.
LEMMA ProvisionReadsStep ==
  ASSUME NEW o \in Operators, ProvisionReads(o)
  PROVE  /\ BaseInv => BaseInv'
         /\ IInv => IInv'
<1> SUFFICES ASSUME BaseInv PROVE BaseInv' /\ (IInv => IInv')
  BY DEF IInv
<1>1. /\ Running(o, "mint")
      /\ UNCHANGED <<keychain, minted, file, shipped, faults>>
  BY DEF ProvisionReads, Quiet
<1>2. CASE Gives_up(o)
  BY <1>1, <1>2, StopStep DEF BaseInv, TypeOK
<1>3. CASE keychain[Item(o)] = Absent /\ Goto(o, "set", 0)
  <2>1. BaseInv'
    BY <1>1, <1>3, GotoStep
  <2>2. ASSUME IInv PROVE IInv'
    <3>1. ~Usable(Item(o)) /\ (Item(o) \in Kinds => file[Item(o)] = Absent)
      BY <1>1, <2>2 DEF IInv, VerbsFit, Running
    <3> QED BY <1>1, <1>3, <2>2, <3>1, GotoStep
  <2> QED BY <2>1, <2>2
<1> QED BY <1>2, <1>3 DEF ProvisionReads

\* provision's set_password: no entry is overwritten and no database is stranded,
\* if no other verb came between the read and the write.
LEMMA ProvisionSetsStep ==
  ASSUME NEW o \in Operators, ProvisionSets(o)
  PROVE  /\ BaseInv => BaseInv'
         /\ IInv /\ OneAtATime => IInv'
<1> SUFFICES ASSUME BaseInv PROVE BaseInv' /\ (IInv /\ OneAtATime => IInv')
  BY DEF IInv
<1> DEFINE n == Item(o)
           new == minted[n] + 1
<1>1. /\ pc[o] \in Run /\ pc[o] # Absent /\ pc[o].i \in 1..4 /\ n \in Names
      /\ pc[o].at = "set" /\ n = Order[pc[o].i]
  BY RunningFacts DEF BaseInv, ProvisionSets, Item
<1>2. minted[n] \in Nat /\ new \in Nat /\ new > 0
  BY <1>1 DEF BaseInv, TypeOK
<1>3. /\ minted' = [minted EXCEPT ![n] = new]
      /\ keychain' = [keychain EXCEPT ![n] = new]
      /\ UNCHANGED <<file, shipped, faults>>
      /\ IF n \in Kinds THEN Goto(o, "open", new) ELSE NextItem(o)
  BY DEF ProvisionSets, Quiet
<1> HIDE DEF n, new
<1>4. /\ minted'[n] = new /\ keychain'[n] = new
      /\ \A m \in Names : m # n => minted'[m] = minted[m] /\ keychain'[m] = keychain[m]
  BY <1>1, <1>3 DEF BaseInv, TypeOK
<1>5. /\ pc' \in [Operators -> Run \cup {Absent}]
      /\ \A q \in Operators : q # o => pc'[q] = pc[q]
      /\ pc'[o] # Absent /\ pc'[o].verb = pc[o].verb
      /\ \/ /\ n \in Kinds /\ pc'[o].i = pc[o].i
            /\ pc'[o].at = "open" /\ pc'[o].key = new
         \/ /\ n \notin Kinds /\ pc'[o].i = pc[o].i + 1 /\ pc'[o].at = "check"
  <2>1. CASE n \in Kinds
    BY <1>1, <1>2, <1>3, <2>1, GotoMoves DEF BaseInv
  <2>2. CASE n \notin Kinds
    <3>1. pc[o].i # 1
      BY <1>1, <2>2, OrderFacts DEF Kinds
    <3> QED BY <1>1, <1>3, <2>2, <3>1, NextItemMoves DEF BaseInv
  <2> QED BY <2>1, <2>2
<1>6. /\ \A q \in Operators : q # o => Item(q)' = Item(q)
      /\ n \in Kinds => Item(o)' = n
  BY <1>1, <1>5 DEF Item, n
<1>7. TypeOK'
  <2>1. \A m \in Names : keychain'[m] \in 1..minted'[m] \cup {Absent, Spoilt}
    BY <1>2, <1>4 DEF BaseInv, TypeOK
  <2>2. keychain' \in [Names -> Nat \cup {Absent, Spoilt}] /\ minted' \in [Names -> Nat]
    BY <1>1, <1>2, <1>3 DEF BaseInv, TypeOK
  <2> QED BY <1>3, <1>5, <2>1, <2>2 DEF BaseInv, TypeOK
<1>8. Places'
  BY <1>1, <1>3, <1>5, <1>6, OrderFacts DEF BaseInv, Places
<1>9. Latest'
  BY <1>3, <1>4 DEF BaseInv, Latest, Usable
<1>10. ASSUME IInv, OneAtATime PROVE IInv'
  <2>1. n \in Kinds => file[n] = Absent
    BY <1>1, <1>10 DEF IInv, VerbsFit, n
  <2>2. \A q \in Operators : pc'[q] # Absent => q = o
    BY <1>1, <1>5, <1>10 DEF OneAtATime
  <2>3. FilesFit'
    BY <1>3, <1>4, <1>10, <2>1 DEF IInv, FilesFit, Names
  <2>4. VerbsFit'
    BY <1>4, <1>5, <1>6, <2>2 DEF VerbsFit
  <2>5. ASSUME NEW j \in 1..(pc'[o].i - 1), pc[o].verb = "init"
        PROVE  /\ minted'[Order[j]] > 0
               /\ Order[j] \in Kinds =>
                    file[Order[j]] # Absent /\ file[Order[j]].version = shipped
    <3>1. CASE j = pc[o].i
      BY <1>1, <1>2, <1>4, <1>5, <2>5, <3>1
    <3>2. CASE j # pc[o].i
      <4>1. j \in 1..(pc[o].i - 1) /\ j \in 1..4
        BY <1>1, <1>5, <2>5, <3>2
      <4>2. Order[j] # n /\ Order[j] \in Names
        BY <1>1, <3>2, <4>1, OrderFacts
      <4> QED BY <1>1, <1>4, <1>10, <2>5, <4>1, <4>2 DEF IInv, Progress
    <3> QED BY <3>1, <3>2
  <2>6. Progress'
    BY <1>3, <1>5, <2>2, <2>5 DEF Progress
  <2> QED BY <1>7, <1>8, <1>9, <2>3, <2>4, <2>6 DEF IInv, BaseInv
<1> QED BY <1>7, <1>8, <1>9, <1>10 DEF BaseInv

\* A file that is created is empty, others are left.
LEMMA ConnectedFile ==
  ASSUME TypeOK, NEW k \in Kinds, file' = Connected(k)
  PROVE  /\ file' \in [Kinds -> Database \cup {Absent}]
         /\ file'[k] # Absent
         /\ \A j \in Kinds : file[j] # Absent => file'[j] = file[j]
         /\ \A j \in Kinds : j # k => file'[j] = file[j]
         /\ file[k] = Absent => file'[k].version = 0 /\ file'[k].key = 0
<1>1. Empty \in Database
  BY BootstrapAssumption DEF Empty, Database
<1>2. Empty # Absent
  BY <1>1, AbsentAssumption
<1> QED BY <1>1, <1>2 DEF Connected, TypeOK, Empty

\* open_existing, and the rest of provision_db.
LEMMA OpenStep ==
  ASSUME NEW o \in Operators, open_db(o)
  PROVE  /\ BaseInv => BaseInv'
         /\ IInv /\ OneAtATime => IInv'
<1> SUFFICES ASSUME BaseInv PROVE BaseInv' /\ (IInv /\ OneAtATime => IInv')
  BY DEF IInv
<1> DEFINE k == Item(o)
           key == IF pc[o].key # 0 THEN pc[o].key ELSE keychain[k]
<1>1. /\ pc[o] \in Run /\ pc[o] # Absent /\ pc[o].i \in 1..4 /\ k \in Names
      /\ pc[o].at = "open" /\ k = Order[pc[o].i] /\ k \in Kinds
  BY RunningFacts DEF BaseInv, open_db, Item, Places
<1>2. UNCHANGED <<keychain, minted, shipped, faults>>
  BY DEF open_db, Quiet
<1>3. CASE Gives_up(o) /\ UNCHANGED file
  BY <1>2, <1>3, StopStep DEF BaseInv, TypeOK
<1>4. CASE /\ key \notin {Absent, Spoilt} /\ file' = Connected(k)
           /\ IF pc[o].verb = "init" THEN Goto(o, "migrate", key) ELSE NextItem(o)
  <2>1. key \in Nat /\ key > 0
    BY <1>1, <1>4 DEF BaseInv, TypeOK, Run
  <2>2. /\ file' \in [Kinds -> Database \cup {Absent}]
        /\ file'[k] # Absent
        /\ \A j \in Kinds : file[j] # Absent => file'[j] = file[j]
        /\ \A j \in Kinds : j # k => file'[j] = file[j]
        /\ file[k] = Absent => file'[k].version = 0 /\ file'[k].key = 0
    BY <1>1, <1>4, ConnectedFile DEF BaseInv
  <2>3. /\ pc' \in [Operators -> Run \cup {Absent}]
        /\ \A q \in Operators : q # o => pc'[q] = pc[q]
        /\ pc'[o] # Absent /\ pc'[o].verb = pc[o].verb
        /\ \/ /\ pc[o].verb = "init" /\ pc'[o].i = pc[o].i
              /\ pc'[o].at = "migrate" /\ pc'[o].key = key
           \/ /\ pc[o].verb # "init" /\ pc'[o].i = pc[o].i + 1
              /\ pc'[o].at \in {"open", "check"} /\ pc'[o].key = 0
              /\ pc'[o].at = "open" => pc[o].i = 1
    <3> HIDE DEF k, key
    <3>1. CASE pc[o].verb = "init"
      BY <1>1, <1>4, <2>1, <3>1, GotoMoves DEF BaseInv
    <3>2. CASE pc[o].verb # "init"
      BY <1>1, <1>4, <3>2, NextItemMoves DEF BaseInv
    <3> QED BY <3>1, <3>2
  <2>4. pc[o].key \in {0, minted[k]} => key = minted[k]
    BY <1>1, <1>4 DEF BaseInv, Latest, Usable
  <2> HIDE DEF key
  <2>5. /\ \A q \in Operators : q # o => Item(q)' = Item(q)
        /\ pc[o].verb = "init" => Item(o)' = k
    BY <2>3 DEF Item
  <2> HIDE DEF k
  <2>6. TypeOK'
    BY <1>2, <2>2, <2>3 DEF BaseInv, TypeOK
  <2>7. Places'
    <3>1. \A q \in Operators : q # o /\ pc[q] # Absent /\ pc[q].at \in {"open", "migrate"}
             => Item(q) \in Kinds
      BY DEF BaseInv, Places
    <3>2. \A q \in Operators : q # o /\ pc[q] # Absent /\ pc[q].at = "migrate"
             => file'[Item(q)] # Absent
      BY <2>2, <3>1 DEF BaseInv, Places
    <3>3. pc'[o].at = "open" => Item(o)' \in Kinds /\ pc'[o].i <= 4
      BY <2>3, OrderFacts DEF Item, Kinds
    <3> QED BY <1>1, <2>2, <2>3, <2>5, <3>1, <3>2, <3>3, OrderFacts DEF BaseInv, Places
  <2>8. Latest'
    BY <1>1, <1>2, <2>2 DEF BaseInv, Latest, Usable, TypeOK
  <2>9. ASSUME IInv, OneAtATime PROVE IInv'
    <3>1. \A q \in Operators : pc'[q] # Absent => q = o
      BY <1>1, <2>3, <2>9 DEF OneAtATime
    <3>2. FilesFit'
      BY <1>2, <2>2, <2>9 DEF IInv, FilesFit
    <3>3. key = minted[k]
      BY <1>1, <2>4, <2>9 DEF IInv, VerbsFit, k
    <3>4. VerbsFit'
      BY <1>2, <2>1, <2>3, <2>5, <3>1, <3>3 DEF VerbsFit
    <3>5. Progress'
      BY <1>1, <1>2, <2>2, <2>3, <2>9, <3>1 DEF IInv, Progress
    <3> QED BY <2>6, <2>7, <2>8, <3>2, <3>4, <3>5 DEF IInv, BaseInv
  <2> QED BY <2>6, <2>7, <2>8, <2>9 DEF BaseInv
<1> QED BY <1>3, <1>4 DEF open_db

\* One migration: the version moves by one, under the connection's key.
LEMMA MigrateStep ==
  ASSUME NEW o \in Operators, migrate(o)
  PROVE  /\ BaseInv => BaseInv'
         /\ IInv /\ OneAtATime => IInv'
<1> SUFFICES ASSUME BaseInv PROVE BaseInv' /\ (IInv /\ OneAtATime => IInv')
  BY DEF IInv
<1> DEFINE k == Item(o)
           row == [key |-> pc[o].key, version |-> file[k].version + 1]
<1>1. /\ pc[o] \in Run /\ pc[o] # Absent /\ pc[o].i \in 1..4 /\ pc[o].key \in Nat
      /\ pc[o].at = "migrate" /\ k = Order[pc[o].i] /\ k \in Kinds
      /\ file[k] # Absent /\ file[k] \in Database
  BY RunningFacts DEF BaseInv, migrate, Item, Places, TypeOK, Run
<1>2. UNCHANGED <<keychain, minted, shipped, faults>> /\ Running(o, "migrate")
  BY DEF migrate, Quiet
<1>3. shipped \in 1..Releases /\ Releases \in Nat
  BY BootstrapAssumption DEF BaseInv, TypeOK
<1>4. file[k].version \in 0..Releases /\ file[k].version <= shipped
  BY <1>1 DEF BaseInv, Latest, Database
<1>5. CASE file[k].version < shipped /\ file' = [file EXCEPT ![k] = row] /\ pc' = pc
  <2>1. row \in Database
    BY <1>1, <1>3, <1>4, <1>5 DEF Database
  <2>2. row # Absent
    BY <2>1, AbsentAssumption
  <2>3. row.key = pc[o].key /\ row.version = file[k].version + 1
    OBVIOUS
  <2> HIDE DEF row
  <2>4. file'[k] = row /\ \A j \in Kinds : j # k => file'[j] = file[j]
    BY <1>1, <1>5 DEF BaseInv, TypeOK
  <2>5. \A q \in Operators : Item(q)' = Item(q)
    BY <1>5 DEF Item
  <2> HIDE DEF k
  <2>6. TypeOK'
    BY <1>1, <1>2, <1>5, <2>1 DEF BaseInv, TypeOK
  <2>7. Places'
    BY <1>5, <2>2, <2>4, <2>5 DEF BaseInv, Places
  <2>8. Latest'
    BY <1>2, <1>3, <1>4, <1>5, <2>3, <2>4 DEF BaseInv, Latest, Usable
  <2>9. ASSUME IInv, OneAtATime PROVE IInv'
    <3>1. \A q \in Operators : pc'[q] # Absent => q = o
      BY <1>1, <1>5, <2>9 DEF OneAtATime
    <3>2. pc[o].key = minted[k] /\ pc[o].key > 0
      BY <1>1, <2>9 DEF IInv, VerbsFit, k
    <3>3. FilesFit'
      BY <1>2, <1>4, <2>3, <2>4, <2>9, <3>2 DEF IInv, FilesFit
    <3>4. VerbsFit'
      BY <1>1, <1>2, <1>5, <2>5, <2>9, <3>1 DEF IInv, VerbsFit
    <3>5. ASSUME NEW j \in 1..(pc[o].i - 1)
          PROVE  Order[j] # k
      BY <1>1, <3>5, OrderFacts
    <3>6. Progress'
      BY <1>2, <1>5, <2>4, <2>9, <3>1, <3>5 DEF IInv, Progress
    <3> QED BY <2>6, <2>7, <2>8, <3>3, <3>4, <3>6 DEF IInv, BaseInv
  <2> QED BY <2>6, <2>7, <2>8, <2>9 DEF BaseInv
<1>6. CASE ~(file[k].version < shipped) /\ file' = file /\ NextItem(o)
  <2>1. file[k].version = shipped
    BY <1>3, <1>4, <1>6
  <2>2. BaseInv'
    BY <1>2, <1>6, NextItemStep
  <2>3. ASSUME IInv PROVE IInv'
    <3>1. minted[k] > 0
      BY <1>1, <2>3 DEF IInv, VerbsFit
    <3> QED BY <1>1, <1>2, <1>6, <2>1, <2>3, <3>1, NextItemStep
  <2> QED BY <2>2, <2>3
<1> QED BY <1>5, <1>6 DEF migrate

\* A daemon or a CLI verb creates an empty file, of a database that has a key.
LEMMA OpenDatabasesStep ==
  ASSUME NEW k \in Kinds, open_databases(k)
  PROVE  /\ BaseInv => BaseInv'
         /\ IInv => IInv'
<1> SUFFICES ASSUME BaseInv PROVE BaseInv' /\ (IInv => IInv')
  BY DEF IInv
<1>1. /\ Usable(k) /\ file[k] = Absent /\ file' = Connected(k)
      /\ UNCHANGED <<keychain, minted, pc, shipped, faults>>
  BY DEF open_databases, Kinds, Quiet
<1>2. /\ file' \in [Kinds -> Database \cup {Absent}]
      /\ file'[k] # Absent /\ file'[k].version = 0 /\ file'[k].key = 0
      /\ \A j \in Kinds : file[j] # Absent => file'[j] = file[j]
      /\ \A j \in Kinds : j # k => file'[j] = file[j]
  BY <1>1, ConnectedFile DEF BaseInv
<1>3. \A q \in Operators : Item(q)' = Item(q)
  BY <1>1 DEF Item
<1>4. TypeOK'
  BY <1>1, <1>2 DEF BaseInv, TypeOK
<1>5. Places'
  BY <1>1, <1>2, <1>3 DEF BaseInv, Places
<1>6. Latest'
  BY <1>1, <1>2 DEF BaseInv, Latest, Usable, TypeOK
<1>7. ASSUME IInv PROVE IInv'
  <2>1. FilesFit'
    BY <1>1, <1>2, <1>7 DEF IInv, FilesFit
  <2>2. VerbsFit'
    BY <1>1, <1>2, <1>3, <1>7 DEF IInv, VerbsFit, Usable
  <2>3. Progress'
    BY <1>1, <1>2, <1>7 DEF IInv, Progress
  <2> QED BY <1>4, <1>5, <1>6, <2>1, <2>2, <2>3 DEF IInv, BaseInv
<1> QED BY <1>4, <1>5, <1>6, <1>7 DEF BaseInv

\* A key that is lost or spoilt was usable: no verb is about to mint over it.
LEMMA LoseKeyStep ==
  ASSUME NEW n \in Names, NEW gone \in {Absent, Spoilt}, LoseKey(n, gone)
  PROVE  /\ BaseInv => BaseInv'
         /\ IInv => IInv'
<1> SUFFICES ASSUME BaseInv PROVE BaseInv' /\ (IInv => IInv')
  BY DEF IInv
<1>1. /\ Usable(n) /\ keychain' = [keychain EXCEPT ![n] = gone]
      /\ UNCHANGED <<minted, file, shipped, pc>> /\ faults < MaxFaults /\ faults' = faults + 1
  BY DEF LoseKey, Fault
<1>2. keychain'[n] = gone /\ \A m \in Names : m # n => keychain'[m] = keychain[m]
  BY <1>1 DEF BaseInv, TypeOK
<1>3. \A q \in Operators : Item(q)' = Item(q)
  BY <1>1 DEF Item
<1>4. TypeOK'
  BY <1>1, <1>2, BootstrapAssumption DEF BaseInv, TypeOK
<1>5. Places' /\ Latest'
  BY <1>1, <1>2, <1>3 DEF BaseInv, Places, Latest, Usable
<1>6. ASSUME IInv PROVE IInv'
  <2>1. FilesFit' /\ Progress'
    BY <1>1, <1>6 DEF IInv, FilesFit, Progress
  <2>2. ASSUME NEW q \in Operators, pc[q] # Absent, pc[q].at \in {"mint", "set"}
        PROVE  Item(q) \in Names /\ Item(q) # n
    <3>1. Running(q, pc[q].at)
      BY <2>2 DEF BaseInv, Places, Running
    <3> QED BY <1>1, <1>6, <2>2, <3>1, RunningFacts DEF BaseInv, IInv, VerbsFit
  <2>3. VerbsFit'
    BY <1>1, <1>2, <1>3, <1>6, <2>2 DEF IInv, VerbsFit, Usable
  <2> QED BY <1>4, <1>5, <2>1, <2>3 DEF IInv, BaseInv
<1> QED BY <1>4, <1>5, <1>6 DEF BaseInv

\* The user puts an entry right or deletes it, or moves a stranded database aside.
LEMMA RepairStep ==
  ASSUME (\E n \in Names : Mend(n)) \/ (\E k \in Kinds : Repair(k))
  PROVE  /\ BaseInv => BaseInv'
         /\ IInv => IInv'
<1> SUFFICES ASSUME BaseInv PROVE BaseInv' /\ (IInv => IInv')
  BY DEF IInv
<1>1. /\ UNCHANGED <<minted, shipped, pc, faults>>
      /\ \A q \in Operators : pc'[q] = Absent
  BY DEF Mend, Repair, Idle
<1>2. \/ keychain' = keychain
      \/ \E n \in Names : \E key \in {Absent, minted[n]} :
           /\ key = Absent \/ minted[n] > 0
           /\ keychain' = [keychain EXCEPT ![n] = key]
  BY DEF Mend, Repair, Names
<1>3. \A m \in Names : \/ keychain'[m] \in {keychain[m], Absent}
                       \/ keychain'[m] = minted[m] /\ minted[m] > 0
  BY <1>2 DEF BaseInv, TypeOK
<1>4. /\ file' \in [Kinds -> Database \cup {Absent}]
      /\ \A k \in Kinds : file'[k] \in {file[k], Absent}
  <2>1. file' = file \/ \E k \in Kinds : file' = [file EXCEPT ![k] = Absent]
    BY DEF Mend, Repair
  <2> QED BY <2>1 DEF BaseInv, TypeOK
<1>5. TypeOK'
  <2>1. \A m \in Names : minted[m] \in Nat
    BY DEF BaseInv, TypeOK
  <2>2. \A m \in Names : keychain'[m] \in 1..minted[m] \cup {Absent, Spoilt}
    BY <1>3, <2>1 DEF BaseInv, TypeOK
  <2>3. keychain' \in [Names -> Nat \cup {Absent, Spoilt}]
    BY <1>2, <2>1 DEF BaseInv, TypeOK
  <2> QED BY <1>1, <1>4, <2>2, <2>3 DEF BaseInv, TypeOK
<1>6. Places' /\ Latest'
  BY <1>1, <1>3, <1>4 DEF BaseInv, Places, Latest, Usable
<1>7. ASSUME IInv PROVE IInv'
  BY <1>1, <1>4, <1>5, <1>6, <1>7 DEF IInv, BaseInv, FilesFit, VerbsFit, Progress
<1> QED BY <1>5, <1>6, <1>7 DEF BaseInv

\* An upgrade comes while no verb runs.
LEMMA UpgradeStep ==
  ASSUME Upgrade
  PROVE  /\ BaseInv => BaseInv'
         /\ IInv => IInv'
<1> SUFFICES ASSUME BaseInv PROVE BaseInv' /\ (IInv => IInv')
  BY DEF IInv
<1>1. /\ UNCHANGED <<keychain, minted, file, pc, faults>>
      /\ shipped' = shipped + 1 /\ shipped < Releases
      /\ \A q \in Operators : pc'[q] = Absent
  BY DEF Upgrade, Idle
<1>2. TypeOK'
  BY <1>1, BootstrapAssumption DEF BaseInv, TypeOK
<1>3. \A k \in Kinds : file[k] # Absent => file[k].version \in Nat
  BY BootstrapAssumption DEF BaseInv, TypeOK, Database
<1>4. Places' /\ Latest'
  BY <1>1, <1>3 DEF BaseInv, TypeOK, Places, Latest, Usable
<1>5. ASSUME IInv PROVE IInv'
  BY <1>1, <1>2, <1>4, <1>5 DEF IInv, BaseInv, FilesFit, VerbsFit, Progress
<1> QED BY <1>2, <1>4, <1>5 DEF BaseInv

\* Every step keeps the base; while no two verbs run at once it keeps it all.
LEMMA InvStep ==
  ASSUME [Next]_vars
  PROVE  /\ BaseInv => BaseInv'
         /\ IInv /\ OneAtATime => IInv'
<1>1. CASE UNCHANGED vars
  BY <1>1 DEF vars, IInv, BaseInv, TypeOK, Places, Latest, FilesFit, VerbsFit, Progress,
              Item, Usable
<1>2. ASSUME NEW o \in Operators, Reports(o)
      PROVE  /\ BaseInv => BaseInv'
             /\ IInv => IInv'
  <2>1. Gives_up(o) /\ UNCHANGED <<keychain, minted, file, shipped, faults>>
    BY <1>2 DEF Reports, Gives_up, Quiet
  <2> QED BY <2>1, StopStep DEF IInv, BaseInv, TypeOK
<1>3. ASSUME NEW o \in Operators, Dies(o)
      PROVE  /\ BaseInv => BaseInv'
             /\ IInv => IInv'
  <2>1. BaseInv => faults' \in 0..MaxFaults
    BY <1>3, BootstrapAssumption DEF Dies, Fault, BaseInv, TypeOK
  <2> QED BY <1>3, <2>1, StopStep DEF Dies, IInv
<1>4. ASSUME NEW o \in Operators, InitSteps(o)
      PROVE  /\ BaseInv => BaseInv'
             /\ IInv /\ OneAtATime => IInv'
  BY <1>2, <1>4, EnsureDatabaseStep, EnsureServiceKeyStep, ProvisionReadsStep,
     ProvisionSetsStep, OpenStep, MigrateStep DEF InitSteps
<1>5. CASE Next
  BY <1>3, <1>4, <1>5, StartStep, OpenDatabasesStep, LoseKeyStep, RepairStep, UpgradeStep
  DEF Next
<1> QED BY <1>1, <1>5

-----------------------------------------------------------------------------
(* The theorems.                                                            *)

\* The base holds in every reachable state, however many verbs run at once.
THEOREM BaseInvariance == Spec => []BaseInv
<1>1. Init => BaseInv
  BY InitInv DEF IInv
<1>2. BaseInv /\ [Next]_vars => BaseInv'
  BY InvStep
<1> QED BY <1>1, <1>2, PTL DEF Spec

\* The invariant holds as long as no two provisioning verbs run at once.
THEOREM Invariance == Spec /\ []OneAtATime => []IInv
<1>1. Init => IInv
  BY InitInv
<1>2. IInv /\ OneAtATime /\ [Next]_vars => IInv'
  BY InvStep
<1> QED BY <1>1, <1>2, PTL DEF Spec

\* Type correctness, however many verbs run at once: no database is ahead of the
\* releases and no key in the Keychain was never minted.
THEOREM TypeCorrect == Spec => []TypeOK
<1>1. BaseInv => TypeOK
  BY DEF BaseInv
<1> QED BY <1>1, BaseInvariance, PTL

\* init's "one genuinely dangerous operation" is safe: while no two provisioning
\* verbs run at once, no crash, loss or repair leaves a usable key beside a
\* database that is under another one.
THEOREM KeysFit == Spec /\ []OneAtATime => []KeyFitsDatabase
<1>1. IInv => KeyFitsDatabase
  BY DEF IInv, BaseInv, Latest, FilesFit, KeyFitsDatabase, Names
<1> QED BY <1>1, Invariance, PTL

\* provision never mints over an entry, usable or spoilt, while no two
\* provisioning verbs run at once.
THEOREM NoRotation == Spec /\ []OneAtATime => NeverRotates
<1> DEFINE Keeps == \A n \in Names : minted'[n] # minted[n] => keychain[n] = Absent
<1>1. IInv /\ [Next]_vars => [Keeps]_vars
  <2> SUFFICES ASSUME IInv, Next PROVE Keeps
    OBVIOUS
  <2>1. CASE UNCHANGED minted
    BY <2>1
  <2>2. CASE \E o \in Operators : ProvisionSets(o)
    <3> PICK o \in Operators : ProvisionSets(o)
      BY <2>2
    <3>1. keychain[Item(o)] = Absent
      BY DEF ProvisionSets, Running, IInv, VerbsFit
    <3>2. \A n \in Names : n # Item(o) => minted'[n] = minted[n]
      BY DEF ProvisionSets, IInv, BaseInv, TypeOK
    <3> QED BY <3>1, <3>2
  <2>3. UNCHANGED minted \/ \E o \in Operators : ProvisionSets(o)
    BY DEF Next, InitSteps, init_vault, cmd_mcp_provision, Dies, _ensure_database,
           EnsureServiceKey, ProvisionReads, open_db, migrate, Reports,
           open_databases, LoseKey, Mend, Repair, Upgrade
  <2> QED BY <2>1, <2>2, <2>3
<1>2. [][Keeps]_vars <=> NeverRotates
  BY DEF NeverRotates
<1> QED BY <1>1, <1>2, Invariance, PTL DEF Spec

\* connect and migrate never re-encrypt a database nor take its schema back,
\* while no two provisioning verbs run at once.
THEOREM SchemaForward == Spec /\ []OneAtATime => ForwardOnly
<1> DEFINE Forward == \A k \in Kinds : file[k] # Absent /\ file'[k] # Absent =>
                        /\ file'[k].version >= file[k].version
                        /\ file[k].key # 0 => file'[k].key = file[k].key
<1>1. IInv /\ [Next]_vars => [Forward]_vars
  <2> SUFFICES ASSUME IInv, Next PROVE Forward
    OBVIOUS
  <2>1. \A k \in Kinds : file[k] # Absent => file[k].version \in Nat
    BY BootstrapAssumption DEF IInv, BaseInv, TypeOK, Database
  <2>2. CASE \A k \in Kinds : file[k] # Absent => file'[k] \in {file[k], Absent}
    BY <2>1, <2>2
  <2>3. CASE \E o \in Operators : open_db(o)
    <3> PICK o \in Operators : open_db(o)
      BY <2>3
    <3>1. Item(o) \in Kinds
      BY DEF open_db, Running, IInv, BaseInv, Places
    <3>2. file' = file \/ file' = Connected(Item(o))
      BY DEF open_db
    <3>3. \A k \in Kinds : file[k] # Absent => file'[k] = file[k]
      BY <3>1, <3>2, ConnectedFile DEF IInv, BaseInv
    <3> QED BY <2>1, <3>3
  <2>4. CASE \E o \in Operators : migrate(o)
    <3> PICK o \in Operators : migrate(o)
      BY <2>4
    <3>1. Item(o) \in Kinds /\ pc[o].key = minted[Item(o)]
      BY DEF migrate, Running, IInv, BaseInv, Places, VerbsFit
    <3>2. \/ file' = file
          \/ file' = [file EXCEPT ![Item(o)] =
                        [key |-> pc[o].key, version |-> file[Item(o)].version + 1]]
      BY DEF migrate
    <3> QED BY <2>1, <3>1, <3>2 DEF IInv, BaseInv, TypeOK, FilesFit
  <2>5. CASE \E k \in Kinds : open_databases(k)
    <3> PICK k \in Kinds : file' = Connected(k)
      BY <2>5 DEF open_databases
    <3>1. \A j \in Kinds : file[j] # Absent => file'[j] = file[j]
      BY ConnectedFile DEF IInv, BaseInv
    <3> QED BY <2>1, <3>1
  <2>6. \/ \A k \in Kinds : file[k] # Absent => file'[k] \in {file[k], Absent}
        \/ \E o \in Operators : open_db(o) \/ migrate(o)
        \/ \E k \in Kinds : open_databases(k)
    <3>1. ASSUME NEW j \in Kinds, Repair(j)
          PROVE  \A k \in Kinds : file'[k] \in {file[k], Absent}
      <4>1. file' \in {file, [file EXCEPT ![j] = Absent]}
        BY <3>1 DEF Repair
      <4> QED BY <4>1 DEF IInv, BaseInv, TypeOK
    <3> QED
      BY <3>1 DEF Next, InitSteps, init_vault, cmd_mcp_provision, Dies, _ensure_database,
                  EnsureServiceKey, ProvisionReads, ProvisionSets, Reports, LoseKey, Mend,
                  Upgrade
  <2> QED BY <2>2, <2>3, <2>4, <2>5, <2>6
<1>2. [][Forward]_vars <=> ForwardOnly
  BY DEF ForwardOnly
<1> QED BY <1>1, <1>2, Invariance, PTL DEF Spec

\* "ok" from init is true: both databases are at the shipped schema under the last
\* key minted for them, while no two provisioning verbs run at once.
THEOREM OkIsTrue == Spec /\ []OneAtATime => OkMeansReady
<1> DEFINE Ok == \A o \in Operators : Reports(o) /\ pc[o].verb = "init" =>
                   /\ \A n \in Names : minted[n] > 0
                   /\ \A k \in Kinds : file[k] = [key |-> minted[k], version |-> shipped]
<1>1. IInv /\ [Next]_vars => [Ok]_vars
  <2> SUFFICES ASSUME IInv, NEW o \in Operators, Reports(o), pc[o].verb = "init"
               PROVE  /\ \A n \in Names : minted[n] > 0
                      /\ \A k \in Kinds : file[k] = [key |-> minted[k], version |-> shipped]
    OBVIOUS
  <2>1. pc[o] # Absent /\ pc[o].i = 5
    BY OrderFacts DEF Reports, IInv, BaseInv, TypeOK, Run
  <2>2. \A j \in 1..4 :
          /\ minted[Order[j]] > 0
          /\ Order[j] \in Kinds =>
               file[Order[j]] # Absent /\ file[Order[j]].version = shipped
    BY <2>1 DEF IInv, Progress
  <2>3. \A n \in Names : \E j \in 1..4 : n = Order[j]
    BY OrderFacts DEF Names, Kinds, ServiceKeys
  <2>4. \A n \in Names : minted[n] > 0
    BY <2>2, <2>3
  <2>5. ASSUME NEW k \in Kinds
        PROVE  file[k] = [key |-> minted[k], version |-> shipped]
    <3>1. file[k] # Absent /\ file[k].version = shipped
      BY <2>2, <2>3 DEF Names
    <3>2. shipped > 0
      BY BootstrapAssumption DEF IInv, BaseInv, TypeOK
    <3>3. file[k].key = minted[k]
      BY <3>1, <3>2 DEF IInv, FilesFit
    <3> QED BY <3>1, <3>3 DEF IInv, BaseInv, TypeOK, Database
  <2> QED BY <2>4, <2>5
<1>2. [][Ok]_vars <=> OkMeansReady
  BY DEF OkMeansReady
<1> QED BY <1>1, <1>2, Invariance, PTL DEF Spec

\* Where provisioning is one operator's business nothing is assumed of how the
\* verbs are run: init and mcp-provision are safe, however often they are cut off.
THEOREM OneOperator ==
  ASSUME \A o, q \in Operators : o = q
  PROVE  Spec => []KeyFitsDatabase /\ NeverRotates /\ ForwardOnly /\ OkMeansReady
<1>1. OneAtATime
  BY DEF OneAtATime
<1> QED BY <1>1, KeysFit, NoRotation, SchemaForward, OkIsTrue, PTL
=============================================================================
