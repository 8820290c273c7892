---------------------------- MODULE MCImportStore ----------------------------
(* Instances of ImportStore for TLC.                                        *)
EXTENDS ImportStore, TLC

Symmetry == Permutations(Procs) \cup Permutations(Batches)

\* Two senders, a system line, a header with an invalid date and a plain line.
Kind == [l \in Lines |-> CASE l \in {"hi", "yo"} -> "message"
                           [] l = "joined"       -> "system"
                           [] l = "13/13"        -> "boundary"
                           [] OTHER              -> "more"]
Sender == [l \in Lines |-> IF l = "hi" THEN "Mona" ELSE "You"]

\* Two exports of one conversation: the first repeats a line within its minute
\* and holds a message of several lines, the second overlaps it.
Text ==
  [x \in Exports |->
     CASE x = "older" -> <<"more", "hi", "hi", "yo", "13/13", "more">>
       [] x = "newer" -> <<"hi", "joined", "more", "yo">>
       [] OTHER       -> <<"hi">>]
=============================================================================
