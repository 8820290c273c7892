------------------------------- MODULE MCIngest -------------------------------
(* Instances of Ingest for TLC.                                             *)
EXTENDS Ingest, TLC

Symmetry == Permutations(Consumers)

\* Live messages of one conversation, an echo newer than both and an event that
\* the vault refuses.
Family == [x \in Events |-> CASE x = "echo" -> "ECHO"
                              [] x = "bad"  -> "OTHER"
                              [] OTHER      -> "INBOUND"]
Conv == [x \in Events |-> CHOOSE v \in Convs : TRUE]
Stamp == [x \in Events |-> CASE x = "late" -> 2 [] x = "echo" -> 3 [] OTHER -> 1]

\* Overlapping webhooks: "late" arrives in both.
OverlapChildren ==
  [m \in Msgs |-> CASE m = "m1" -> <<"early", "late">>
                    [] m = "m2" -> <<"late", "echo">>
                    [] OTHER    -> <<>>]

\* A tampered and a malformed envelope, an intact one sealed to a key of which the
\* Keychain holds the wrong private half, and one whose key can be retired.
PoisonShape ==
  [m \in Msgs |-> CASE m = "tampered"  -> "tampered"
                    [] m = "malformed" -> "malformed"
                    [] OTHER           -> "sealed"]
PoisonKey ==
  [m \in Msgs |-> CASE m = "foreign" -> "k2" [] m = "m2" -> "k3" [] OTHER -> "k1"]

\* A valid webhook of two events, and one the vault refuses after its first.
LiveChildren ==
  [m \in Msgs |-> CASE m = "m1" -> <<"early", "late">>
                    [] m = "m3" -> <<"early", "bad">>
                    [] OTHER    -> <<>>]
=============================================================================
