---------------------------- MODULE MCSubmission ----------------------------
(* Two goroutines on one provider, a third with a provider of its own.  The  *)
(* cardano-cli prints another era than the package variables start with.     *)
EXTENDS Submission

CONSTANTS c1, c2, c3, p1, p2, babbage, conway

MCCallers    == {c1, c2, c3}
MCProviders  == {p1, p2}
MCProviderOf == [c \in MCCallers |-> IF c = c3 THEN p2 ELSE p1]
MCFormats    == {babbage, conway}
MCCliFormat  == [c \in MCCallers |-> conway]
=============================================================================
