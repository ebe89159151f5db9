----------------------------- MODULE MCProfiles -----------------------------
(* Small instances of Profiles for TLC.                                    *)
EXTENDS Profiles, TLC

MCFields == {"server", "key"}
Pair(s, k) == [server |-> s, key |-> k]

OneLink  == {Pair("s0", "k0")}
TwoLinks == {Pair("s0", "k0"), Pair("s0", "bad")}
BadData  == {d \in Data : d["key"] = "bad"}

SetServer == [server |-> "s1"]
SetKey    == [key |-> "k1"]
NoServer  == [server |-> ""]
BadKey    == [key |-> "bad"]

NoEdits    == {}
BadEdit    == {BadKey}
FieldEdits == {SetServer, SetKey}
AllEdits   == {SetServer, SetKey, NoServer}

Symmetry == Permutations(Handlers) \cup Permutations(Ids)
=============================================================================
