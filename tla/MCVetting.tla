------------------------------ MODULE MCVetting ------------------------------
(* Small instances of Vetting for TLC.                                     *)
EXTENDS Vetting, TLC

Link(a, c, t, s) == [ok |-> TRUE, addr |-> a, country |-> c, bucket |-> <<t, s>>]
Refused == [ok |-> FALSE, addr |-> 0, country |-> 0, bucket |-> <<"grpc", "tls">>]

De1 == Link(1, 1, "tcp", "reality")
De2 == Link(2, 1, "ws", "tls")
Nl3 == Link(3, 2, "tcp", "reality")
No4 == Link(4, 0, "tcp", "tls")

ListOf(ls, n) == [lines |-> ls, nl |-> n]

TwoLists   == {<<ListOf(<<De1, Refused>>, TRUE), ListOf(<<De1, No4>>, FALSE)>>,
               <<ListOf(<<De1, De2, Nl3>>, TRUE)>>}
Spliced    == {<<ListOf(<<De1>>, FALSE), ListOf(<<Nl3, De2>>, TRUE)>>}

Option(tool, skip, deep, only) == [tool |-> tool, skipTLS |-> skip, deep |-> deep, only |-> only]
AllRuns == {Option("panel", skip, deep, {}) : skip, deep \in BOOLEAN} \cup
           {Option("cli", o[1], o[2], only) : o \in {<<FALSE, FALSE>>, <<TRUE, FALSE>>, <<FALSE, TRUE>>},
                                              only \in {{}, {<<"tcp", "*">>}}}
PanelRun  == {Option("panel", FALSE, FALSE, {})}
PanelDeep == {Option("panel", FALSE, TRUE, {})}
CliRun    == {Option("cli", FALSE, FALSE, {})}

Symmetry == Permutations(Workers) \cup Permutations(Ports)
=============================================================================
