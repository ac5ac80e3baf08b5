-------------------------- MODULE MCConfiguration --------------------------
(***************************************************************************)
(* Small instances of the configuration domain controller.  Platform "p1"  *)
(* has the target namespace n1; the domain is in n2.                       *)
(***************************************************************************)
EXTENDS ConfigurationProperties

n1 == <<"n1">>
n2 == <<"n2">>
d1 == <<"d1">>

InN2 == <<n2, d1>>

TwoNamespaces == {n1, n2}
OneDomain     == {InN2}
NoDomains     == {}

MapsAndSecrets == {"configMap", "secret"}
WithVault      == {"configMap", "spc", "secret"}

None   == {}
FirstKV  == {<<"k", "1">>}
SecondKV == {<<"k", "2">>}
AllData == {None, FirstKV, SecondKV}

\* A global object of the target namespace and one of the domain's own.
GlobalSource == <<"configMap", n1, <<"a">>>>
OwnSource    == <<"configMap", n2, <<"b">>>>
TwoMaps      == {GlobalSource, OwnSource}

Source(domain, data) == [platform |-> "p1", domain |-> domain, data |-> data]

TwoMapVals == [s \in TwoMaps |->
    IF s = GlobalSource THEN {Source(Global, FirstKV)}
    ELSE {Source(d1, SecondKV), Source(<<>>, SecondKV)}]

MapsOrNot == [d \in Domains |-> {[platform |-> "p1", maps |-> m, secrets |-> FALSE] : m \in BOOLEAN}]

Api(domain, source) ==
    [platforms |-> [p \in Platforms |-> n1],
     domains |-> [d \in Domains |-> domain], sources |-> [s \in Sources |-> source[s]]]

FullMapsApi == {Api([platform |-> "p1", maps |-> TRUE, secrets |-> FALSE],
                    [s \in Sources |-> IF s = GlobalSource THEN Source(Global, FirstKV) ELSE Absent])}

\* A Vault secret of the domain.
VaultSource == <<"spc", n2, <<"v">>>>
OneSecret   == {VaultSource}
VaultVals   == [s \in OneSecret |-> {Source(d1, FirstKV), Source(d1, SecondKV)}]

SecretsOrNot == [d \in Domains |-> {[platform |-> "p1", maps |-> FALSE, secrets |-> s] : s \in BOOLEAN}]

VaultApi == {Api([platform |-> "p1", maps |-> FALSE, secrets |-> TRUE],
                 [s \in Sources |-> Source(d1, FirstKV)])}
=============================================================================
