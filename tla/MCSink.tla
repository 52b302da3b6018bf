------------------------------- MODULE MCSink -------------------------------
EXTENDS Sink
CONSTANTS s1, s2, s3
FailoverOf(list) == [servers |-> list, method |-> "failover"]
BalanceOf(list)  == [servers |-> list, method |-> "loadbalance"]
Mixed    == {FailoverOf(<<s1, s2, s3>>), BalanceOf(<<s3, s1>>)}
TwoServers == {FailoverOf(<<s1, s2>>)}
=============================================================================
