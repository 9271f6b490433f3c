-------------------------- MODULE MCEngineRegistry --------------------------
(***************************************************************************)
(* Instances of EngineRegistry for TLC: version 1 is out and the global    *)
(* default, version 2 is yet to be published.  Version 2 moves the feature *)
(* "export" out of the free build.                                         *)
(***************************************************************************)
EXTENDS EngineRegistry, TLC

BundleSupports == [free1 |-> {"bold", "export"}, premium1 |-> {"bold", "export"},
                   free2 |-> {"bold"}, premium2 |-> {"bold", "export"},
                   other2 |-> {"bold"}]
BundleNames == DOMAIN BundleSupports
Out == [free |-> "free1", premium |-> "premium1"]
Upload == [k \in Versions \X Plans |->
    IF k[1] = 1 THEN {Out[k[2]]}
    ELSE IF k[2] = "free" THEN {"free2"} ELSE {"premium2"}]
RivalUpload == [Upload EXCEPT ![<<2, "free">>] = {"free2", "other2"}]

Visitor == [licensed |-> FALSE, pin |-> NoVersion, override |-> NoVersion, asks |-> NoVersion,
            channel |-> "stable", features |-> {ALL_FEATURES}, derived |-> FALSE,
            identified |-> TRUE, bucket |-> [v \in Versions |-> 50]]
Customer == [Visitor EXCEPT !.licensed = TRUE, !.features = {"bold", "export"}]
Pinned(v) == [Customer EXCEPT !.pin = v]
BetaCustomer == [Customer EXCEPT !.channel = "beta"]

Everyone == {Customer, [BetaCustomer EXCEPT !.override = 1], [Pinned(2) EXCEPT !.override = 1]}
CustomerOnly == {Customer}
Nobody == {}
Symmetry == Permutations(Admins)

Internally == {[channel |-> "internal", bytes |-> TRUE]}
OnStable == {[channel |-> "stable", bytes |-> TRUE]}
AnyBytes == {[channel |-> "stable", bytes |-> b] : b \in BOOLEAN}

SessionOps == AllOps \ {"restore"}
CanaryOps == {"publish", "canary"}
DefaultOps == {"publish", "setDefault"}
StewardOps == {"promote", "retire"}
PublishOps == {"publish", "setDefault", "rollback", "restore"}
=============================================================================
