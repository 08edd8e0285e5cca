--------------------------- MODULE MCSwctlEvents ---------------------------
(* Instances of SwctlEvents, and with it of IpcServer, for TLC: swctl next to *)
(* a client that asks for anything, and one copy that is foreign to both.     *)
EXTENDS SwctlEvents

CONSTANTS swctl, asker

TwoClients == {swctl, asker}

Ask(type)  == [type |-> type]
AskHold(n) == [type |-> "hold", n |-> n]

With(requests) == [c \in TwoClients |-> IF c = swctl THEN {<<Ask("subscribe")>>} ELSE requests]

AskerHolds    == With({<<AskHold(2), Ask("subscribe"), Ask("change")>>, <<AskHold(1), AskHold(1), Ask("change")>>,
                       <<Ask("subscribe"), Ask("unsubscribe"), Ask("subscribe")>>, <<Ask("subscribe"), Ask("change")>>})
AskerNegative == With({<<AskHold(-1), Ask("get")>>})
AskerChanges  == With({<<Ask("change")>>})

=============================================================================
