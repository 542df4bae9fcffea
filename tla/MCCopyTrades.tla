---------------------------- MODULE MCCopyTrades ----------------------------
(***************************************************************************)
(* Small instances of CopyTrades.                                          *)
(***************************************************************************)
EXTENDS CopyTrades, TLC

CONSTANTS l1, l2, l3, f1, f2, o1

OneLeaderKeys == {l1, f1, f2}
OneLeader     == {f1, f2} \X {l1}
ThreeLeaderKeys == {l1, l2, l3, f1}
ThreeLeaders    == {f1} \X {l1, l2, l3}

\* The events of an order of a type the service knows.
Events(leaders, statuses) ==
  [leader : leaders, order : {o1}, status : statuses, type : {"known"}]

PlaceAndCancel == Events({l1}, {"NEW", "CANCELED"})

\* Events of the first two leaders, whose orders have the same id, and of a third.
AllBodies ==
  Events({l1, l2}, {"NEW", "CANCELED"}) \cup Events({l3}, {"NEW"})
    \cup [leader : {l1}, order : {o1}, status : {"FILLED", "OTHER"}, type : {"other"}]

AllBinance == [k \in Key |-> "binance"]
Mixed == [k \in Key |-> CASE k = l2 -> "bybit" [] k = l3 -> "tokocrypto" [] OTHER -> "binance"]

Symmetry == Permutations(Request) \cup Permutations({f1, f2})
=============================================================================
