--------------------------- MODULE MCStorageDump ----------------------------
(* Two URLs of one shop and one of a bank, and the lists of up to four pages *)
(* a registry tracks at them.                                                *)
EXTENDS StorageDump, SequencesExt

MCUrls  == {"shop/home", "shop/cart", "bank/"}
MCSite  == [url \in MCUrls |-> IF url = "bank/" THEN "bank" ELSE "shop"]
MCPairs == BoundedSeq(MCUrls, 4)
=============================================================================
