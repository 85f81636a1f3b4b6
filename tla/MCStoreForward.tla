--------------------------- MODULE MCStoreForward ---------------------------
(* Small deployments: an author and readers with one page each, and one    *)
(* message that is broadcast or addressed to one reader only.              *)
EXTENDS StoreForward

CONSTANTS alice, bob, carol, laptop, phone, tablet, hi

(* laptop is alice's, phone bob's and tablet carol's                       *)
MCOwner == [d \in Devices |-> IF d = laptop THEN alice
                              ELSE IF d = phone THEN bob ELSE carol]
(* the author's page posts without a socket, the readers' pages come back  *)
MCReaders  == [d \in Devices |-> IF d = laptop THEN 0 ELSE 2]
MCPrivate  == [d \in Devices |-> IF d = laptop THEN 0 ELSE 1]
MCAuthor    == [m \in Messages |-> alice]
MCBroadcast == [m \in Messages |-> {}]
MCToBob     == [m \in Messages |-> {bob}]
=============================================================================
