----------------------------- MODULE MCCatalog -----------------------------
\* Two kinds on one chain and the first kind on a second chain; an owner's
\* messages to two operators, some with the same nonce, some for the wrong record.
EXTENDS Catalog

MainWorks == [genesis |-> "main", kind |-> "Works"]
MainRecordings == [genesis |-> "main", kind |-> "Recordings"]
TestWorks == [genesis |-> "test", kind |-> "Works"]
MCInstances == {MainWorks, MainRecordings, TestWorks}

MCItems == {"a1", "a2", "a3", "b1"}
MCIdentifier == [item \in MCItems |-> IF item = "b1" THEN "b" ELSE "a"]

Message(i, action, item, id, operator, nonce, until) ==
  [signer |-> "owner", payload |-> Payload(i, action, item, id, operator, nonce, until)]

MCSigned ==
  { Message(MainWorks, "Deposit", "a1", -1, "sponsor", 0, 1),
    Message(MainWorks, "Update", "a3", 0, "sponsor", 1, 2),
    Message(MainWorks, "Remove", "none", 0, "relayer", 1, 1),
    Message(MainWorks, "Update", "b1", 1, "sponsor", 2, 2),
    Message(MainRecordings, "Remove", "none", 0, "relayer", 0, 2) }

Own(i, owner, action, item) ==
  [instance |-> i, owner |-> owner, action |-> action, item |-> item]

MCOwnCalls ==
  { Own(MainWorks, "owner", "Deposit", "a2"), Own(MainWorks, "relayer", "Deposit", "a1"),
    Own(MainWorks, "owner", "Update", "a2"), Own(MainWorks, "owner", "Remove", "none"),
    Own(MainRecordings, "owner", "Deposit", "b1") }

MCLastBlock == [g \in Chains |-> IF g = "main" THEN 2 ELSE 0]

MCNoId == -1

\* Storage order is not the order of the ids.
MCHashRank == [id \in Ids |-> (id + 2) % 3]
=============================================================================
