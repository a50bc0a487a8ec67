-------------------------- MODULE SnapshotPublishMC --------------------------
EXTENDS SnapshotPublish

MCGenesis == [n \in Names |-> IF n = "a" THEN 1 ELSE 0]
=============================================================================
