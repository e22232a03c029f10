----------------------------- MODULE MCIndexFile -----------------------------
\* Three channels, two of which share a slot of the hash table.
EXTENDS IndexFile
MCNames == {"a", "b", "c"}
MCHash == [n \in MCNames |-> IF n = "c" THEN 1 ELSE 0]
MCEntryBytes == [n \in MCNames |-> IF n = "b" THEN 2 ELSE 1]
MCTreeBytes == {3}
==============================================================================
