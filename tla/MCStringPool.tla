---------------------------- MODULE MCStringPool ----------------------------
\* StringPool for TLC: two strings that collide and one that follows them in
\* the order of the buckets.
EXTENDS StringPool

MCHash == [c \in Contents |-> IF c = "c" THEN 1 ELSE 0]

=============================================================================
