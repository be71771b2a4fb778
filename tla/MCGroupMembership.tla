-------------------------- MODULE MCGroupMembership --------------------------
EXTENDS GroupMembership

CONSTANTS u1, u2, u3, r1

Users == {u1, u2, u3}
One   == {r1}
=============================================================================
