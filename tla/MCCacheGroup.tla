---------------------------- MODULE MCCacheGroup ----------------------------
(* Two nodes: the primary p and the secondary s of the key.                *)
EXTENDS CacheGroup

MCOwners == <<"p", "s">>
MCMembers == <<"s", "p">>

Disturbances == {{"write", "net"}, {"evict", "hot", "db"}, {"mark"}, {"life"}}
Unreachable == {{"net"}}
=============================================================================
