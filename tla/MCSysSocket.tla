---------------------------- MODULE MCSysSocket ----------------------------
(* Any disciplined caller against every peer with a stream over {a, b}     *)
(* that is at most one byte longer than the read buffer.                   *)
EXTENDS SysSocket

MCByte == {"a", "b"}
MCReplies == UNION {[1 .. n -> MCByte] : n \in 0 .. 4}
MCRequests == {<<"a">>, <<"a", "b", "b">>}
MCTerms == {<<"b", "b">>}
=============================================================================
