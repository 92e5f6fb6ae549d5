----------------------------- MODULE MCHttpPost -----------------------------
(* http_post against servers that answer with a good or a malformed reply, *)
(* or with any part of one, cut anywhere by recv().                        *)
EXTENDS HttpPost

MCLength == [len0 |-> 0, len2 |-> 2, len3 |-> 3, lenMax |-> ULONG_MAX]
MCByte == DOMAIN MCLength \cup {"date", "eol", "x", "y", "z", "h", "b"}

MCTerm == <<"eol", "eol">>
MCReqHeader == <<"h", "h">>
MCReqBody == <<"b", "b">>
MCRequests == {MCReqHeader, MCReqBody}
MCTerms == {MCTerm}

Whole == {
  <<"date", "eol", "len3", "eol", "eol", "x", "y", "z">>,  \* as it should be
  <<"len2", "eol", "eol", "x", "y", "z">>,                 \* more than announced
  <<"len2", "eol", "len3", "eol", "eol", "x", "y">>,       \* two lengths
  <<"len2", "eol", "eol", "eol", "eol", "z">>,             \* body like a header
  <<"len0", "eol", "eol">>,                                \* empty, or not a number
  <<"lenMax", "eol", "eol", "x">>,                         \* out of range
  <<"date", "eol", "eol", "x">>}                           \* no length
MCReplies == UNION {{First(r, n) : n \in 0 .. Len(r)} : r \in Whole}
=============================================================================
