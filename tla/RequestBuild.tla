---------------------------- MODULE RequestBuild ----------------------------
(***************************************************************************)
(* main() and fetch_api(): where a request goes, and what it says.  The    *)
(* URL of the config file is parsed first; only if it is accepted is the   *)
(* request built, and then posted (HttpPost).                              *)
(***************************************************************************)
EXTENDS Url, JsonRequest

CONSTANT Cases   \* [url, group]: a config file's URL and a parameter list

RequestInit ==
  /\ \E c \in Cases : strUrl = c.url /\ group = c.group
  /\ UrlInit /\ JsonInit

ParseUrl == UrlNext /\ UNCHANGED jsonVars
BuildRequest == pc = "done" /\ err = "ok" /\ JsonNext /\ UNCHANGED urlVars

RequestNext == ParseUrl \/ BuildRequest
RequestSpec == RequestInit /\ [][RequestNext]_<<urlVars, jsonVars>>
=============================================================================
