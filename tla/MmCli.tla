------------------------------- MODULE MmCli -------------------------------
(***************************************************************************)
(* mmcli.c: invocations of the program.  They share the two files in the   *)
(* user's home directory and the marketmaker, whose API may change.        *)
(*                                                                         *)
(* An invocation runs through pc; a file operation is under way while      *)
(* stage[p] # "idle" and is carried on by FileStep.  http_post is one      *)
(* step that fails, returns a body, or returns no error and no body: the   *)
(* outcomes of Exchange, which HttpPost implements.  In a definition of    *)
(* the API a symbol is the name of a parameter, with the blank before it.  *)
(***************************************************************************)
EXTENDS PropertyFile, FiniteSets

CONSTANTS
  configPath, apiPath,
  Commands,      \* [method |-> a key, args |-> sequence of symbols]
  HELP, CONFIG, REFRESH,   \* the methods "-h", "_config" and "_refresh"
  KEY_URL, KEY_USERPASS, KEY_HELP,
  ValidUrl,      \* the URLs parse_url accepts
  Apis,          \* what the server's help may list, at any time
  MaxRuns        \* bound: invocations

ASSUME MmCliAssumption ==
  /\ {configPath, apiPath} \subseteq Path /\ configPath # apiPath
  /\ \A key \in {KEY_URL, KEY_USERPASS, KEY_HELP} :
       /\ key \in Seq(Symbol) /\ strtrim(key) = key
       /\ {SEP, NL, NUL} \cap ToSet(key) = {}
  /\ KEY_URL # KEY_USERPASS
  /\ 2 * LineMax <= StdioBuf    \* twice 255 and BUFSIZ: stdio holds a config
  /\ \A c \in Commands :
       /\ Len(c.args) \in Nat
       /\ c.method = CONFIG /\ Len(c.args) = 2 =>
            c.args[1] \in Seq(Symbol) /\ c.args[2] \in Seq(Symbol)
  /\ Apis \subseteq Seq([key : Seq(Symbol), value : Seq(Symbol)])
  /\ MaxRuns \in Nat

VARIABLES
  runs,     \* invocations so far
  pc, cmd,  \* per process: how far it is, and its command line
  config, api,   \* the groups it loaded or fetched
  request,  \* what it posts
  exit,     \* "none", "ok", "fail", "crash" or "killed"
  given,    \* the group its config file should have held (history)
  written,  \* the group whose save wrote what it took for its config (history)
  source,   \* the API its api, or the cache it loads, comes from (history)
  served    \* for the cache file: the API it was fetched from (history)

cliState == <<pc, cmd, config, api, request, exit>>
cliHistory == <<given, written, source, served>>
cliVars == <<fileVars, runs, cliState, cliHistory>>

NoRequest == [url |-> <<>>, userpass |-> <<>>, method |-> <<>>, params |-> <<>>]
NoCommand == [method |-> <<>>, args |-> <<>>]

CliInit ==
  /\ FileInit /\ runs = 0
  /\ pc = [p \in Proc |-> "idle"] /\ cmd = [p \in Proc |-> NoCommand]
  /\ config = [p \in Proc |-> <<>>] /\ api = [p \in Proc |-> <<>>]
  /\ request = [p \in Proc |-> NoRequest] /\ exit = [p \in Proc |-> "none"]
  /\ given = [p \in Proc |-> Unknown] /\ written = [p \in Proc |-> Unknown]
  /\ source = [p \in Proc |-> Unknown] /\ served = Unknown

\* The last file operation, or none, has returned to main() at this point.
At(p, where) == pc[p] = where /\ stage[p] = "idle"
Goto(p, where) == pc' = [pc EXCEPT ![p] = where]
Succeeds(p) == ferr[p] = "ok"

\* The process ends, and its memory is gone.
Forget(p) ==
  /\ config' = [config EXCEPT ![p] = <<>>] /\ api' = [api EXCEPT ![p] = <<>>]
  /\ request' = [request EXCEPT ![p] = NoRequest]
  /\ given' = [given EXCEPT ![p] = Unknown] /\ written' = [written EXCEPT ![p] = Unknown]
  /\ source' = [source EXCEPT ![p] = Unknown]

Exit(p, status) ==
  Goto(p, "idle") /\ exit' = [exit EXCEPT ![p] = status] /\ Forget(p)

\* main() goes on, or calls into a file, with what it has so far.
Continue(p, where) ==
  Goto(p, where) /\ UNCHANGED <<exit, config, api, request, given, written, source>>

Refreshing(p) == cmd[p].method = REFRESH

has(g, key) == find_property(g, key) # 0
value(g, key) == g[find_property(g, key)].value

\* The group that a _config command saves.
Configured(c) ==
  <<[key |-> KEY_URL, value |-> c.args[1]], [key |-> KEY_USERPASS, value |-> c.args[2]]>>
-----------------------------------------------------------------------------
(* main() up to the first file operation.                                  *)
Invoke(p, c) ==
  /\ pc[p] = "idle" /\ runs < MaxRuns /\ runs' = runs + 1
  /\ cmd' = [cmd EXCEPT ![p] = c]
  /\ \/ /\ c.method = CONFIG /\ Len(c.args) # 2      \* prints the syntax
        /\ Exit(p, "ok") /\ UNCHANGED fileVars
     \/ /\ exit' = [exit EXCEPT ![p] = "none"] /\ Forget(p)
        /\ \/ c.method = HELP /\ StartLoad(p, apiPath) /\ Goto(p, "help")
           \/ /\ c.method = CONFIG /\ Len(c.args) = 2
              /\ StartSave(p, configPath, Configured(c)) /\ Goto(p, "config saved")
           \/ /\ c.method \notin {HELP, CONFIG}
              /\ StartLoad(p, configPath) /\ Goto(p, "config loaded")
  /\ UNCHANGED <<served>>

Helped(p) ==   \* whatever the cache held, or without it
  /\ At(p, "help") /\ Exit(p, "ok")
  /\ UNCHANGED <<fileVars, runs, cmd, served>>

ConfigSaved(p) ==   \* fopen() failed, or the last line could not be written
  /\ At(p, "config saved") /\ Exit(p, IF Succeeds(p) THEN "ok" ELSE "fail")
  /\ UNCHANGED <<fileVars, runs, cmd, served>>

\* parse_url() follows the null pointer of a config without a url.
BadConfig(p) ==
  /\ At(p, "config loaded")
  /\ \/ ~Succeeds(p) /\ Exit(p, "fail")
     \/ Succeeds(p) /\ ~has(group[p], KEY_URL) /\ Exit(p, "crash")
     \/ /\ Succeeds(p) /\ has(group[p], KEY_URL)
        /\ value(group[p], KEY_URL) \notin ValidUrl /\ Exit(p, "fail")
  /\ UNCHANGED <<fileVars, runs, cmd, served>>

GoodConfig(p) ==   \* on to handle_api
  /\ At(p, "config loaded") /\ Succeeds(p) /\ has(group[p], KEY_URL)
  /\ value(group[p], KEY_URL) \in ValidUrl
  /\ \/ /\ Refreshing(p) /\ cmd[p].args # <<>>      \* prints the syntax
        /\ Exit(p, "ok") /\ UNCHANGED fileVars
     \/ /\ config' = [config EXCEPT ![p] = group[p]]
        /\ given' = [given EXCEPT ![p] = expect[p]]
        /\ written' = [written EXCEPT ![p] = origin[p]]
        /\ \/ /\ Refreshing(p) /\ cmd[p].args = <<>> /\ Goto(p, "fetch")
              /\ UNCHANGED <<fileVars, source>>
           \/ /\ ~Refreshing(p) /\ StartLoad(p, apiPath) /\ Goto(p, "api loaded")
              /\ source' = [source EXCEPT ![p] = served]
        /\ UNCHANGED <<api, request, exit>>
  /\ UNCHANGED <<runs, cmd, served>>

-----------------------------------------------------------------------------
\* Mutants: the url is sent for the userpass; the first name is skipped.
RequestSwapped(p, params) ==
  [url |-> value(config[p], KEY_URL), userpass |-> value(config[p], KEY_URL),
   method |-> cmd[p].method, params |-> UpTo(params, Len(cmd[p].args))]
RequestShifted(p, params) ==
  [url |-> value(config[p], KEY_URL), userpass |-> value(config[p], KEY_USERPASS),
   method |-> cmd[p].method, params |-> From(params, 2)]
\* Mutant: names for all parameters, however many arguments there are.
RequestAllNames(p, params) ==
  [url |-> value(config[p], KEY_URL), userpass |-> value(config[p], KEY_USERPASS),
   method |-> cmd[p].method, params |-> params]

\* build_param_list: names for as many parameters as there are arguments.
Request(p, params) ==
  [url |-> value(config[p], KEY_URL), userpass |-> value(config[p], KEY_USERPASS),
   method |-> cmd[p].method, params |-> UpTo(params, Len(cmd[p].args))]

(* main() once it has an api: look the method up, count the arguments,     *)
(* build the request.  The first entry with the method's name is taken.    *)
Submit(p, definitions, from) ==
  LET method == cmd[p].method
      args == cmd[p].args
      params == value(definitions, method)
  IN  \/ ~has(definitions, method) /\ Exit(p, "fail")
      \/ has(definitions, method) /\ args = <<HELP>> /\ Exit(p, "ok")
      \/ /\ has(definitions, method) /\ args # <<HELP>>
         /\ \/ Len(args) > Len(params) /\ Exit(p, "fail")
            \/ /\ Len(args) <= Len(params) /\ ~has(config[p], KEY_USERPASS)
               /\ Exit(p, "crash")                   \* strlen() of a null pointer
            \/ /\ Len(args) <= Len(params) /\ has(config[p], KEY_USERPASS)
               /\ request' = [request EXCEPT ![p] = Request(p, params)]
               /\ api' = [api EXCEPT ![p] = definitions]
               /\ source' = [source EXCEPT ![p] = from]
               /\ Goto(p, "post") /\ UNCHANGED <<exit, config, given, written>>

ApiLoaded(p) ==   \* only a missing cache is fetched; a malformed one is fatal
  /\ At(p, "api loaded")
  /\ \/ /\ Succeeds(p)
        /\ Submit(p, group[p], IF expect[p] = Unknown THEN Unknown ELSE source[p])
     \/ ferr[p] = "ENOENT" /\ Continue(p, "fetch")
     \/ ~Succeeds(p) /\ ferr[p] # "ENOENT" /\ Exit(p, "fail")
  /\ UNCHANGED <<fileVars, runs, cmd, served>>

\* fetch_api: the server does not document the help method itself.
WithHelp(definitions) == put_property(definitions, [key |-> KEY_HELP, value |-> <<>>])

\* Mutant: after a failure it looks for a cache of another invocation.
FetchRetries(p) ==
  /\ At(p, "fetch") /\ UNCHANGED <<runs, cmd, served>>
  /\ \/ StartLoad(p, apiPath) /\ Continue(p, "api loaded")
     \/ /\ \E definitions \in Apis :
             /\ api' = [api EXCEPT ![p] = WithHelp(definitions)]
             /\ source' = [source EXCEPT ![p] = definitions]
        /\ Goto(p, "save")
        /\ UNCHANGED <<fileVars, exit, config, request, given, written>>

\* Mutant: what the server does not document is not added.
FetchAsIs(p) ==
  /\ At(p, "fetch") /\ UNCHANGED <<fileVars, runs, cmd, served>>
  /\ \/ \E definitions \in Apis :
          /\ api' = [api EXCEPT ![p] = definitions]
          /\ source' = [source EXCEPT ![p] = definitions]
          /\ Goto(p, "save") /\ UNCHANGED <<exit, config, request, given, written>>
     \/ Exit(p, "fail")

Fetch(p) ==
  /\ At(p, "fetch")
  /\ \/ /\ \E definitions \in Apis :
             /\ api' = [api EXCEPT ![p] = WithHelp(definitions)]
             /\ source' = [source EXCEPT ![p] = definitions]
        /\ Goto(p, "save")
        /\ UNCHANGED <<exit, config, request, given, written>>
     \/ Exit(p, "fail")
     \* no body; or an empty group, which is grown by doubling a capacity of 0
     \/ Exit(p, "crash")
  /\ UNCHANGED <<fileVars, runs, cmd, served>>

SaveApi(p) ==
  /\ At(p, "save") /\ StartSave(p, apiPath, api[p])
  /\ served' = IF stage' = stage THEN served ELSE source[p]
  /\ Continue(p, "api saved") /\ UNCHANGED <<runs, cmd>>

(* The api goes on to be used as it was fetched, not sorted as it will be  *)
(* loaded; an error of the last write counts for _refresh alone.           *)
ApiSaved(p) ==
  /\ At(p, "api saved")
  /\ \/ ferr[p] = "EACCES" /\ Exit(p, "fail")
     \/ /\ ferr[p] # "EACCES" /\ Refreshing(p)
        /\ Exit(p, IF Succeeds(p) THEN "ok" ELSE "fail")
     \/ ferr[p] # "EACCES" /\ ~Refreshing(p) /\ Submit(p, api[p], source[p])
  /\ UNCHANGED <<fileVars, runs, cmd, served>>

Post(p) ==   \* http_post, and puts() of a body that may be a null pointer
  /\ At(p, "post") /\ \E status \in {"ok", "fail", "crash"} : Exit(p, status)
  /\ UNCHANGED <<fileVars, runs, cmd, served>>

-----------------------------------------------------------------------------
InFile(p) ==
  FileStep(p) /\ UNCHANGED <<runs, cliState, cliHistory>>

Step(p) ==
  \/ Helped(p) \/ ConfigSaved(p) \/ BadConfig(p) \/ GoodConfig(p) \/ ApiLoaded(p)
  \/ Fetch(p) \/ SaveApi(p) \/ ApiSaved(p) \/ Post(p) \/ InFile(p)

Killed(p) ==
  /\ pc[p] # "idle" /\ Kill(p) /\ Exit(p, "killed")
  /\ UNCHANGED <<runs, cmd, served>>

CliNext ==
  \/ \E p \in Proc : Step(p) \/ Killed(p) \/ \E c \in Commands : Invoke(p, c)

CliSpec == CliInit /\ [][CliNext]_cliVars

(* An invocation is a sequential program whose files answer and whose      *)
(* sockets time out, so that it always takes its next step.  Nobody has to *)
(* start, kill or change anything.                                         *)
CliFairSpec == CliSpec /\ \A p \in Proc : WF_cliVars(Step(p))

-----------------------------------------------------------------------------
(* Types; a process is in a file only while main() waits for it, and what  *)
(* is posted has a name for every argument: memory for so many was taken.  *)
CliTypeOK ==
  /\ FileTypeOK
  /\ runs \in 0 .. MaxRuns
  /\ pc \in [Proc -> {"idle", "help", "config saved", "config loaded", "api loaded",
                      "fetch", "save", "api saved", "post"}]
  /\ cmd \in [Proc -> Commands \cup {NoCommand}]
  /\ exit \in [Proc -> {"none", "ok", "fail", "crash", "killed"}]
  /\ \A p \in Proc : pc[p] # "idle" => exit[p] = "none" /\ cmd[p] \in Commands
  /\ \A p \in Proc : stage[p] # "idle" => pc[p] # "idle"
  /\ \A p \in Proc : pc[p] = "post" => Len(request[p].params) = Len(cmd[p].args)

(* A request carries all of the url and the userpass that the last _config *)
(* command was given, but for blanks around them - unless the config file  *)
(* was disturbed, or cannot hold what the command was given.               *)
SentAsConfigured ==
  \A p \in Proc :
    pc[p] = "post" /\ given[p] # Unknown /\ Storable(given[p]) =>
      /\ request[p].url = strtrim(value(given[p], KEY_URL))
      /\ request[p].userpass = strtrim(value(given[p], KEY_USERPASS))

(* A request never mixes two configurations: if any process is killed, any *)
(* flush lost and any line cut, if the file is saved anew while it is read *)
(* - what is sent as the url and as (the beginning of) the userpass are of *)
(* one and the same _config command.  Left out are _config commands that   *)
(* differ and save at the same time, memory that was read without having   *)
(* been written, and arguments of more than one line.                      *)
OneLiners(g) == \A i \in DOMAIN g : {NL, NUL} \cap ToSet(g[i].value) = {}
RequestOfOneConfig ==
  \A p \in Proc :
    pc[p] = "post" /\ written[p] \notin {Absent, Unknown} /\ OneLiners(written[p]) =>
      /\ request[p].url = strtrim(value(written[p], KEY_URL))
      /\ IsPrefix(request[p].userpass, strtrim(value(written[p], KEY_USERPASS)))

(* It names its arguments as the server documented them when the cache was *)
(* filled, whether the definition is used as fetched or as saved, sorted   *)
(* and loaded, if the server documents the method once and the cache can   *)
(* hold its API: no line is cut, and no blanks are lost.                   *)
ParamsAsPublished ==
  \A p \in Proc :
   pc[p] = "post" /\ source[p] # Unknown /\ Storable(WithHelp(source[p]))
     /\ Trimmed(WithHelp(source[p])) = WithHelp(source[p]) =>
    LET method == request[p].method
        definitions == {i \in DOMAIN source[p] : source[p][i].key = method}
    IN  /\ definitions # {} \/ method = KEY_HELP
        /\ method = KEY_HELP => request[p].params = <<>>
        /\ method # KEY_HELP /\ Cardinality(definitions) = 1 =>
             \A i \in definitions :
               request[p].params = UpTo(source[p][i].value, Len(cmd[p].args))

(* main() follows no null pointer of find_property() unless the config     *)
(* file was torn: by a kill, a lost write, a _config still under way, or a *)
(* line that was cut, so that the newline was lost and the next line is    *)
(* the rest of its value.                                                  *)
Torn(g) == g = Unknown \/ ~Storable(g)
CrashNeedsTornConfig ==
  [][\A p \in Proc : exit[p] # "crash" /\ exit'[p] = "crash" =>
       /\ pc[p] = "config loaded" => Torn(expect[p])
       /\ pc[p] \in {"api loaded", "api saved"} => Torn(given[p])]_cliVars

(* README.md: _refresh recreates the cache, after a change of the server's *)
(* API or when the file is corrupted.  Whatever the file held and whoever  *)
(* was working on it: when _refresh succeeds, the file is the API that was *)
(* fetched - unless another save overlapped, or followed, or a flush was   *)
(* lost, which _refresh does not notice.                                   *)
RefreshRecreates ==
  [][\A p \in Proc :
       pc[p] = "api saved" /\ Refreshing(p) /\ exit'[p] = "ok"
         /\ intent[apiPath] # Unknown /\ served = source[p]
         /\ Busy(apiPath, {"write"}) = {} =>
       disk[apiPath] = Text(WithHelp(source[p]))]_cliVars

\* What invocations ever save: a config, or an API with its help method.
ConfigGroups ==
  {Configured(c) : c \in {d \in Commands : d.method = CONFIG /\ Len(d.args) = 2}}
SavedGroups == ConfigGroups \cup {WithHelp(definitions) : definitions \in Apis}

(* Every invocation comes to its end, whatever happens to the files.       *)
EveryRunEnds == \A p \in Proc : pc[p] # "idle" ~> pc[p] = "idle"

(* README.md: _config caches url and userpass on a local file.  If it says *)
(* so by its exit status, the file took all of it.                         *)
ConfigIsCached ==
  \A p \in Proc :
    exit[p] = "ok" /\ cmd[p].method = CONFIG /\ Len(cmd[p].args) = 2 => ~lost[p]
=============================================================================
