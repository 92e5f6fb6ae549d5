---------------------------- MODULE MmCliProofs ----------------------------
(***************************************************************************)
(* What holds of the invocations of mmcli.c for any command lines, any API *)
(* the server may come to have, any number of processes and of runs.  To   *)
(* the files of PropertyFileProofs an invocation is one of the users of    *)
(* FileUsers, whose constant Groups matters in UsesFiles alone.            *)
(***************************************************************************)
EXTENDS MmCli, PropertyFileProofs

-----------------------------------------------------------------------------
(* The inductive invariant.                                                *)

Points ==
  {"idle", "help", "config saved", "config loaded", "api loaded", "fetch", "save",
   "api saved", "post"}

CliTypes ==
  /\ runs \in 0 .. MaxRuns
  /\ pc \in [Proc -> Points]
  /\ cmd \in [Proc -> Commands \cup {NoCommand}]
  /\ exit \in [Proc -> {"none", "ok", "fail", "crash", "killed"}]
  /\ config \in [Proc -> Group] /\ api \in [Proc -> Group]
  /\ given \in [Proc -> ConfigGroups \cup {Unknown}]
  /\ source \in [Proc -> Apis \cup {Unknown}]
  /\ served \in Apis \cup {Unknown}
  /\ request = [p \in Proc |-> request[p]]

\* Only _config saves the config file, and only an API that was fetched is cached.
ConfigHeld == intent[configPath] \in ConfigGroups \cup {Absent, Unknown}
ApiHeld ==
  /\ intent[apiPath] \notin {Absent, Unknown} =>
       served \in Apis /\ intent[apiPath] = WithHelp(served)
  /\ served # Unknown => intent[apiPath] # Absent

Running(p) ==
  /\ pc[p] # "idle" => exit[p] = "none" /\ cmd[p] \in Commands
  /\ stage[p] # "idle" => pc[p] # "idle"

\* What an invocation has loaded, fetched and put together on its way.
ConfigExpected(p) ==
  pc[p] = "config loaded" => expect[p] \in ConfigGroups \cup {Absent, Unknown}
ConfigKept(p) ==
  pc[p] \in {"api loaded", "fetch", "save", "api saved", "post"}
    /\ given[p] # Unknown /\ Storable(given[p]) =>
      config[p] = sort_properties(Trimmed(given[p]))
ApiExpected(p) ==
  pc[p] = "api loaded" /\ expect[p] \notin {Absent, Unknown} =>
    source[p] \in Apis /\ expect[p] = WithHelp(source[p])
ApiFetched(p) ==
  pc[p] \in {"save", "api saved"} =>
    source[p] \in Apis /\ api[p] = WithHelp(source[p])
Requested(p) ==
  pc[p] = "post" =>
    LET params == value(api[p], cmd[p].method)
        published == WithHelp(source[p])
    IN  /\ has(api[p], cmd[p].method) /\ Len(cmd[p].args) <= Len(params)
        /\ request[p] = Request(p, params)
        /\ source[p] # Unknown =>
             \/ api[p] = published
             \/ Storable(published) => api[p] = sort_properties(Trimmed(published))

InvocationInv(p) ==
  /\ Running(p) /\ ConfigExpected(p) /\ ConfigKept(p)
  /\ ApiExpected(p) /\ ApiFetched(p) /\ Requested(p)

CliInv ==
  FileInv /\ CliTypes /\ ConfigHeld /\ ApiHeld /\ \A p \in Proc : InvocationInv(p)

-----------------------------------------------------------------------------
(* The groups that the two files hold.                                     *)

LEMMA CliMarkers ==
  /\ configPath \in Path /\ apiPath \in Path /\ configPath # apiPath
  /\ KEY_URL \in Seq(Symbol) /\ KEY_USERPASS \in Seq(Symbol) /\ KEY_HELP \in Seq(Symbol)
  /\ KEY_URL # KEY_USERPASS
  /\ \A c \in Commands : Len(c.args) \in Nat
BY MmCliAssumption

LEMMA ApiGroups ==
  ASSUME NEW d \in Apis
  PROVE  /\ d \in Group /\ d # Unknown
         /\ WithHelp(d) \in Group /\ WithHelp(d) # Absent /\ WithHelp(d) # Unknown
<1>1. d \in Group
  BY MmCliAssumption DEF Group
<1>2. [key |-> KEY_HELP, value |-> <<>>] \in [key : Seq(Symbol), value : Seq(Symbol)]
  BY CliMarkers, Markers
<1>3. WithHelp(d) \in Group
  BY <1>1, <1>2, Puts DEF WithHelp
<1> QED BY <1>1, <1>3, Markers

LEMMA ConfigFields ==
  ASSUME NEW g \in ConfigGroups
  PROVE  LET s == sort_properties(Trimmed(g)) IN
         /\ g \in Group /\ g # Absent /\ g # Unknown
         /\ has(s, KEY_URL) /\ value(s, KEY_URL) = strtrim(value(g, KEY_URL))
         /\ has(s, KEY_USERPASS)
         /\ value(s, KEY_USERPASS) = strtrim(value(g, KEY_USERPASS))
<1> DEFINE E == [key : Seq(Symbol), value : Seq(Symbol)]
<1>1. PICK c \in Commands : c.method = CONFIG /\ Len(c.args) = 2 /\ g = Configured(c)
  BY DEF ConfigGroups
<1>2. c.args[1] \in Seq(Symbol) /\ c.args[2] \in Seq(Symbol)
  BY <1>1, MmCliAssumption
<1> DEFINE e1 == [key |-> KEY_URL, value |-> c.args[1]]
           e2 == [key |-> KEY_USERPASS, value |-> c.args[2]]
<1>3. e1 \in E /\ e2 \in E /\ e1.key = KEY_URL /\ e2.key = KEY_USERPASS
  BY <1>2, CliMarkers
<1>4. g = <<e1, e2>>
  BY <1>1 DEF Configured
<1> HIDE DEF e1, e2, E
<1>5. g \in Seq(E) /\ DOMAIN g = 1 .. 2 /\ g[1] = e1 /\ g[2] = e2
  BY <1>3, <1>4
<1>6. g \in Group
  BY <1>5 DEF Group, E
<1>7. \A i \in DOMAIN g : i = 1 \/ i = 2
  BY <1>5
<1>8. 1 \in DOMAIN g /\ 2 \in DOMAIN g /\ KEY_URL # KEY_USERPASS
  BY <1>5, CliMarkers
<1>9. /\ g[1].key = KEY_URL /\ \A i \in DOMAIN g : g[i].key = KEY_URL => i = 1
      /\ g[2].key = KEY_USERPASS /\ \A i \in DOMAIN g : g[i].key = KEY_USERPASS => i = 2
  BY <1>3, <1>5, <1>7, <1>8
<1>10. find_property(g, KEY_URL) = 1 /\ find_property(g, KEY_USERPASS) = 2
  <2>1. /\ find_property(g, KEY_URL) \in DOMAIN g
        /\ g[find_property(g, KEY_URL)].key = KEY_URL
        /\ find_property(g, KEY_USERPASS) \in DOMAIN g
        /\ g[find_property(g, KEY_USERPASS)].key = KEY_USERPASS
    BY <1>6, <1>8, <1>9, FindFirst
  <2> QED BY <1>9, <2>1
<1> DEFINE t == Trimmed(g)
<1>11. /\ t \in Group /\ DOMAIN t = 1 .. 2
       /\ t[1].key = KEY_URL /\ t[1].value = strtrim(g[1].value)
       /\ t[2].key = KEY_USERPASS /\ t[2].value = strtrim(g[2].value)
  <2>1. strtrim(KEY_URL) = KEY_URL /\ strtrim(KEY_USERPASS) = KEY_USERPASS
    BY MmCliAssumption
  <2> QED BY <1>5, <1>6, <1>9, <2>1, TrimmedTypes DEF Trimmed
<1> HIDE DEF ConfigGroups, t
<1>12. /\ \A i \in DOMAIN t : t[i].key = KEY_URL => i = 1
       /\ \A i \in DOMAIN t : t[i].key = KEY_USERPASS => i = 2
  <2>1. \A i \in DOMAIN t : i = 1 \/ i = 2
    BY <1>11
  <2> QED BY <1>8, <1>11, <2>1
<1>13. find_property(t, KEY_URL) = 1 /\ find_property(t, KEY_USERPASS) = 2
  <2>1. 1 \in DOMAIN t /\ 2 \in DOMAIN t
    BY <1>11
  <2>2. /\ find_property(t, KEY_URL) \in DOMAIN t
        /\ t[find_property(t, KEY_URL)].key = KEY_URL
        /\ find_property(t, KEY_USERPASS) \in DOMAIN t
        /\ t[find_property(t, KEY_USERPASS)].key = KEY_USERPASS
    BY <1>11, <2>1, FindFirst
  <2> QED BY <1>12, <2>2
<1>14. /\ find_property(sort_properties(t), KEY_URL) # 0
       /\ sort_properties(t)[find_property(sort_properties(t), KEY_URL)].value = t[1].value
  BY <1>11, <1>12, <1>13, SortedFinds
<1>15. /\ find_property(sort_properties(t), KEY_USERPASS) # 0
       /\ sort_properties(t)[find_property(sort_properties(t), KEY_USERPASS)].value = t[2].value
  BY <1>11, <1>12, <1>13, SortedFinds
<1> QED BY <1>6, <1>10, <1>11, <1>14, <1>15, Markers DEF has, value, t

-----------------------------------------------------------------------------
(* What the operations on files do to what the files should hold, and to   *)
(* what the loads should return.                                           *)

Apart(p) ==
  \A q \in Proc : q # p => stage'[q] = stage[q] /\ expect'[q] \in {expect[q], Unknown}

LEMMA LoadStarts ==
  ASSUME FileInv, NEW p \in Proc, NEW f \in Path, StartLoad(p, f)
  PROVE  Apart(p) /\ intent' = intent /\ expect'[p] \in {intent[f], Unknown}
BY DEF FileInv, FileTypes, StartLoad, Return, Apart

LEMMA SaveStarts ==
  ASSUME FileInv, NEW p \in Proc, NEW f \in Path, NEW g \in Group, StartSave(p, f, g)
  PROVE  /\ Apart(p) /\ \A e \in Path : e # f => intent'[e] = intent[e]
         /\ \/ stage' # stage /\ intent'[f] \in {g, Unknown}
            \/ stage' = stage /\ intent' = intent
<1>1. /\ stage \in [Proc -> {"idle", "size", "read", "write"}] /\ stage[p] = "idle"
      /\ intent \in [Path -> Group \cup {Absent, Unknown}]
      /\ expect \in [Proc -> Group \cup {Absent, Unknown}]
  BY DEF FileInv, FileTypes, StartSave
<1>2. CASE stage' = [stage EXCEPT ![p] = "write"]
              /\ intent' = [intent EXCEPT ![f] =
                              IF Busy(f, {"write"}) = {} \/ @ = g THEN g ELSE Unknown]
              /\ expect' = [q \in Proc |->
                              IF q = p \/ q \in Busy(f, {"size", "read"})
                              THEN Unknown ELSE expect[q]]
  <2>1. stage'[p] = "write" /\ \A q \in Proc : q # p => stage'[q] = stage[q]
    BY <1>1, <1>2
  <2>2. intent'[f] \in {g, Unknown} /\ \A e \in Path : e # f => intent'[e] = intent[e]
    BY <1>1, <1>2
  <2>3. \A q \in Proc : expect'[q] \in {expect[q], Unknown}
    BY <1>1, <1>2
  <2> QED BY <1>1, <2>1, <2>2, <2>3 DEF Apart
<1>3. CASE stage' = stage /\ intent' = intent
              /\ expect' = [expect EXCEPT ![p] = Unknown]
  BY <1>1, <1>3 DEF Apart
<1> QED BY <1>2, <1>3 DEF StartSave

LEMMA StepsInFile ==
  ASSUME FileInv, NEW p \in Proc, FileStep(p)
  PROVE  /\ Apart(p) /\ expect'[p] \in {expect[p], Unknown} /\ stage[p] # "idle"
         /\ \A f \in Path : intent'[f] \in {intent[f], Unknown}
<1> USE DEF FileInv, FileTypes, Apart
<1>1. CASE Measure(p)
  BY <1>1 DEF Measure, Return, fileHistory
<1>2. CASE Read(p)
  BY <1>2 DEF Read, Return
<1>3. CASE WriteLine(p)
  BY <1>3 DEF WriteLine, Flush
<1>4. CASE Close(p)
  BY <1>4 DEF Close, Return, Flush
<1> QED BY <1>1, <1>2, <1>3, <1>4 DEF FileStep

LEMMA Kills ==
  ASSUME FileInv, NEW p \in Proc, Kill(p)
  PROVE  /\ Apart(p) /\ stage'[p] = "idle"
         /\ \A f \in Path : intent'[f] \in {intent[f], Unknown}
BY DEF FileInv, FileTypes, Kill, Return, Apart

-----------------------------------------------------------------------------
(* An invocation does not touch what another one has in its memory.        *)

Others(p) ==
  \A q \in Proc : q # p =>
    /\ pc'[q] = pc[q] /\ cmd'[q] = cmd[q] /\ exit'[q] = exit[q]
    /\ config'[q] = config[q] /\ api'[q] = api[q] /\ request'[q] = request[q]
    /\ given'[q] = given[q] /\ source'[q] = source[q]

LEMMA OthersKeep ==
  ASSUME NEW p \in Proc, Apart(p), Others(p), NEW q \in Proc, q # p, InvocationInv(q)
  PROVE  InvocationInv(q)'
<1>1. /\ stage'[q] = stage[q] /\ expect'[q] \in {expect[q], Unknown}
      /\ pc'[q] = pc[q] /\ cmd'[q] = cmd[q] /\ exit'[q] = exit[q]
      /\ config'[q] = config[q] /\ api'[q] = api[q] /\ request'[q] = request[q]
      /\ given'[q] = given[q] /\ source'[q] = source[q]
  BY DEF Apart, Others
<1>2. Running(q)'
  BY <1>1 DEF InvocationInv, Running
<1>3. ConfigExpected(q)' /\ ApiExpected(q)'
  BY <1>1 DEF InvocationInv, ConfigExpected, ApiExpected
<1>4. ConfigKept(q)' /\ ApiFetched(q)'
  BY <1>1 DEF InvocationInv, ConfigKept, ApiFetched
<1>5. Requested(q)'
  BY <1>1 DEF InvocationInv, Requested, Request
<1> QED BY <1>2, <1>3, <1>4, <1>5 DEF InvocationInv

(* The files go on holding what they held, or nothing certain.             *)
LEMMA HeldKeeps ==
  ASSUME ConfigHeld, ApiHeld, served' = served,
         \A f \in Path : intent'[f] \in {intent[f], Unknown}
  PROVE  ConfigHeld' /\ ApiHeld'
<1>1. /\ intent'[configPath] \in {intent[configPath], Unknown}
      /\ intent'[apiPath] \in {intent[apiPath], Unknown}
  BY CliMarkers
<1> QED BY <1>1, Markers DEF ConfigHeld, ApiHeld

(* The end of an invocation, however it comes.                             *)
LEMMA Forgets ==
  ASSUME CliTypes, NEW p \in Proc, Forget(p)
  PROVE  /\ config' \in [Proc -> Group] /\ api' \in [Proc -> Group]
         /\ given' \in [Proc -> ConfigGroups \cup {Unknown}]
         /\ source' \in [Proc -> Apis \cup {Unknown}]
         /\ request' = [q \in Proc |-> request'[q]]
         /\ given'[p] = Unknown /\ source'[p] = Unknown
         /\ \A q \in Proc : q # p =>
              /\ config'[q] = config[q] /\ api'[q] = api[q] /\ request'[q] = request[q]
              /\ given'[q] = given[q] /\ source'[q] = source[q]
<1>1. <<>> \in Group
  BY Markers
<1>2. /\ config' \in [Proc -> Group] /\ api' \in [Proc -> Group]
      /\ \A q \in Proc : q # p => config'[q] = config[q] /\ api'[q] = api[q]
  BY <1>1 DEF CliTypes, Forget
<1>3. /\ given' \in [Proc -> ConfigGroups \cup {Unknown}] /\ given'[p] = Unknown
      /\ \A q \in Proc : q # p => given'[q] = given[q]
  BY DEF CliTypes, Forget
<1>4. /\ source' \in [Proc -> Apis \cup {Unknown}] /\ source'[p] = Unknown
      /\ \A q \in Proc : q # p => source'[q] = source[q]
  BY DEF CliTypes, Forget
<1>5. /\ request' = [q \in Proc |-> request'[q]]
      /\ \A q \in Proc : q # p => request'[q] = request[q]
  BY DEF CliTypes, Forget
<1> QED BY <1>2, <1>3, <1>4, <1>5

LEMMA ExitInv ==
  ASSUME CliInv, NEW p \in Proc, NEW st \in {"ok", "fail", "crash", "killed"}, Exit(p, st),
         FileInv', Apart(p), stage'[p] = "idle",
         \A f \in Path : intent'[f] \in {intent[f], Unknown},
         runs' \in 0 .. MaxRuns, served' = served,
         cmd' \in [Proc -> Commands \cup {NoCommand}],
         \A q \in Proc : q # p => cmd'[q] = cmd[q]
  PROVE  CliInv'
<1>1. CliTypes
  BY DEF CliInv
<1>2. Forget(p)
  BY DEF Exit
<1>3. /\ config' \in [Proc -> Group] /\ api' \in [Proc -> Group]
      /\ given' \in [Proc -> ConfigGroups \cup {Unknown}]
      /\ source' \in [Proc -> Apis \cup {Unknown}]
      /\ request' = [q \in Proc |-> request'[q]]
      /\ \A q \in Proc : q # p =>
           /\ config'[q] = config[q] /\ api'[q] = api[q] /\ request'[q] = request[q]
           /\ given'[q] = given[q] /\ source'[q] = source[q]
  BY <1>1, <1>2, Forgets
<1>4. pc'[p] = "idle" /\ \A q \in Proc : q # p => pc'[q] = pc[q] /\ exit'[q] = exit[q]
  BY <1>1 DEF CliTypes, Exit, Goto
<1>5. CliTypes'
  <2>1. exit' \in [Proc -> {"none", "ok", "fail", "crash", "killed"}]
    BY <1>1 DEF CliTypes, Exit
  <2>2. pc' \in [Proc -> Points]
    BY <1>1 DEF CliTypes, Exit, Goto, Points
  <2> QED BY <1>1, <1>3, <2>1, <2>2 DEF CliTypes
<1>6. ConfigHeld' /\ ApiHeld'
  BY HeldKeeps DEF CliInv
<1>7. InvocationInv(p)'
  BY <1>4 DEF InvocationInv, Running, ConfigExpected, ConfigKept, ApiExpected, ApiFetched,
              Requested
<1>8. ASSUME NEW q \in Proc, q # p PROVE InvocationInv(q)'
  <2>1. Others(p)
    BY <1>3, <1>4 DEF Others
  <2> QED BY <1>8, <2>1, OthersKeep DEF CliInv
<1> QED BY <1>5, <1>6, <1>7, <1>8 DEF CliInv

(* An invocation that goes on, with its files as they are.                 *)
LEMMA FileStays ==
  ASSUME FileInv, UNCHANGED fileVars, NEW p \in Proc
  PROVE  /\ FileInv' /\ Apart(p) /\ stage' = stage /\ expect' = expect
         /\ \A f \in Path : intent'[f] \in {intent[f], Unknown}
BY FileIdle DEF fileVars, fileState, fileHistory, Apart

LEMMA GoInv ==
  ASSUME CliInv, NEW p \in Proc, FileInv', Apart(p), Others(p), CliTypes',
         ConfigHeld', ApiHeld', InvocationInv(p)'
  PROVE  CliInv'
<1>1. ASSUME NEW q \in Proc, q # p PROVE InvocationInv(q)'
  BY <1>1, OthersKeep DEF CliInv
<1> QED BY <1>1 DEF CliInv

-----------------------------------------------------------------------------
(* The steps of main(), one lemma for each.                                *)

LEMMA InvokeInv ==
  ASSUME CliInv, NEW p \in Proc, NEW c \in Commands, Invoke(p, c)
  PROVE  CliInv'
<1>1. /\ FileInv /\ CliTypes /\ ConfigHeld /\ ApiHeld /\ InvocationInv(p)
  BY DEF CliInv
<1>2. /\ runs' \in 0 .. MaxRuns /\ cmd' \in [Proc -> Commands \cup {NoCommand}]
      /\ cmd'[p] = c /\ \A q \in Proc : q # p => cmd'[q] = cmd[q]
  <2>1. runs \in 0 .. MaxRuns /\ runs < MaxRuns /\ runs' = runs + 1 /\ MaxRuns \in Nat
    BY <1>1, MmCliAssumption DEF CliTypes, Invoke
  <2>2. cmd' = [cmd EXCEPT ![p] = c] /\ cmd \in [Proc -> Commands \cup {NoCommand}]
    BY <1>1 DEF CliTypes, Invoke
  <2>3. runs' \in 0 .. MaxRuns
    BY <2>1
  <2> QED BY <2>2, <2>3
<1>3. served' = served /\ stage[p] = "idle"
  BY <1>1 DEF Invoke, InvocationInv, Running
<1>4. CASE Exit(p, "ok") /\ UNCHANGED fileVars
  <2>1. /\ FileInv' /\ Apart(p) /\ stage'[p] = "idle"
        /\ \A f \in Path : intent'[f] \in {intent[f], Unknown}
    BY <1>1, <1>3, <1>4, FileStays
  <2> QED BY <1>2, <1>3, <1>4, <2>1, ExitInv
<1>5. ASSUME NEW where \in {"help", "config saved", "config loaded"}, Goto(p, where),
             exit' = [exit EXCEPT ![p] = "none"], Forget(p),
             FileInv', Apart(p), ConfigHeld', ApiHeld',
             where = "config loaded" => expect'[p] \in ConfigGroups \cup {Absent, Unknown}
      PROVE  CliInv'
  <2>1. /\ config' \in [Proc -> Group] /\ api' \in [Proc -> Group]
        /\ given' \in [Proc -> ConfigGroups \cup {Unknown}]
        /\ source' \in [Proc -> Apis \cup {Unknown}]
        /\ request' = [q \in Proc |-> request'[q]]
        /\ \A q \in Proc : q # p =>
             /\ config'[q] = config[q] /\ api'[q] = api[q] /\ request'[q] = request[q]
             /\ given'[q] = given[q] /\ source'[q] = source[q]
    BY <1>1, <1>5, Forgets
  <2>2. /\ pc' \in [Proc -> Points] /\ pc'[p] = where
        /\ \A q \in Proc : q # p => pc'[q] = pc[q]
    BY <1>1, <1>5 DEF CliTypes, Goto, Points
  <2>3. /\ exit' \in [Proc -> {"none", "ok", "fail", "crash", "killed"}] /\ exit'[p] = "none"
        /\ \A q \in Proc : q # p => exit'[q] = exit[q]
    BY <1>1, <1>5 DEF CliTypes
  <2>4. CliTypes'
    BY <1>1, <1>2, <1>3, <2>1, <2>2, <2>3 DEF CliTypes
  <2>5. Others(p)
    BY <1>2, <2>1, <2>2, <2>3 DEF Others
  <2>6. Running(p)' /\ ConfigExpected(p)'
    BY <1>2, <1>5, <2>2, <2>3 DEF Running, ConfigExpected
  <2>7. ConfigKept(p)' /\ ApiExpected(p)' /\ ApiFetched(p)' /\ Requested(p)'
    BY <2>2 DEF ConfigKept, ApiExpected, ApiFetched, Requested
  <2> QED BY <1>5, <2>4, <2>5, <2>6, <2>7, GoInv DEF InvocationInv
<1>6. CASE /\ c.method = HELP /\ StartLoad(p, apiPath) /\ Goto(p, "help")
           /\ exit' = [exit EXCEPT ![p] = "none"] /\ Forget(p)
  <2>1. FileInv' /\ Apart(p) /\ intent' = intent
    BY <1>1, <1>6, StartLoadInv, LoadStarts, CliMarkers
  <2>2. ConfigHeld' /\ ApiHeld'
    BY <1>1, <1>3, <2>1, HeldKeeps
  <2> QED BY <1>5, <1>6, <2>1, <2>2
<1>7. CASE /\ c.method = CONFIG /\ Len(c.args) = 2 /\ StartSave(p, configPath, Configured(c))
           /\ Goto(p, "config saved") /\ exit' = [exit EXCEPT ![p] = "none"] /\ Forget(p)
  <2>1. Configured(c) \in ConfigGroups
    BY <1>7 DEF ConfigGroups
  <2>2. Configured(c) \in Group /\ configPath \in Path /\ apiPath \in Path /\ configPath # apiPath
    BY <2>1, ConfigFields, CliMarkers
  <2>3. /\ FileInv' /\ Apart(p) /\ \A e \in Path : e # configPath => intent'[e] = intent[e]
        /\ intent'[configPath] \in {Configured(c), Unknown} \/ intent' = intent
    BY <1>1, <1>7, <2>2, StartSaveInv, SaveStarts
  <2>4. ConfigHeld'
    BY <1>1, <2>1, <2>3 DEF ConfigHeld
  <2>5. ApiHeld'
    BY <1>1, <1>3, <2>2, <2>3 DEF ApiHeld
  <2> QED BY <1>5, <1>7, <2>3, <2>4, <2>5
<1>8. CASE /\ StartLoad(p, configPath) /\ Goto(p, "config loaded")
           /\ exit' = [exit EXCEPT ![p] = "none"] /\ Forget(p)
  <2>1. /\ FileInv' /\ Apart(p) /\ intent' = intent
        /\ expect'[p] \in {intent[configPath], Unknown}
    BY <1>1, <1>8, StartLoadInv, LoadStarts, CliMarkers
  <2>2. ConfigHeld' /\ ApiHeld'
    BY <1>1, <1>3, <2>1, HeldKeeps
  <2>3. expect'[p] \in ConfigGroups \cup {Absent, Unknown}
    BY <1>1, <2>1 DEF ConfigHeld
  <2> QED BY <1>5, <1>8, <2>1, <2>2, <2>3
<1> QED BY <1>4, <1>6, <1>7, <1>8 DEF Invoke, Configured

(* An exit that leaves the files alone.                                    *)
LEMMA LeaveInv ==
  ASSUME CliInv, NEW p \in Proc, NEW st \in {"ok", "fail", "crash", "killed"},
         stage[p] = "idle", Exit(p, st), UNCHANGED <<fileVars, runs, cmd, served>>
  PROVE  CliInv'
<1>1. /\ FileInv' /\ Apart(p) /\ stage'[p] = "idle"
      /\ \A f \in Path : intent'[f] \in {intent[f], Unknown}
  <2>1. FileInv /\ UNCHANGED fileVars
    BY DEF CliInv
  <2>2. /\ FileInv' /\ Apart(p) /\ stage' = stage
        /\ \A f \in Path : intent'[f] \in {intent[f], Unknown}
    BY <2>1, FileStays
  <2> QED BY <2>2
<1>2. /\ runs' \in 0 .. MaxRuns /\ served' = served /\ cmd' = cmd
      /\ cmd' \in [Proc -> Commands \cup {NoCommand}]
  BY DEF CliInv, CliTypes
<1> QED BY <1>1, <1>2, ExitInv

(* What the loads have answered when main() is called back.                *)
LEMMA LoadAnswers ==
  ASSUME CliInv, NEW p \in Proc, stage[p] = "idle", Succeeds(p), expect[p] # Unknown
  PROVE  /\ expect[p] # Absent /\ expect[p] \in Group
         /\ Storable(expect[p]) => group[p] = sort_properties(Trimmed(expect[p]))
<1>1. /\ Answered(p) /\ ferr[p] = "ok" /\ expect[p] \in Group \cup {Absent, Unknown}
  BY DEF CliInv, FileInv, FileTypes, ProcInv, Succeeds
<1>2. expect[p] # Absent /\ group[p] = Loaded(Text(expect[p])).group
  BY <1>1 DEF Answered
<1>3. expect[p] \in Group
  BY <1>1, <1>2
<1>4. Storable(expect[p]) => Loaded(Text(expect[p])).group = sort_properties(Trimmed(expect[p]))
  BY <1>3, LoadsSorted
<1> QED BY <1>2, <1>3, <1>4

LEMMA GoodConfigInv ==
  ASSUME CliInv, NEW p \in Proc, GoodConfig(p)
  PROVE  CliInv'
<1>1. /\ FileInv /\ CliTypes /\ ConfigHeld /\ ApiHeld /\ InvocationInv(p)
      /\ At(p, "config loaded") /\ Succeeds(p) /\ UNCHANGED <<runs, cmd, served>>
  BY DEF CliInv, GoodConfig
<1>2. CASE Refreshing(p) /\ cmd[p].args # <<>> /\ Exit(p, "ok") /\ UNCHANGED fileVars
  BY <1>1, <1>2, LeaveInv DEF At
<1>3. ASSUME NEW where \in {"fetch", "api loaded"}, Goto(p, where), FileInv', Apart(p),
             intent' = intent, config' = [config EXCEPT ![p] = group[p]],
             given' = [given EXCEPT ![p] = expect[p]],
             UNCHANGED <<api, request, exit>>,
             source' = source \/ source' = [source EXCEPT ![p] = served],
             where = "api loaded" => /\ expect'[p] \in {intent[apiPath], Unknown}
                                     /\ source'[p] = served
      PROVE  CliInv'
  <2>1. /\ expect[p] \in ConfigGroups \cup {Unknown}
        /\ expect[p] # Unknown /\ Storable(expect[p]) => group[p] = sort_properties(Trimmed(expect[p]))
    BY <1>1, LoadAnswers DEF InvocationInv, ConfigExpected, At
  <2>2. /\ pc' \in [Proc -> Points] /\ pc'[p] = where
        /\ \A q \in Proc : q # p => pc'[q] = pc[q]
    BY <1>1, <1>3 DEF CliTypes, Goto, Points
  <2>3. /\ config' \in [Proc -> Group] /\ config'[p] = group[p]
        /\ \A q \in Proc : q # p => config'[q] = config[q]
    BY ZenonT(30), <1>1, <1>3 DEF CliTypes, FileInv, FileTypes
  <2>4. /\ given' \in [Proc -> ConfigGroups \cup {Unknown}] /\ given'[p] = expect[p]
        /\ \A q \in Proc : q # p => given'[q] = given[q]
    BY <1>1, <1>3, <2>1 DEF CliTypes
  <2>5. /\ source' \in [Proc -> Apis \cup {Unknown}]
        /\ \A q \in Proc : q # p => source'[q] = source[q]
    BY <1>1, <1>3 DEF CliTypes
  <2>6. CliTypes'
    BY <1>1, <1>3, <2>2, <2>3, <2>4, <2>5 DEF CliTypes
  <2>7. Others(p)
    BY <1>1, <1>3, <2>2, <2>3, <2>4, <2>5 DEF Others
  <2>8. ConfigHeld' /\ ApiHeld'
    BY <1>1, <1>3, HeldKeeps
  <2>9. Running(p)' /\ ConfigExpected(p)' /\ ApiFetched(p)' /\ Requested(p)'
    BY <1>1, <1>3, <2>2 DEF InvocationInv, Running, At, ConfigExpected, ApiFetched, Requested
  <2>10. ConfigKept(p)'
    BY <2>1, <2>3, <2>4 DEF ConfigKept
  <2>11. ApiExpected(p)'
    BY <1>1, <1>3, <2>2 DEF ApiExpected, ApiHeld
  <2> QED BY <1>3, <2>6, <2>7, <2>8, <2>9, <2>10, <2>11, GoInv DEF InvocationInv
<1>4. CASE /\ Goto(p, "fetch") /\ UNCHANGED <<fileVars, source>>
           /\ config' = [config EXCEPT ![p] = group[p]]
           /\ given' = [given EXCEPT ![p] = expect[p]] /\ UNCHANGED <<api, request, exit>>
  <2>1. FileInv' /\ Apart(p) /\ intent' = intent
    BY <1>1, <1>4, FileStays DEF fileVars, fileHistory
  <2> QED BY <1>3, <1>4, <2>1
<1>5. CASE /\ StartLoad(p, apiPath) /\ Goto(p, "api loaded")
           /\ source' = [source EXCEPT ![p] = served]
           /\ config' = [config EXCEPT ![p] = group[p]]
           /\ given' = [given EXCEPT ![p] = expect[p]] /\ UNCHANGED <<api, request, exit>>
  <2>1. /\ FileInv' /\ Apart(p) /\ intent' = intent
        /\ expect'[p] \in {intent[apiPath], Unknown}
    BY <1>1, <1>5, StartLoadInv, LoadStarts, CliMarkers
  <2>2. source'[p] = served
    BY <1>1, <1>5 DEF CliTypes
  <2> QED BY <1>3, <1>5, <2>1, <2>2
<1> QED BY <1>2, <1>4, <1>5 DEF GoodConfig

(* An api that main() submits: the one it fetched, or one that it loaded.  *)
SubmitsWell(p, definitions, from) ==
  /\ from \in Apis \cup {Unknown} /\ definitions \in Group
  /\ from # Unknown =>
       \/ definitions = WithHelp(from)
       \/ Storable(WithHelp(from)) => definitions = sort_properties(Trimmed(WithHelp(from)))

LEMMA SubmitInv ==
  ASSUME CliInv, NEW p \in Proc, NEW definitions, NEW from, SubmitsWell(p, definitions, from),
         At(p, "api loaded") \/ At(p, "api saved"),
         Submit(p, definitions, from), UNCHANGED <<fileVars, runs, cmd, served>>
  PROVE  CliInv'
<1> PICK params : params = value(definitions, cmd[p].method)
  OBVIOUS
<1>1. /\ FileInv /\ CliTypes /\ ConfigHeld /\ ApiHeld /\ InvocationInv(p)
      /\ stage[p] = "idle"
  BY DEF CliInv, At
<1>2. CASE \E st \in {"ok", "fail", "crash"} : Exit(p, st)
  BY <1>1, <1>2, LeaveInv
<1>3. CASE /\ has(definitions, cmd[p].method) /\ Len(cmd[p].args) <= Len(params)
           /\ request' = [request EXCEPT ![p] = Request(p, params)]
           /\ api' = [api EXCEPT ![p] = definitions]
           /\ source' = [source EXCEPT ![p] = from]
           /\ Goto(p, "post") /\ UNCHANGED <<exit, config, given>>
  <2>1. /\ FileInv' /\ Apart(p) /\ stage' = stage
        /\ \A f \in Path : intent'[f] \in {intent[f], Unknown}
    BY <1>1, FileStays
  <2>2. /\ pc' \in [Proc -> Points] /\ pc'[p] = "post"
        /\ \A q \in Proc : q # p => pc'[q] = pc[q]
    BY <1>1, <1>3 DEF CliTypes, Goto, Points
  <2>3. /\ api' \in [Proc -> Group] /\ api'[p] = definitions
        /\ \A q \in Proc : q # p => api'[q] = api[q]
    BY <1>1, <1>3 DEF CliTypes, SubmitsWell
  <2>4. /\ source' \in [Proc -> Apis \cup {Unknown}] /\ source'[p] = from
        /\ \A q \in Proc : q # p => source'[q] = source[q]
    BY <1>1, <1>3 DEF CliTypes, SubmitsWell
  <2>5. /\ request' = [q \in Proc |-> request'[q]] /\ request'[p] = Request(p, params)
        /\ \A q \in Proc : q # p => request'[q] = request[q]
    BY <1>1, <1>3 DEF CliTypes
  <2>6. CliTypes'
    BY <1>1, <1>3, <2>2, <2>3, <2>4, <2>5 DEF CliTypes
  <2>7. Others(p)
    BY <1>1, <1>3, <2>2, <2>3, <2>4, <2>5 DEF Others
  <2>8. ConfigHeld' /\ ApiHeld'
    BY <1>1, <2>1, HeldKeeps
  <2>9. Running(p)' /\ ConfigExpected(p)' /\ ApiExpected(p)' /\ ApiFetched(p)'
    BY <1>1, <1>3, <2>1, <2>2 DEF At, InvocationInv, Running, ConfigExpected, ApiExpected,
                                  ApiFetched
  <2>10. ConfigKept(p)'
    BY <1>1, <1>3 DEF At, InvocationInv, ConfigKept
  <2>11. Requested(p)'
    <3>1. config' = config /\ cmd' = cmd
      BY <1>3
    <3>2. request'[p] = Request(p, params)'
      BY <2>5, <3>1 DEF Request
    <3>3. Len(cmd'[p].args) <= Len(params)
      BY <1>3, <3>1
    <3>4. source'[p] # Unknown =>
            \/ api'[p] = WithHelp(source'[p])
            \/ Storable(WithHelp(source'[p])) =>
                 api'[p] = sort_properties(Trimmed(WithHelp(source'[p])))
      BY <2>3, <2>4 DEF SubmitsWell
    <3>5. has(api'[p], cmd'[p].method) /\ params = value(api'[p], cmd'[p].method)
      BY <1>3, <2>3, <3>1
    <3> QED BY <3>2, <3>3, <3>4, <3>5 DEF Requested, Request
  <2> QED BY <2>1, <2>6, <2>7, <2>8, <2>9, <2>10, <2>11, GoInv DEF InvocationInv
<1> QED BY <1>2, <1>3 DEF Submit

LEMMA ApiLoadedInv ==
  ASSUME CliInv, NEW p \in Proc, ApiLoaded(p)
  PROVE  CliInv'
<1>1. /\ FileInv /\ CliTypes /\ ConfigHeld /\ ApiHeld /\ InvocationInv(p)
      /\ At(p, "api loaded") /\ UNCHANGED <<fileVars, runs, cmd, served>>
  BY DEF CliInv, ApiLoaded
<1>2. CASE /\ Succeeds(p)
           /\ Submit(p, group[p], IF expect[p] = Unknown THEN Unknown ELSE source[p])
  <2>1. group[p] \in Group
    BY <1>1 DEF FileInv, FileTypes
  <2>2. CASE expect[p] = Unknown
    <3>1. SubmitsWell(p, group[p], Unknown)
      BY <2>1 DEF SubmitsWell
    <3> QED BY <1>1, <1>2, <2>2, <3>1, SubmitInv
  <2>3. CASE expect[p] # Unknown
    <3>1. /\ expect[p] # Absent
          /\ Storable(expect[p]) => group[p] = sort_properties(Trimmed(expect[p]))
      BY <1>1, <1>2, <2>3, LoadAnswers DEF At
    <3>2. source[p] \in Apis /\ expect[p] = WithHelp(source[p])
      BY <1>1, <2>3, <3>1 DEF InvocationInv, ApiExpected, At
    <3>3. SubmitsWell(p, group[p], source[p])
      BY <2>1, <3>1, <3>2 DEF SubmitsWell
    <3> QED BY <1>1, <1>2, <2>3, <3>3, SubmitInv
  <2> QED BY <2>2, <2>3
<1>3. CASE Continue(p, "fetch")
  <2>1. /\ FileInv' /\ Apart(p) /\ stage' = stage
        /\ \A f \in Path : intent'[f] \in {intent[f], Unknown}
    BY <1>1, FileStays
  <2>2. /\ pc' \in [Proc -> Points] /\ pc'[p] = "fetch"
        /\ \A q \in Proc : q # p => pc'[q] = pc[q]
    BY <1>1, <1>3 DEF CliTypes, Continue, Goto, Points
  <2>3. UNCHANGED <<exit, config, api, request, given, source, cmd, runs, served>>
    BY <1>1, <1>3 DEF Continue
  <2>4. CliTypes' /\ Others(p)
    BY <1>1, <2>2, <2>3 DEF CliTypes, Others
  <2>5. ConfigHeld' /\ ApiHeld'
    BY <1>1, <2>1, HeldKeeps
  <2>6. Running(p)' /\ ConfigExpected(p)' /\ ApiExpected(p)' /\ ApiFetched(p)' /\ Requested(p)'
    BY <1>1, <2>1, <2>2, <2>3 DEF At, InvocationInv, Running, ConfigExpected, ApiExpected,
                                  ApiFetched, Requested
  <2>7. ConfigKept(p)'
    BY <1>1, <2>3 DEF At, InvocationInv, ConfigKept
  <2> QED BY <2>1, <2>4, <2>5, <2>6, <2>7, GoInv DEF InvocationInv
<1>4. CASE Exit(p, "fail")
  BY <1>1, <1>4, LeaveInv DEF At
<1> QED BY <1>2, <1>3, <1>4 DEF ApiLoaded

LEMMA FetchInv ==
  ASSUME CliInv, NEW p \in Proc, Fetch(p)
  PROVE  CliInv'
<1>1. /\ FileInv /\ CliTypes /\ ConfigHeld /\ ApiHeld /\ InvocationInv(p)
      /\ At(p, "fetch") /\ UNCHANGED <<fileVars, runs, cmd, served>>
  BY DEF CliInv, Fetch
<1>2. ASSUME NEW d \in Apis, api' = [api EXCEPT ![p] = WithHelp(d)],
             source' = [source EXCEPT ![p] = d], Goto(p, "save"),
             UNCHANGED <<exit, config, request, given>>
      PROVE  CliInv'
  <2>1. /\ FileInv' /\ Apart(p) /\ stage' = stage
        /\ \A f \in Path : intent'[f] \in {intent[f], Unknown}
    BY <1>1, FileStays
  <2>2. /\ pc' \in [Proc -> Points] /\ pc'[p] = "save"
        /\ \A q \in Proc : q # p => pc'[q] = pc[q]
    BY <1>1, <1>2 DEF CliTypes, Goto, Points
  <2>3. WithHelp(d) \in Group
    BY ApiGroups
  <2>4. /\ api' \in [Proc -> Group] /\ api'[p] = WithHelp(d)
        /\ \A q \in Proc : q # p => api'[q] = api[q]
    BY <1>1, <1>2, <2>3 DEF CliTypes
  <2>5. /\ source' \in [Proc -> Apis \cup {Unknown}] /\ source'[p] = d
        /\ \A q \in Proc : q # p => source'[q] = source[q]
    BY <1>1, <1>2 DEF CliTypes
  <2>6. CliTypes'
    BY <1>1, <1>2, <2>2, <2>4, <2>5 DEF CliTypes
  <2>7. Others(p)
    BY <1>1, <1>2, <2>2, <2>4, <2>5 DEF Others
  <2>8. ConfigHeld' /\ ApiHeld'
    BY <1>1, <2>1, HeldKeeps
  <2>9. Running(p)' /\ ConfigExpected(p)' /\ ApiExpected(p)' /\ Requested(p)'
    BY <1>1, <1>2, <2>1, <2>2 DEF At, InvocationInv, Running, ConfigExpected, ApiExpected,
                                  Requested
  <2>10. ConfigKept(p)' /\ ApiFetched(p)'
    BY <1>1, <1>2, <2>4, <2>5 DEF At, InvocationInv, ConfigKept, ApiFetched
  <2> QED BY <2>1, <2>6, <2>7, <2>8, <2>9, <2>10, GoInv DEF InvocationInv
<1>3. CASE \E st \in {"fail", "crash"} : Exit(p, st)
  BY <1>1, <1>3, LeaveInv DEF At
<1> QED BY <1>2, <1>3 DEF Fetch

LEMMA SaveApiInv ==
  ASSUME CliInv, NEW p \in Proc, SaveApi(p)
  PROVE  CliInv'
<1>1. /\ FileInv /\ CliTypes /\ ConfigHeld /\ ApiHeld /\ InvocationInv(p)
      /\ At(p, "save") /\ StartSave(p, apiPath, api[p]) /\ Continue(p, "api saved")
      /\ served' = IF stage' = stage THEN served ELSE source[p]
      /\ runs' = runs /\ cmd' = cmd
  BY DEF CliInv, SaveApi
<1>2. /\ source[p] \in Apis /\ api[p] = WithHelp(source[p]) /\ source[p] # Unknown
      /\ api[p] \in Group /\ api[p] # Absent /\ api[p] # Unknown
  BY <1>1, ApiGroups DEF InvocationInv, ApiFetched, At
<1>3. /\ FileInv' /\ Apart(p) /\ \A e \in Path : e # apiPath => intent'[e] = intent[e]
      /\ \/ stage' # stage /\ intent'[apiPath] \in {api[p], Unknown}
         \/ stage' = stage /\ intent' = intent
  BY <1>1, <1>2, StartSaveInv, SaveStarts, CliMarkers
<1>4. /\ pc' \in [Proc -> Points] /\ pc'[p] = "api saved"
      /\ \A q \in Proc : q # p => pc'[q] = pc[q]
  BY <1>1 DEF CliTypes, Continue, Goto, Points
<1>5. UNCHANGED <<exit, config, api, request, given, source>>
  BY <1>1 DEF Continue
<1>6. served' \in Apis \cup {Unknown}
  BY <1>1, <1>2 DEF CliTypes
<1>7. CliTypes' /\ Others(p)
  BY <1>1, <1>4, <1>5, <1>6 DEF CliTypes, Others
<1>8. ConfigHeld'
  BY <1>1, <1>3, CliMarkers DEF ConfigHeld
<1>9. ApiHeld'
  <2>1. CASE stage' # stage /\ intent'[apiPath] \in {api[p], Unknown}
    BY <1>1, <1>2, <2>1, Markers DEF ApiHeld
  <2>2. CASE stage' = stage /\ intent' = intent
    BY <1>1, <2>2 DEF ApiHeld
  <2> QED BY <1>3, <2>1, <2>2
<1>10. Running(p)' /\ ConfigExpected(p)' /\ ApiExpected(p)' /\ Requested(p)'
  BY <1>1, <1>4, <1>5 DEF At, InvocationInv, Running, ConfigExpected, ApiExpected, Requested
<1>11. ConfigKept(p)' /\ ApiFetched(p)'
  BY <1>1, <1>2, <1>5 DEF At, InvocationInv, ConfigKept, ApiFetched
<1> QED BY <1>3, <1>7, <1>8, <1>9, <1>10, <1>11, GoInv DEF InvocationInv

LEMMA ApiSavedInv ==
  ASSUME CliInv, NEW p \in Proc, ApiSaved(p)
  PROVE  CliInv'
<1>1. /\ CliTypes /\ InvocationInv(p) /\ At(p, "api saved")
      /\ UNCHANGED <<fileVars, runs, cmd, served>>
  BY DEF CliInv, ApiSaved
<1>2. CASE \E st \in {"ok", "fail"} : Exit(p, st)
  BY <1>1, <1>2, LeaveInv DEF At
<1>3. CASE Submit(p, api[p], source[p])
  <2>1. source[p] \in Apis /\ api[p] = WithHelp(source[p]) /\ api[p] \in Group
    BY <1>1 DEF CliTypes, InvocationInv, ApiFetched, At
  <2>2. SubmitsWell(p, api[p], source[p])
    BY <2>1 DEF SubmitsWell
  <2> QED BY <1>1, <1>3, <2>2, SubmitInv
<1> QED BY <1>2, <1>3 DEF ApiSaved

LEMMA InFileInv ==
  ASSUME CliInv, NEW p \in Proc, InFile(p)
  PROVE  CliInv'
<1>1. /\ FileInv /\ CliTypes /\ ConfigHeld /\ ApiHeld /\ InvocationInv(p)
      /\ UNCHANGED <<runs, pc, cmd, config, api, request, exit, given, source, served>>
  BY DEF CliInv, InFile, cliState, cliHistory
<1>2. /\ FileInv' /\ Apart(p) /\ stage[p] # "idle" /\ expect'[p] \in {expect[p], Unknown}
      /\ \A f \in Path : intent'[f] \in {intent[f], Unknown}
  BY <1>1, FileStepInv, StepsInFile DEF InFile
<1>3. CliTypes' /\ Others(p)
  BY <1>1 DEF CliTypes, Others
<1>4. ConfigHeld' /\ ApiHeld'
  BY <1>1, <1>2, HeldKeeps
<1>5. Running(p)' /\ ConfigExpected(p)' /\ ApiExpected(p)'
  BY <1>1, <1>2 DEF InvocationInv, Running, ConfigExpected, ApiExpected
<1>6. ConfigKept(p)' /\ ApiFetched(p)'
  BY <1>1 DEF InvocationInv, ConfigKept, ApiFetched
<1>7. Requested(p)'
  BY <1>1 DEF InvocationInv, Requested, Request
<1> QED BY <1>2, <1>3, <1>4, <1>5, <1>6, <1>7, GoInv DEF InvocationInv

LEMMA KilledInv ==
  ASSUME CliInv, NEW p \in Proc, Killed(p)
  PROVE  CliInv'
<1>1. FileInv /\ CliTypes /\ Kill(p) /\ Exit(p, "killed") /\ UNCHANGED <<runs, cmd, served>>
  BY DEF CliInv, Killed
<1>2. /\ FileInv' /\ Apart(p) /\ stage'[p] = "idle"
      /\ \A f \in Path : intent'[f] \in {intent[f], Unknown}
  BY <1>1, KillInv, Kills
<1>3. runs' \in 0 .. MaxRuns /\ cmd' \in [Proc -> Commands \cup {NoCommand}]
  BY <1>1 DEF CliTypes
<1> QED BY <1>1, <1>2, <1>3, ExitInv

LEMMA CliNextInv == CliInv /\ [CliNext]_cliVars => CliInv'
<1> SUFFICES ASSUME CliInv, [CliNext]_cliVars PROVE CliInv'
  OBVIOUS
<1>1. ASSUME NEW p \in Proc, Step(p) PROVE CliInv'
  <2>1. CASE Helped(p) \/ ConfigSaved(p) \/ BadConfig(p) \/ Post(p)
    <3>1. /\ stage[p] = "idle" /\ UNCHANGED <<fileVars, runs, cmd, served>>
          /\ \E st \in {"ok", "fail", "crash"} : Exit(p, st)
      BY <2>1 DEF At, Helped, ConfigSaved, BadConfig, Post
    <3> QED BY <3>1, LeaveInv
  <2>2. CASE GoodConfig(p) \/ ApiLoaded(p) \/ Fetch(p) \/ SaveApi(p) \/ ApiSaved(p) \/ InFile(p)
    BY <2>2, GoodConfigInv, ApiLoadedInv, FetchInv, SaveApiInv, ApiSavedInv, InFileInv
  <2> QED BY <1>1, <2>1, <2>2 DEF Step
<1>2. ASSUME NEW p \in Proc, Killed(p) \/ \E c \in Commands : Invoke(p, c) PROVE CliInv'
  BY <1>2, KilledInv, InvokeInv
<1>3. CASE UNCHANGED cliVars
  <2>1. /\ FileInv /\ CliTypes /\ ConfigHeld /\ ApiHeld /\ UNCHANGED fileVars
        /\ UNCHANGED <<runs, pc, cmd, config, api, request, exit, given, source, served>>
    BY <1>3 DEF CliInv, cliVars, cliState, cliHistory
  <2>2. FileInv' /\ stage' = stage /\ expect' = expect /\ intent' = intent
    BY <2>1, FileIdle DEF fileVars, fileState, fileHistory
  <2>3. CliTypes' /\ ConfigHeld' /\ ApiHeld'
    BY <2>1, <2>2 DEF CliTypes, ConfigHeld, ApiHeld
  <2>4. ASSUME NEW q \in Proc PROVE InvocationInv(q)'
    <3>1. InvocationInv(q)
      BY DEF CliInv
    <3> QED BY <2>1, <2>2, <3>1 DEF InvocationInv, Running, ConfigExpected, ConfigKept,
                                    ApiExpected, ApiFetched, Requested, Request
  <2> QED BY <2>2, <2>3, <2>4 DEF CliInv
<1> QED BY <1>1, <1>2, <1>3 DEF CliNext

LEMMA CliInitInv == CliInit => CliInv
<1> SUFFICES ASSUME CliInit PROVE CliInv
  OBVIOUS
<1>1. FileInv
  BY InitFileInv DEF CliInit
<1>2. CliTypes
  <2>1. <<>> \in Group /\ 0 \in 0 .. MaxRuns
    BY Markers, MmCliAssumption
  <2> QED BY <2>1 DEF CliInit, CliTypes, Points
<1>3. ConfigHeld /\ ApiHeld
  BY CliMarkers, Markers DEF CliInit, FileInit, ConfigHeld, ApiHeld
<1>4. \A p \in Proc : InvocationInv(p)
  BY DEF CliInit, FileInit, InvocationInv, Running, ConfigExpected, ConfigKept, ApiExpected,
         ApiFetched, Requested
<1> QED BY <1>1, <1>2, <1>3, <1>4 DEF CliInv

(* The invariant holds of any invocations of the program.                  *)
LEMMA CliInvariant == CliSpec => []CliInv
BY CliInitInv, CliNextInv, PTL DEF CliSpec

-----------------------------------------------------------------------------
(* To the files, an invocation is a process that loads and saves, and what *)
(* it saves is a config or an API with its help method.                    *)

Uses ==
  \/ UNCHANGED fileVars
  \/ \E p \in Proc :
       \/ \E f \in Path : StartLoad(p, f)
       \/ \E g \in ConfigGroups : StartSave(p, configPath, g)
       \/ \E d \in Apis : StartSave(p, apiPath, WithHelp(d))
       \/ FileStep(p)
       \/ Kill(p)

LEMMA FileUse ==
  ASSUME CliInv, [CliNext]_cliVars
  PROVE  Uses
<1>1. ASSUME NEW p \in Proc, NEW f \in Path, StartLoad(p, f) PROVE Uses
  BY <1>1 DEF Uses
<1>2. ASSUME NEW p \in Proc, FileStep(p) \/ Kill(p) PROVE Uses
  BY <1>2 DEF Uses
<1>3. configPath \in Path /\ apiPath \in Path
  BY CliMarkers
<1>4. ASSUME NEW p \in Proc, Step(p) PROVE Uses
  <2>1. CASE GoodConfig(p)
    BY <1>1, <1>3, <2>1 DEF GoodConfig, Uses
  <2>2. CASE SaveApi(p)
    <3>1. pc[p] = "save" /\ StartSave(p, apiPath, api[p])
      BY <2>2 DEF SaveApi, At
    <3>2. source[p] \in Apis /\ api[p] = WithHelp(source[p])
      BY <3>1 DEF CliInv, InvocationInv, ApiFetched
    <3> QED BY <3>1, <3>2 DEF Uses
  <2>3. CASE InFile(p)
    BY <1>2, <2>3 DEF InFile
  <2>4. CASE \/ Helped(p) \/ ConfigSaved(p) \/ BadConfig(p) \/ ApiLoaded(p)
             \/ Fetch(p) \/ ApiSaved(p) \/ Post(p)
    BY <2>4 DEF Helped, ConfigSaved, BadConfig, ApiLoaded, Fetch, ApiSaved, Post, Uses
  <2> QED BY <1>4, <2>1, <2>2, <2>3, <2>4 DEF Step
<1>5. ASSUME NEW p \in Proc, Killed(p) PROVE Uses
  BY <1>2, <1>5 DEF Killed
<1>6. ASSUME NEW p \in Proc, NEW c \in Commands, Invoke(p, c) PROVE Uses
  <2>1. CASE c.method = CONFIG /\ Len(c.args) = 2 /\ StartSave(p, configPath, Configured(c))
    <3>1. Configured(c) \in ConfigGroups
      BY <2>1 DEF ConfigGroups
    <3> QED BY <2>1, <3>1 DEF Uses
  <2>2. CASE StartLoad(p, apiPath) \/ StartLoad(p, configPath)
    BY <1>1, <1>3, <2>2
  <2>3. CASE UNCHANGED fileVars
    BY <2>3 DEF Uses
  <2> QED BY <1>6, <2>1, <2>2, <2>3 DEF Invoke
<1>7. CASE UNCHANGED cliVars
  BY <1>7 DEF cliVars, Uses
<1> QED BY <1>4, <1>5, <1>6, <1>7 DEF CliNext

LEMMA UseAuthor ==
  ASSUME FileInv, AuthorInv, Uses
  PROVE  AuthorInv'
<1>1. configPath \in Path /\ apiPath \in Path
  BY CliMarkers
<1>2. ASSUME NEW p \in Proc, NEW g \in ConfigGroups, StartSave(p, configPath, g)
      PROVE  AuthorInv'
  <2>1. g \in Group
    BY ConfigFields
  <2> QED BY <1>1, <1>2, <2>1, StartSaveAuthor
<1>3. ASSUME NEW p \in Proc, NEW d \in Apis, StartSave(p, apiPath, WithHelp(d))
      PROVE  AuthorInv'
  <2>1. WithHelp(d) \in Group
    BY ApiGroups
  <2> QED BY <1>1, <1>3, <2>1, StartSaveAuthor
<1> QED BY <1>2, <1>3, AuthorIdle, StartLoadAuthor, FileStepAuthor, KillAuthor DEF Uses

-----------------------------------------------------------------------------
(* Which _config a request is made of.  From here on, the invariant also   *)
(* says whose text an invocation took for its config: every config fits in *)
(* stdio's buffer, so that AuthorInv tells what can be in the file.        *)

Past == {"api loaded", "fetch", "save", "api saved", "post"}

(* A group that was loaded from a text, or from the beginning of it.       *)
LoadedFrom(c, g) == \E n \in 0 .. Len(Text(g)) : c = Loaded(UpTo(Text(g), n)).group

Wrote(p) ==
  /\ pc[p] = "config loaded" =>
       path[p] = configPath /\ origin[p] \in ConfigGroups \cup {Absent, Unknown}
  /\ pc[p] \in Past =>
       /\ has(config[p], KEY_URL)
       /\ written[p] \notin {Absent, Unknown} => LoadedFrom(config[p], written[p])
  /\ pc[p] = "post" => has(config[p], KEY_USERPASS)

WrittenInv ==
  /\ AuthorInv
  /\ author[configPath] \in ConfigGroups \cup {Absent, Unknown}
  /\ written \in [Proc -> ConfigGroups \cup {Absent, Unknown}]
  /\ \A p \in Proc : Wrote(p)

\* A config takes two lines.
LEMMA ConfigFits ==
  ASSUME NEW g \in ConfigGroups
  PROVE  Len(Text(g)) <= StdioBuf
<1>1. PICK c \in Commands : c.method = CONFIG /\ Len(c.args) = 2 /\ g = Configured(c)
  BY DEF ConfigGroups
<1>2. c.args[1] \in Seq(Symbol) /\ c.args[2] \in Seq(Symbol)
  BY <1>1, MmCliAssumption
<1> DEFINE e1 == [key |-> KEY_URL, value |-> c.args[1]]
           e2 == [key |-> KEY_USERPASS, value |-> c.args[2]]
<1>3. e1 \in Pair /\ e2 \in Pair
  BY <1>2, CliMarkers DEF Pair
<1>4. g = <<e1, e2>>
  BY <1>1 DEF Configured
<1> HIDE DEF e1, e2
<1>5. Len(Text(<<e1, e2>>)) = Len(Line(e1)) + Len(Line(e2))
  BY <1>3, TwoLines
<1>6. /\ Len(Line(e1)) \in Nat /\ Len(Line(e1)) <= LineMax
      /\ Len(Line(e2)) \in Nat /\ Len(Line(e2)) <= LineMax
  BY <1>3, LineTypes DEF Pair
<1>7. 2 * LineMax <= StdioBuf /\ LineMax \in Nat /\ StdioBuf \in Nat
  BY MmCliAssumption, Markers
<1> QED BY <1>4, <1>5, <1>6, <1>7

\* A step of p leaves the loads and the memory of the others alone.
Elsewhere(p) == \A q \in Proc : q # p => path'[q] = path[q] /\ origin'[q] = origin[q]
Memory(p) ==
  /\ written' \in [Proc -> ConfigGroups \cup {Absent, Unknown}]
  /\ \A q \in Proc : q # p =>
       pc'[q] = pc[q] /\ config'[q] = config[q] /\ written'[q] = written[q]

LEMMA LoadElsewhere ==
  ASSUME FileInv, AuthorInv, NEW p \in Proc, NEW f \in Path, StartLoad(p, f)
  PROVE  Elsewhere(p) /\ path'[p] = f /\ origin'[p] = Unknown
BY DEF FileInv, FileTypes, AuthorInv, StartLoad, Elsewhere

LEMMA SaveElsewhere ==
  ASSUME FileInv, AuthorInv, NEW p \in Proc, NEW f \in Path, NEW g, StartSave(p, f, g)
  PROVE  Elsewhere(p)
BY DEF FileInv, FileTypes, AuthorInv, StartSave, Elsewhere

LEMMA KillElsewhere ==
  ASSUME FileInv, AuthorInv, NEW p \in Proc, Kill(p)
  PROVE  Elsewhere(p)
BY DEF FileInv, FileTypes, AuthorInv, Kill, Elsewhere

LEMMA StepElsewhere ==
  ASSUME FileInv, AuthorInv, NEW p \in Proc, FileStep(p)
  PROVE  /\ Elsewhere(p) /\ path'[p] = path[p]
         /\ origin'[p] \in {origin[p], Unknown, author[path[p]]}
<1>1. CASE Measure(p) \/ WriteLine(p) \/ Close(p)
  BY <1>1 DEF Measure, WriteLine, Close, fileHistory, Elsewhere
<1>2. CASE Read(p)
  <2>1. path' = path
    BY <1>2 DEF Read
  <2>2. \/ origin' = origin
        \/ \E x \in {Unknown, author[path[p]]} : origin' = [origin EXCEPT ![p] = x]
    BY <1>2, Zenon DEF Read
  <2> QED BY <2>1, <2>2 DEF AuthorInv, Elsewhere
<1> QED BY <1>1, <1>2 DEF FileStep

LEMMA AuthorOfConfig ==
  ASSUME FileInv, WrittenInv, Uses
  PROVE  author'[configPath] \in ConfigGroups \cup {Absent, Unknown}
<1>1. /\ author[configPath] \in ConfigGroups \cup {Absent, Unknown}
      /\ author \in [Path -> Group \cup {Absent, Unknown}]
      /\ configPath \in Path /\ apiPath \in Path /\ configPath # apiPath
  BY CliMarkers DEF WrittenInv, AuthorInv
<1>2. ASSUME NEW p \in Proc, NEW f \in Path, StartLoad(p, f) PROVE author' = author
  BY <1>2 DEF StartLoad
<1>3. ASSUME NEW p \in Proc, NEW f \in Path, NEW g, StartSave(p, f, g)
      PROVE  author' = author \/ \E x \in {g, Unknown} : author' = [author EXCEPT ![f] = x]
  BY <1>3, Zenon DEF StartSave
<1>4. ASSUME NEW p \in Proc, FileStep(p) \/ Kill(p) PROVE author' = author
  BY <1>4 DEF FileStep, Measure, Read, WriteLine, Close, Kill, fileHistory
<1>5. ASSUME NEW p \in Proc, NEW g \in ConfigGroups, StartSave(p, configPath, g)
      PROVE  author'[configPath] \in ConfigGroups \cup {Absent, Unknown}
  BY <1>1, <1>3, <1>5
<1>6. ASSUME NEW p \in Proc, NEW d \in Apis, StartSave(p, apiPath, WithHelp(d))
      PROVE  author'[configPath] = author[configPath]
  BY <1>1, <1>3, <1>6
<1>7. CASE UNCHANGED fileVars
  BY <1>1, <1>7 DEF fileVars, fileHistory
<1> QED BY <1>1, <1>2, <1>4, <1>5, <1>6, <1>7 DEF Uses

\* What main() takes for its config.
LEMMA ConfigTold ==
  ASSUME WrittenInv, NEW p \in Proc, pc[p] = "config loaded", origin[p] \notin {Absent, Unknown}
  PROVE  LoadedFrom(group[p], origin[p])
<1>1. origin[p] \in ConfigGroups
  BY DEF WrittenInv, Wrote
<1>2. Tells(p, origin[p])
  BY <1>1, ConfigFits DEF WrittenInv, AuthorInv, Originates
<1>3. PICK n \in 0 .. Len(Text(origin[p])) :
        Loaded(UpTo(Text(origin[p]), n)) = [err |-> ferr[p], group |-> group[p]]
  BY <1>2 DEF Tells
<1> DEFINE l == Loaded(UpTo(Text(origin[p]), n))
<1>4. l.group = group[p]
  <2>1. l = [err |-> ferr[p], group |-> group[p]]
    BY <1>3
  <2> HIDE DEF l
  <2> QED BY <2>1
<1> QED BY <1>4 DEF LoadedFrom

(* What a step of p leaves in its own memory.                              *)
Lasts(p) == Elsewhere(p) /\ Memory(p) /\ Wrote(p)'

LEMMA ExitWrote ==
  ASSUME CliInv, WrittenInv, NEW p \in Proc, NEW st, Exit(p, st), Elsewhere(p)
  PROVE  Lasts(p)
<1>1. pc'[p] = "idle" /\ \A q \in Proc : q # p => pc'[q] = pc[q]
  BY DEF CliInv, CliTypes, Exit, Goto
<1>2. \A q \in Proc : q # p => config'[q] = config[q]
  BY DEF CliInv, CliTypes, Exit, Forget
<1>3. /\ written' \in [Proc -> ConfigGroups \cup {Absent, Unknown}]
      /\ \A q \in Proc : q # p => written'[q] = written[q]
  BY DEF WrittenInv, Exit, Forget
<1> QED BY <1>1, <1>2, <1>3 DEF Lasts, Memory, Wrote, Past

\* main() goes on with what it has, and posts what has a userpass.
LEMMA GoesWrote ==
  ASSUME CliInv, WrittenInv, NEW p \in Proc, NEW where \in Past, Goto(p, where),
         pc[p] \in Past, UNCHANGED <<config, written>>, Elsewhere(p),
         where = "post" => has(config[p], KEY_USERPASS)
  PROVE  Lasts(p)
<1>1. pc'[p] = where /\ \A q \in Proc : q # p => pc'[q] = pc[q]
  BY DEF CliInv, CliTypes, Goto
<1>2. Wrote(p)
  BY DEF WrittenInv
<1>3. Wrote(p)'
  BY <1>1, <1>2 DEF Wrote, Past, LoadedFrom
<1> QED BY <1>1, <1>3 DEF Lasts, Memory, WrittenInv

LEMMA FilesElsewhere ==
  ASSUME UNCHANGED fileVars, NEW p \in Proc
  PROVE  Elsewhere(p)
BY DEF fileVars, fileState, fileHistory, Elsewhere

LEMMA InvokeWrote ==
  ASSUME CliInv, WrittenInv, NEW p \in Proc, NEW c \in Commands, Invoke(p, c)
  PROVE  Lasts(p)
<1>1. FileInv /\ AuthorInv /\ configPath \in Path /\ apiPath \in Path
  BY CliMarkers DEF CliInv, WrittenInv
<1>2. CASE Exit(p, "ok") /\ UNCHANGED fileVars
  BY <1>2, ExitWrote, FilesElsewhere
<1>3. ASSUME NEW where \in {"help", "config saved", "config loaded"}, Goto(p, where), Forget(p),
             Elsewhere(p),
             where = "config loaded" => path'[p] = configPath /\ origin'[p] = Unknown
      PROVE  Lasts(p)
  <2>1. pc'[p] = where /\ \A q \in Proc : q # p => pc'[q] = pc[q]
    BY <1>3 DEF CliInv, CliTypes, Goto
  <2>2. \A q \in Proc : q # p => config'[q] = config[q]
    BY <1>3 DEF CliInv, CliTypes, Forget
  <2>3. /\ written' \in [Proc -> ConfigGroups \cup {Absent, Unknown}]
        /\ \A q \in Proc : q # p => written'[q] = written[q]
    BY <1>3 DEF WrittenInv, Forget
  <2> QED BY <1>3, <2>1, <2>2, <2>3 DEF Lasts, Memory, Wrote, Past
<1>4. CASE StartLoad(p, apiPath) /\ Goto(p, "help") /\ Forget(p)
  BY <1>1, <1>3, <1>4, LoadElsewhere
<1>5. CASE StartSave(p, configPath, Configured(c)) /\ Goto(p, "config saved") /\ Forget(p)
  BY <1>1, <1>3, <1>5, SaveElsewhere
<1>6. CASE StartLoad(p, configPath) /\ Goto(p, "config loaded") /\ Forget(p)
  BY <1>1, <1>3, <1>6, LoadElsewhere
<1> QED BY <1>2, <1>4, <1>5, <1>6 DEF Invoke

LEMMA GoodConfigWrote ==
  ASSUME CliInv, WrittenInv, NEW p \in Proc, GoodConfig(p)
  PROVE  Lasts(p)
<1>1. /\ FileInv /\ AuthorInv /\ Wrote(p) /\ apiPath \in Path
      /\ pc[p] = "config loaded" /\ has(group[p], KEY_URL)
  BY CliMarkers DEF CliInv, WrittenInv, GoodConfig, At
<1>2. CASE Exit(p, "ok") /\ UNCHANGED fileVars
  BY <1>2, ExitWrote, FilesElsewhere
<1>3. ASSUME NEW where \in {"fetch", "api loaded"}, Goto(p, where), Elsewhere(p),
             config' = [config EXCEPT ![p] = group[p]],
             written' = [written EXCEPT ![p] = origin[p]]
      PROVE  Lasts(p)
  <2>1. pc'[p] = where /\ \A q \in Proc : q # p => pc'[q] = pc[q]
    BY <1>3 DEF CliInv, CliTypes, Goto
  <2>2. config'[p] = group[p] /\ \A q \in Proc : q # p => config'[q] = config[q]
    BY <1>3 DEF CliInv, CliTypes
  <2>3. origin[p] \in ConfigGroups \cup {Absent, Unknown}
    BY <1>1 DEF Wrote
  <2>4. /\ written' \in [Proc -> ConfigGroups \cup {Absent, Unknown}]
        /\ written'[p] = origin[p]
        /\ \A q \in Proc : q # p => written'[q] = written[q]
    BY <1>3, <2>3 DEF WrittenInv
  <2>5. written'[p] \notin {Absent, Unknown} => LoadedFrom(config'[p], written'[p])
    BY <1>1, <2>2, <2>4, ConfigTold
  <2>6. Wrote(p)'
    BY <1>1, <1>3, <2>1, <2>2, <2>5 DEF Wrote, LoadedFrom
  <2> QED BY <1>3, <2>1, <2>2, <2>4, <2>6 DEF Lasts, Memory
<1>4. CASE /\ Goto(p, "fetch") /\ UNCHANGED fileVars
           /\ config' = [config EXCEPT ![p] = group[p]]
           /\ written' = [written EXCEPT ![p] = origin[p]]
  BY <1>3, <1>4, FilesElsewhere
<1>5. CASE /\ Goto(p, "api loaded") /\ StartLoad(p, apiPath)
           /\ config' = [config EXCEPT ![p] = group[p]]
           /\ written' = [written EXCEPT ![p] = origin[p]]
  BY <1>1, <1>3, <1>5, LoadElsewhere
<1> QED BY <1>2, <1>4, <1>5 DEF GoodConfig

LEMMA SubmitWrote ==
  ASSUME CliInv, WrittenInv, NEW p \in Proc, NEW d, NEW from, Submit(p, d, from),
         pc[p] \in Past, UNCHANGED fileVars
  PROVE  Lasts(p)
<1>1. CASE \E st : Exit(p, st)
  BY <1>1, ExitWrote, FilesElsewhere
<1>2. CASE Goto(p, "post") /\ UNCHANGED <<config, written>> /\ has(config[p], KEY_USERPASS)
  <2>1. "post" \in Past
    BY DEF Past
  <2> QED BY <1>2, <2>1, GoesWrote, FilesElsewhere
<1> QED BY <1>1, <1>2 DEF Submit

LEMMA StepWrote ==
  ASSUME CliInv, WrittenInv, NEW p \in Proc, Step(p)
  PROVE  Lasts(p)
<1>1. FileInv /\ AuthorInv /\ Wrote(p) /\ configPath \in Path /\ apiPath \in Path
  BY CliMarkers DEF CliInv, WrittenInv
<1>2. CASE Helped(p) \/ ConfigSaved(p) \/ BadConfig(p) \/ Post(p)
  <2>1. UNCHANGED fileVars /\ \E st : Exit(p, st)
    BY <1>2 DEF Helped, ConfigSaved, BadConfig, Post
  <2> QED BY <2>1, ExitWrote, FilesElsewhere
<1>3. CASE GoodConfig(p)
  BY <1>3, GoodConfigWrote
<1>4. CASE ApiLoaded(p)
  <2>1. pc[p] \in Past /\ UNCHANGED fileVars /\ "fetch" \in Past
    BY <1>4 DEF ApiLoaded, At, Past
  <2>2. CASE Continue(p, "fetch")
    BY <2>1, <2>2, GoesWrote, FilesElsewhere DEF Continue
  <2>3. CASE Exit(p, "fail")
    BY <2>1, <2>3, ExitWrote, FilesElsewhere
  <2>4. CASE \E from : Submit(p, group[p], from)
    BY <2>1, <2>4, SubmitWrote
  <2> QED BY <1>4, <2>2, <2>3, <2>4 DEF ApiLoaded
<1>5. CASE Fetch(p)
  <2>1. pc[p] \in Past /\ UNCHANGED fileVars /\ "save" \in Past
    BY <1>5 DEF Fetch, At, Past
  <2>2. CASE Goto(p, "save") /\ UNCHANGED <<config, written>>
    BY <2>1, <2>2, GoesWrote, FilesElsewhere
  <2>3. CASE \E st : Exit(p, st)
    BY <2>1, <2>3, ExitWrote, FilesElsewhere
  <2> QED BY <1>5, <2>2, <2>3 DEF Fetch
<1>6. CASE SaveApi(p)
  <2>1. pc[p] \in Past /\ "api saved" \in Past
    BY <1>6 DEF SaveApi, At, Past
  <2>2. StartSave(p, apiPath, api[p]) /\ Continue(p, "api saved")
    BY <1>6 DEF SaveApi
  <2> QED BY <1>1, <2>1, <2>2, GoesWrote, SaveElsewhere DEF Continue
<1>7. CASE ApiSaved(p)
  <2>1. pc[p] \in Past /\ UNCHANGED fileVars
    BY <1>7 DEF ApiSaved, At, Past
  <2>2. CASE \E st : Exit(p, st)
    BY <2>1, <2>2, ExitWrote, FilesElsewhere
  <2>3. CASE Submit(p, api[p], source[p])
    BY <2>1, <2>3, SubmitWrote
  <2> QED BY <1>7, <2>2, <2>3 DEF ApiSaved
<1>8. CASE InFile(p)
  <2>1. UNCHANGED <<pc, config, written>>
    BY <1>8 DEF InFile, cliState, cliHistory
  <2>2. /\ Elsewhere(p) /\ path'[p] = path[p]
        /\ origin'[p] \in {origin[p], Unknown, author[path[p]]}
    BY <1>1, <1>8, StepElsewhere DEF InFile
  <2>3. Wrote(p)'
    BY <1>1, <2>1, <2>2 DEF Wrote, LoadedFrom, WrittenInv
  <2> QED BY <2>1, <2>2, <2>3 DEF Lasts, Memory, WrittenInv
<1> QED BY <1>2, <1>3, <1>4, <1>5, <1>6, <1>7, <1>8 DEF Step

LEMMA WrittenNext ==
  ASSUME CliInv, WrittenInv, [CliNext]_cliVars
  PROVE  WrittenInv'
<1>1. Uses /\ FileInv /\ AuthorInv
  BY FileUse DEF CliInv, WrittenInv
<1>2. AuthorInv' /\ author'[configPath] \in ConfigGroups \cup {Absent, Unknown}
  BY <1>1, UseAuthor, AuthorOfConfig
<1>3. ASSUME NEW p \in Proc, Lasts(p) PROVE WrittenInv'
  <2>1. ASSUME NEW q \in Proc, q # p PROVE Wrote(q)'
    <3>1. Wrote(q)
      BY DEF WrittenInv
    <3>2. /\ path'[q] = path[q] /\ origin'[q] = origin[q]
          /\ pc'[q] = pc[q] /\ config'[q] = config[q] /\ written'[q] = written[q]
      BY <1>3, <2>1 DEF Lasts, Elsewhere, Memory
    <3> QED BY <3>1, <3>2 DEF Wrote, LoadedFrom
  <2> QED BY <1>2, <1>3, <2>1 DEF Lasts, Memory, WrittenInv
<1>4. ASSUME NEW p \in Proc, Step(p) PROVE WrittenInv'
  BY <1>3, <1>4, StepWrote
<1>5. ASSUME NEW p \in Proc, Killed(p) PROVE WrittenInv'
  BY <1>1, <1>3, <1>5, ExitWrote, KillElsewhere DEF Killed
<1>6. ASSUME NEW p \in Proc, NEW c \in Commands, Invoke(p, c) PROVE WrittenInv'
  BY <1>3, <1>6, InvokeWrote
<1>7. CASE UNCHANGED cliVars
  <2>1. UNCHANGED <<path, origin, pc, config, written>>
    BY <1>7 DEF cliVars, cliState, cliHistory, fileVars, fileState, fileHistory
  <2> QED BY <1>2, <2>1 DEF WrittenInv, Wrote, LoadedFrom
<1> QED BY <1>4, <1>5, <1>6, <1>7 DEF CliNext

LEMMA WrittenInvariant == CliSpec => [](CliInv /\ WrittenInv)
<1>1. CliInit => WrittenInv
  <2> SUFFICES ASSUME CliInit PROVE WrittenInv
    OBVIOUS
  <2>1. AuthorInv
    BY InitAuthorInv DEF CliInit
  <2>2. author[configPath] = Absent
    BY CliMarkers DEF CliInit, FileInit
  <2> QED BY <2>1, <2>2 DEF CliInit, WrittenInv, Wrote, Past
<1>2. CliInv /\ WrittenInv /\ [CliNext]_cliVars => WrittenInv'
  BY WrittenNext
<1> QED BY <1>1, <1>2, CliInitInv, CliNextInv, PTL DEF CliSpec

-----------------------------------------------------------------------------
\* What is posted comes from the api that main() has found the method in.
LEMMA RequestParams ==
  ASSUME CliInv, NEW p \in Proc, pc[p] = "post"
  PROVE  /\ \E params : request[p] = Request(p, params)
         /\ Len(request[p].params) = Len(cmd[p].args)
<1> DEFINE m == cmd[p].method
           params == value(api[p], m)
           n == Len(cmd[p].args)
<1>1. /\ has(api[p], m) /\ n <= Len(params) /\ request[p] = Request(p, params)
      /\ api[p] \in Group /\ n \in Nat
  BY CliMarkers DEF CliInv, CliTypes, InvocationInv, Requested, Running
<1>2. params \in Seq(Symbol)
  <2>1. find_property(api[p], m) \in DOMAIN api[p]
    BY <1>1, FindFirst DEF has
  <2>2. api[p][find_property(api[p], m)] \in [key : Seq(Symbol), value : Seq(Symbol)]
    BY ONLY <1>1, <2>1, LenProperties, ElementOfSeq DEF Group
  <2> QED BY <2>2 DEF value
<1> HIDE DEF params, n, m
<1>3. request[p].params = UpTo(params, n)
  BY <1>1 DEF Request, n
<1>4. Len(UpTo(params, n)) = n
  BY <1>1, <1>2, Split, LenProperties
<1> QED BY <1>1, <1>3, <1>4 DEF n

\* A config that was loaded from a torn file, with a url and a userpass.
LEMMA LoadedFromConfig ==
  ASSUME NEW g \in ConfigGroups, OneLiners(g), NEW c, LoadedFrom(c, g),
         has(c, KEY_URL), has(c, KEY_USERPASS)
  PROVE  /\ value(c, KEY_URL) = strtrim(value(g, KEY_URL))
         /\ IsPrefix(value(c, KEY_USERPASS), strtrim(value(g, KEY_USERPASS)))
<1>1. PICK cmnd \in Commands : cmnd.method = CONFIG /\ Len(cmnd.args) = 2 /\ g = Configured(cmnd)
  BY DEF ConfigGroups
<1>2. cmnd.args[1] \in Seq(Symbol) /\ cmnd.args[2] \in Seq(Symbol)
  BY <1>1, MmCliAssumption
<1> DEFINE e1 == [key |-> KEY_URL, value |-> cmnd.args[1]]
           e2 == [key |-> KEY_USERPASS, value |-> cmnd.args[2]]
<1>3. e1 \in Pair /\ e2 \in Pair /\ e1.key = KEY_URL /\ e2.key = KEY_USERPASS
  BY <1>2, CliMarkers DEF Pair
<1>4. g = <<e1, e2>>
  BY <1>1 DEF Configured
<1> HIDE DEF e1, e2
<1>5. /\ g \in Group /\ DOMAIN g = 1 .. 2 /\ g[1] = e1 /\ g[2] = e2
  BY <1>3, <1>4 DEF Group, Pair
<1>6. /\ value(g, KEY_URL) = e1.value /\ value(g, KEY_USERPASS) = e2.value
  <2>1. \A i \in DOMAIN g : i = 1 \/ i = 2
    BY <1>5
  <2>2. /\ 1 \in DOMAIN g /\ 2 \in DOMAIN g /\ KEY_URL # KEY_USERPASS
        /\ g[1].key = KEY_URL /\ g[2].key = KEY_USERPASS
    BY <1>3, <1>5, CliMarkers
  <2>3. /\ find_property(g, KEY_URL) \in DOMAIN g
        /\ g[find_property(g, KEY_URL)].key = KEY_URL
        /\ find_property(g, KEY_USERPASS) \in DOMAIN g
        /\ g[find_property(g, KEY_USERPASS)].key = KEY_USERPASS
    BY <1>5, <2>2, FindFirst
  <2>4. find_property(g, KEY_URL) = 1 /\ find_property(g, KEY_USERPASS) = 2
    BY <2>1, <2>2, <2>3
  <2> QED BY <1>5, <2>4 DEF value
<1>7. OneLine(e1) /\ OneLine(e2)
  <2>1. \A i \in DOMAIN g : {NL, NUL} \cap ToSet(g[i].value) = {}
    BY DEF OneLiners
  <2>2. {NL, NUL} \cap ToSet(e1.value) = {} /\ {NL, NUL} \cap ToSet(e2.value) = {}
    BY <1>5, <2>1
  <2>3. {SEP, NL, NUL} \cap ToSet(e1.key) = {} /\ {SEP, NL, NUL} \cap ToSet(e2.key) = {}
    BY <1>3, MmCliAssumption
  <2>4. ASSUME NEW e \in Pair, {NL, NUL} \cap ToSet(e.value) = {},
               {SEP, NL, NUL} \cap ToSet(e.key) = {}
        PROVE  OneLine(e)
    <3>1. /\ \A i \in 1 .. Len(e.key) : e.key[i] \in ToSet(e.key)
          /\ \A i \in 1 .. Len(e.value) : e.value[i] \in ToSet(e.value)
      BY LenProperties DEF Pair, ToSet
    <3> QED BY <2>4, <3>1 DEF OneLine
  <2> QED BY <1>3, <2>2, <2>3, <2>4
<1>8. strtrim(e1.key) = e1.key /\ strtrim(e2.key) = e2.key /\ e1.key # e2.key
  BY <1>3, MmCliAssumption
<1>9. PICK n \in 0 .. Len(Text(<<e1, e2>>)) :
        c = Loaded(UpTo(Text(<<e1, e2>>), n)).group
  BY <1>4 DEF LoadedFrom
<1>10. find_property(c, e1.key) # 0 /\ find_property(c, e2.key) # 0
  BY <1>3 DEF has
<1>11. /\ c[find_property(c, e1.key)].value = strtrim(e1.value)
       /\ IsPrefix(c[find_property(c, e2.key)].value, strtrim(e2.value))
  BY <1>3, <1>7, <1>8, <1>9, <1>10, PairLoaded
<1> QED BY <1>3, <1>6, <1>11 DEF value

(* An invocation is where main() can be, works on a file only while it     *)
(* runs, and knows no exit status before it has ended.                     *)
THEOREM CliTyped == CliSpec => []CliTypeOK
<1>1. CliInv /\ WrittenInv => CliTypeOK
  <2> SUFFICES ASSUME CliInv, WrittenInv PROVE CliTypeOK
    OBVIOUS
  <2>1. FileTypeOK
    BY DEF CliInv, FileInv, FileTypes, WrittenInv, AuthorInv, FileTypeOK, Group
  <2>2. \A p \in Proc : /\ pc[p] # "idle" => exit[p] = "none" /\ cmd[p] \in Commands
                        /\ stage[p] # "idle" => pc[p] # "idle"
    BY DEF CliInv, InvocationInv, Running
  <2>3. \A p \in Proc : pc[p] = "post" => Len(request[p].params) = Len(cmd[p].args)
    BY RequestParams
  <2> QED BY <2>1, <2>2, <2>3 DEF CliInv, CliTypes, CliTypeOK, Points
<1> QED BY <1>1, WrittenInvariant, PTL

(* As long as nothing disturbs the config file - no kill, no lost flush,   *)
(* no other _config or load at the same time - and its lines hold what the *)
(* last _config was given, main() and build_param_list of mmcli.c send all *)
(* of it, but for the blanks that parse_properties drops.                  *)
THEOREM SendsAsConfigured == CliSpec => []SentAsConfigured
<1>1. CliInv => SentAsConfigured
  <2> SUFFICES ASSUME CliInv, NEW p \in Proc, pc[p] = "post", given[p] # Unknown,
                      Storable(given[p])
               PROVE  /\ request[p].url = strtrim(value(given[p], KEY_URL))
                      /\ request[p].userpass = strtrim(value(given[p], KEY_USERPASS))
    BY DEF SentAsConfigured
  <2>1. given[p] \in ConfigGroups /\ config[p] = sort_properties(Trimmed(given[p]))
    BY DEF CliInv, CliTypes, InvocationInv, ConfigKept
  <2>2. /\ value(config[p], KEY_URL) = strtrim(value(given[p], KEY_URL))
        /\ value(config[p], KEY_USERPASS) = strtrim(value(given[p], KEY_USERPASS))
    BY <2>1, ConfigFields
  <2>3. PICK params : request[p] = Request(p, params)
    BY DEF CliInv, InvocationInv, Requested
  <2>4. /\ request[p].url = value(config[p], KEY_URL)
        /\ request[p].userpass = value(config[p], KEY_USERPASS)
    BY <2>3 DEF Request
  <2> QED BY <2>2, <2>4
<1> QED BY <1>1, CliInvariant, PTL

(* A request never mixes two configurations, whatever happens to the file: *)
(* its url and (the beginning of) its userpass are those of one _config    *)
(* command - main(), build_param_list, and all of property.c and           *)
(* sys_file.c on the way there.                                            *)
THEOREM SendsOneConfig == CliSpec => []RequestOfOneConfig
<1>1. CliInv /\ WrittenInv => RequestOfOneConfig
  <2> SUFFICES ASSUME CliInv, WrittenInv, NEW p \in Proc, pc[p] = "post",
                      written[p] \notin {Absent, Unknown}, OneLiners(written[p])
               PROVE  /\ request[p].url = strtrim(value(written[p], KEY_URL))
                      /\ IsPrefix(request[p].userpass, strtrim(value(written[p], KEY_USERPASS)))
    BY DEF RequestOfOneConfig
  <2>1. /\ request[p].url = value(config[p], KEY_URL)
        /\ request[p].userpass = value(config[p], KEY_USERPASS)
    <3>1. PICK params : request[p] = Request(p, params)
      BY RequestParams
    <3> QED BY <3>1 DEF Request
  <2>2. /\ written[p] \in ConfigGroups /\ LoadedFrom(config[p], written[p])
        /\ has(config[p], KEY_URL) /\ has(config[p], KEY_USERPASS)
    BY DEF WrittenInv, Wrote, Past
  <2> QED BY <2>1, <2>2, LoadedFromConfig
<1> QED BY <1>1, WrittenInvariant, PTL

(* What an API with the help method put to it says of a method, as it is   *)
(* fetched and as it is saved, sorted and loaded.                          *)
Documents(d, m, names) ==
  LET definitions == {i \in DOMAIN d : d[i].key = m} IN
  /\ definitions # {} \/ m = KEY_HELP
  /\ m = KEY_HELP => names = <<>>
  /\ m # KEY_HELP /\ Cardinality(definitions) = 1 =>
       \A i \in definitions : names = d[i].value

LEMMA Published ==
  ASSUME NEW d \in Apis, NEW m, NEW a, has(a, m),
         a = WithHelp(d) \/ a = sort_properties(WithHelp(d))
  PROVE  Documents(d, m, value(a, m))
<1> DEFINE e == [key |-> KEY_HELP, value |-> <<>>]
           h == WithHelp(d)
           definitions == {i \in DOMAIN d : d[i].key = m}
<1>1. d \in Group /\ h \in Group
  BY ApiGroups
<1>2. e \in [key : Seq(Symbol), value : Seq(Symbol)] /\ e.key = KEY_HELP /\ e.value = <<>>
  BY CliMarkers, Markers
<1>3. /\ \E i \in DOMAIN h : h[i].key = KEY_HELP /\ h[i].value = <<>>
      /\ h[find_property(h, KEY_HELP)].value = <<>>
      /\ \A i \in DOMAIN h : h[i].key # KEY_HELP => i \in DOMAIN d /\ h[i] = d[i]
  BY ZenonT(30), <1>1, <1>2, Puts DEF WithHelp
<1> HIDE DEF h, e
<1>4. /\ find_property(h, m) # 0 => find_property(h, m) \in DOMAIN h
                                   /\ h[find_property(h, m)].key = m
  BY <1>1, FindFirst
<1>5. /\ find_property(sort_properties(h), m) # 0 <=> find_property(h, m) # 0
      /\ find_property(h, m) # 0
           /\ (\A i \in DOMAIN h : h[i].key = m => i = find_property(h, m)) =>
             sort_properties(h)[find_property(sort_properties(h), m)].value
               = h[find_property(h, m)].value
      /\ \A i \in DOMAIN h : h[i].key = m /\ h[i].value = <<>> =>
           sort_properties(h)[find_property(sort_properties(h), m)].value = <<>>
  BY <1>1, SortedFinds
<1>6. a = h \/ a = sort_properties(h)
  BY DEF h
<1> DEFINE n == find_property(h, m)
<1>7. n # 0
  BY <1>5, <1>6 DEF has
<1>8. m = KEY_HELP => value(a, m) = <<>>
  BY <1>3, <1>5, <1>6 DEF value
<1>9. m # KEY_HELP => n \in definitions /\ h[n] = d[n]
  BY <1>3, <1>4, <1>7
<1> HIDE DEF n
<1>10. ASSUME m # KEY_HELP, Cardinality(definitions) = 1, NEW i \in definitions
       PROVE  value(a, m) = d[i].value
  <2>1. IsFiniteSet(definitions)
    <3>1. DOMAIN d = 1 .. Len(d) /\ Len(d) \in Nat
      BY <1>1, LenProperties DEF Group
    <3>2. IsFiniteSet(1 .. Len(d)) /\ definitions \subseteq 1 .. Len(d)
      BY <3>1, FS_Interval
    <3> HIDE DEF definitions
    <3> QED BY <3>2, FS_Subset
  <2>2. PICK x : definitions = {x}
    <3> HIDE DEF definitions
    <3> QED BY <1>10, <2>1, FS_Singleton
  <2>3. n = i /\ h[n] = d[i]
    BY <1>9, <1>10, <2>2
  <2>4. \A j \in DOMAIN h : h[j].key = m => j = n
    BY <1>3, <1>9, <1>10, <2>2
  <2> QED BY <1>5, <1>6, <1>7, <2>3, <2>4 DEF value, n
<1> QED BY <1>8, <1>9, <1>10 DEF Documents

(* The names of the arguments are those that the server documented when    *)
(* the cache was filled: fetch_api, save_api and build_param_list.         *)
THEOREM SendsAsPublished == CliSpec => []ParamsAsPublished
<1>1. CliInv => ParamsAsPublished
  <2> SUFFICES ASSUME CliInv, NEW p \in Proc, pc[p] = "post", source[p] # Unknown,
                      Storable(WithHelp(source[p])),
                      Trimmed(WithHelp(source[p])) = WithHelp(source[p])
               PROVE  LET method == request[p].method
                          definitions == {i \in DOMAIN source[p] : source[p][i].key = method}
                      IN  /\ definitions # {} \/ method = KEY_HELP
                          /\ method = KEY_HELP => request[p].params = <<>>
                          /\ method # KEY_HELP /\ Cardinality(definitions) = 1 =>
                               \A i \in definitions : request[p].params
                                 = UpTo(source[p][i].value, Len(cmd[p].args))
    BY DEF ParamsAsPublished
  <2> DEFINE m == cmd[p].method
             params == value(api[p], m)
  <2>1. /\ source[p] \in Apis /\ has(api[p], m) /\ Len(cmd[p].args) <= Len(params)
        /\ request[p] = Request(p, params)
        /\ api[p] = WithHelp(source[p]) \/ api[p] = sort_properties(WithHelp(source[p]))
    BY DEF CliInv, CliTypes, InvocationInv, Requested
  <2>2. request[p].method = m /\ request[p].params = UpTo(params, Len(cmd[p].args))
    BY <2>1 DEF Request
  <2>3. Documents(source[p], m, params)
    BY <2>1, Published
  <2> DEFINE definitions == {i \in DOMAIN source[p] : source[p][i].key = m}
  <2>4. /\ definitions # {} \/ m = KEY_HELP
        /\ m = KEY_HELP => params = <<>>
        /\ m # KEY_HELP /\ Cardinality(definitions) = 1 =>
             \A i \in definitions : params = source[p][i].value
    BY <2>3 DEF Documents
  <2> HIDE DEF params, m
  <2>5. params = <<>> => UpTo(params, Len(cmd[p].args)) = <<>>
    <3>1. Len(cmd[p].args) \in Nat
      BY CliMarkers DEF CliInv, InvocationInv, Running
    <3>2. params = <<>> => Len(cmd[p].args) = 0
      BY <2>1, <3>1
    <3> QED BY <3>2 DEF UpTo
  <2> QED BY <2>2, <2>4, <2>5
<1> QED BY <1>1, CliInvariant, PTL

-----------------------------------------------------------------------------
(* How an invocation comes to its exit status: by a step of its own, and   *)
(* in main() with a null pointer only where find_property() found none.    *)

Own(p) == Step(p) \/ Killed(p) \/ \E c \in Commands : Invoke(p, c)

LEMMA OwnExit ==
  ASSUME CliInv, NEW q \in Proc, Own(q), NEW p \in Proc, p # q
  PROVE  exit'[p] = exit[p]
<1>1. \/ exit' = exit
      \/ \E st \in {"none", "ok", "fail", "crash", "killed"} : exit' = [exit EXCEPT ![q] = st]
  <2>1. CASE Killed(q) \/ \E c \in Commands : Invoke(q, c)
    BY <2>1 DEF Killed, Invoke, Exit
  <2>2. CASE Step(q)
    <3>1. CASE Helped(q) \/ ConfigSaved(q) \/ BadConfig(q) \/ GoodConfig(q) \/ Post(q)
      BY <3>1 DEF Helped, ConfigSaved, BadConfig, GoodConfig, Post, Exit
    <3>2. CASE ApiLoaded(q) \/ ApiSaved(q)
      BY <3>2 DEF ApiLoaded, ApiSaved, Submit, Continue, Exit
    <3>3. CASE Fetch(q) \/ SaveApi(q) \/ InFile(q)
      BY <3>3 DEF Fetch, SaveApi, InFile, cliState, Continue, Exit
    <3> QED BY <2>2, <3>1, <3>2, <3>3 DEF Step
  <2> QED BY <2>1, <2>2 DEF Own
<1> QED BY <1>1 DEF CliInv, CliTypes

LEMMA SubmitCrashes ==
  ASSUME CliInv, NEW p \in Proc, pc[p] \in {"api loaded", "api saved"},
         NEW d, NEW from, Submit(p, d, from), exit[p] # "crash", exit'[p] = "crash"
  PROVE  Torn(given[p])
<1>1. ~has(config[p], KEY_USERPASS)
  BY DEF CliInv, CliTypes, Submit, Exit
<1>2. ~Torn(given[p]) => /\ given[p] \in ConfigGroups
                         /\ config[p] = sort_properties(Trimmed(given[p]))
  BY DEF CliInv, CliTypes, InvocationInv, ConfigKept, Torn
<1> QED BY <1>1, <1>2, ConfigFields

Crashes(p) ==
  exit[p] # "crash" /\ exit'[p] = "crash" =>
    /\ pc[p] = "config loaded" => Torn(expect[p])
    /\ pc[p] \in {"api loaded", "api saved"} => Torn(given[p])

LEMMA CrashStep == CliInv /\ [CliNext]_cliVars => [\A p \in Proc : Crashes(p)]_cliVars
<1> SUFFICES ASSUME CliInv, CliNext, NEW p \in Proc, exit[p] # "crash", exit'[p] = "crash"
             PROVE  /\ pc[p] = "config loaded" => Torn(expect[p])
                    /\ pc[p] \in {"api loaded", "api saved"} => Torn(given[p])
  BY DEF Crashes
<1>1. Own(p)
  BY OwnExit DEF CliNext, Own
<1>2. CliTypes
  BY DEF CliInv
<1>3. CASE BadConfig(p)
  <2>1. /\ At(p, "config loaded") /\ Succeeds(p) /\ ~has(group[p], KEY_URL)
    BY <1>2, <1>3 DEF BadConfig, CliTypes, Exit
  <2>2. expect[p] # Unknown /\ Storable(expect[p]) =>
          expect[p] \in ConfigGroups /\ group[p] = sort_properties(Trimmed(expect[p]))
    BY <2>1, LoadAnswers DEF CliInv, InvocationInv, ConfigExpected, At
  <2> QED BY <2>1, <2>2, ConfigFields DEF At, Torn
<1>4. CASE ApiLoaded(p)
  <2>1. pc[p] = "api loaded" /\ \E from : Submit(p, group[p], from)
    BY <1>2, <1>4 DEF ApiLoaded, At, Continue, CliTypes, Exit
  <2> QED BY <2>1, SubmitCrashes
<1>5. CASE ApiSaved(p)
  <2>1. pc[p] = "api saved" /\ \E from : Submit(p, api[p], from)
    BY <1>2, <1>5 DEF ApiSaved, At, CliTypes, Exit
  <2> QED BY <2>1, SubmitCrashes
<1>6. CASE Fetch(p) \/ Post(p)
  BY <1>6 DEF Fetch, Post, At
<1>7. CASE Helped(p) \/ ConfigSaved(p) \/ GoodConfig(p) \/ SaveApi(p) \/ InFile(p)
  BY <1>2, <1>7 DEF Helped, ConfigSaved, GoodConfig, SaveApi, InFile, cliState, Continue,
                    CliTypes, Exit
<1>8. CASE Killed(p) \/ \E c \in Commands : Invoke(p, c)
  BY <1>2, <1>8 DEF Killed, Invoke, CliTypes, Exit
<1> QED BY <1>1, <1>3, <1>4, <1>5, <1>6, <1>7, <1>8 DEF Own, Step

(* parse_url() and strlen() get a null pointer from a torn config file     *)
(* only: main() and build_param_list look up what every _config saves.     *)
THEOREM CrashesOnTornConfig == CliSpec => CrashNeedsTornConfig
<1>1. CliSpec => [][\A p \in Proc : Crashes(p)]_cliVars
  BY CrashStep, CliInvariant, PTL DEF CliSpec
<1> QED BY <1>1 DEF CrashNeedsTornConfig, Crashes

(* RefreshRecreates of process p.                                          *)
Recreates(p) ==
  pc[p] = "api saved" /\ Refreshing(p) /\ exit'[p] = "ok"
    /\ intent[apiPath] # Unknown /\ served = source[p]
    /\ Busy(apiPath, {"write"}) = {} =>
  disk[apiPath] = Text(WithHelp(source[p]))

(* What is in the cache when _refresh succeeds is what the server listed,  *)
(* whatever was there before: fetch_api, save_api and save_properties.     *)
THEOREM RefreshWorks == CliSpec => RefreshRecreates
<1>1. CliInv => [\A p \in Proc : Recreates(p)]_cliVars
  <2> SUFFICES ASSUME CliInv, NEW p \in Proc, pc[p] = "api saved",
                      intent[apiPath] # Unknown, served = source[p],
                      Busy(apiPath, {"write"}) = {}
               PROVE  disk[apiPath] = Text(WithHelp(source[p]))
    BY DEF Recreates
  <2>1. source[p] \in Apis /\ source[p] # Unknown
    BY ApiGroups DEF CliInv, InvocationInv, ApiFetched
  <2>2. intent[apiPath] # Absent /\ intent[apiPath] = WithHelp(served)
    BY <2>1 DEF CliInv, ApiHeld
  <2>3. disk[apiPath] = Text(intent[apiPath])
    BY <2>2, FileInvHolds, CliMarkers DEF CliInv, FileHoldsTheSave
  <2> QED BY <2>2, <2>3
<1>2. CliSpec => [][\A p \in Proc : Recreates(p)]_cliVars
  BY <1>1, CliInvariant, PTL DEF CliSpec
<1> QED BY <1>2 DEF RefreshRecreates, Recreates

-----------------------------------------------------------------------------
(* Whatever the invocations do, the files see processes that load and save *)
(* one after the other, each time the fields of a _config or the API that  *)
(* a fetch found with its help method: main(), handle_config, handle_api.  *)
THEOREM UsesFiles ==
  ASSUME SavedGroups \subseteq Groups
  PROVE  CliSpec => FileSpec
<1>1. CliInit => FileInit
  BY DEF CliInit
<1>2. CliInv /\ [CliNext]_cliVars => [FileNext]_fileVars
  <2> SUFFICES ASSUME CliInv, [CliNext]_cliVars PROVE [FileNext]_fileVars
    OBVIOUS
  <2>1. Uses /\ configPath \in Path /\ apiPath \in Path
    BY FileUse, CliMarkers
  <2>2. /\ \A g \in ConfigGroups : g \in Groups
        /\ \A d \in Apis : WithHelp(d) \in Groups
    BY DEF SavedGroups
  <2> QED BY <2>1, <2>2 DEF Uses, FileNext, User
<1> QED BY <1>1, <1>2, CliInvariant, PTL DEF CliSpec, FileSpec

(* What is proved of the files holds therefore of the files of the program *)
(* - also where Groups has nothing to do with what the program saves.      *)
THEOREM CliFilesHold == CliSpec => [](FileHoldsTheSave /\ LoadReturnsTheSave /\ LoadsOneSave)
<1>1. CliInv /\ WrittenInv => FileHoldsTheSave /\ LoadReturnsTheSave
  BY FileInvHolds, FileInvLoads DEF CliInv
<1>2. CliInv /\ WrittenInv => LoadsOneSave
  BY DEF WrittenInv, AuthorInv, Originates, Tells, LoadsOneSave
<1> QED BY <1>1, <1>2, WrittenInvariant, PTL
=============================================================================
