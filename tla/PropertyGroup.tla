--------------------------- MODULE PropertyGroup ---------------------------
(***************************************************************************)
(* property.c: the one block that holds a group and its entries, and the   *)
(* three callers that fill one.                                            *)
(*                                                                         *)
(*   parse   parse_properties: adds, then shrinks the block to its size    *)
(*   api     parse_api_help and fetch_api: the same, and then puts Extra   *)
(*   params  build_param_list: does not take the pointer that the first    *)
(*           two calls of add_property return                              *)
(*                                                                         *)
(* realloc() may move the block; who keeps the old pointer then holds one  *)
(* to freed memory.  Memory never runs out (safe_realloc exits).           *)
(***************************************************************************)
EXTENDS Integers, SequencesExt

CONSTANTS
  Key, Value,
  Initial,   \* INITIAL_CAPACITY: 10 for parse, 50 for api, 10 for params
  Inputs,    \* what a caller adds
  Extra      \* UNDOCUMENTED_API

Property == [key : Key, value : Value]
Callers == {"parse", "api", "params"}

ASSUME GroupAssumption ==
  /\ Initial \in [Callers -> Nat \ {0}] /\ Initial["params"] >= 2
  /\ Inputs \subseteq Seq(Property) /\ Extra \in Seq(Property)

VARIABLES
  caller, input,     \* who fills the group, and with what (rigid)
  pc, next,          \* "add", "put" or "done", and the entry to take next
  entries, capacity, \* size is Len(entries)
  stale              \* the pointer the caller goes on with is a freed one

groupVars == <<caller, input, pc, next, entries, capacity, stale>>

GroupInit ==   \* alloc_properties
  /\ caller \in Callers /\ input \in Inputs
  /\ caller = "params" => Len(input) >= 2   \* method and userpass
  /\ pc = "add" /\ next = 1 /\ entries = <<>>
  /\ capacity = Initial[caller] /\ stale = FALSE

\* The pointer that comes back is the good one, for a caller that takes it.
realloc_properties(newCapacity, taken) ==
  capacity' = newCapacity /\ stale' \in IF taken THEN {FALSE} ELSE {stale, TRUE}

\* Mutant: grows when the block is full already, and one more is in it.
AddLate(e, taken) ==
  /\ entries' = Append(entries, e)
  /\ IF Len(entries) > capacity THEN realloc_properties(capacity * 2, taken)
                                ELSE UNCHANGED <<capacity, stale>>

add_property(e, taken) ==
  /\ entries' = Append(entries, e)
  /\ IF Len(entries) = capacity THEN realloc_properties(capacity * 2, taken)
                                ELSE UNCHANGED <<capacity, stale>>

\* Mutant: build_param_list never takes the pointer.
NeverTaken == caller # "params"
ResultTaken == caller # "params" \/ next > 2

Add ==
  /\ pc = "add" /\ next <= Len(input)
  /\ add_property(input[next], ResultTaken)
  /\ next' = next + 1 /\ UNCHANGED <<caller, input, pc>>

Shrink ==
  /\ pc = "add" /\ next > Len(input) /\ caller # "params"
  /\ realloc_properties(Len(entries), TRUE)
  /\ pc' = (IF caller = "api" THEN "put" ELSE "done") /\ next' = 1
  /\ UNCHANGED <<caller, input, entries>>

\* Mutant: the last entry with the key is taken.
FindLast(g, key) == SelectLastInSeq(g, LAMBDA e : e.key = key)

Find(g, key) == SelectInSeq(g, LAMBDA e : e.key = key)   \* 0: none

Put ==   \* one round of put_all_properties
  /\ pc = "put" /\ next <= Len(Extra)
  /\ LET e == Extra[next]
         at == Find(entries, e.key)
     IN  \/ at = 0 /\ add_property(e, TRUE)
         \/ /\ at # 0 /\ entries' = [entries EXCEPT ![at].value = e.value]
            /\ UNCHANGED <<capacity, stale>>
  /\ next' = next + 1 /\ UNCHANGED <<caller, input, pc>>

Return ==
  /\ \/ pc = "add" /\ next > Len(input) /\ caller = "params"
     \/ pc = "put" /\ next > Len(Extra)
  /\ pc' = "done" /\ UNCHANGED <<caller, input, next, entries, capacity, stale>>

GroupNext == Add \/ Shrink \/ Put \/ Return
GroupSpec == GroupInit /\ [][GroupNext]_groupVars

-----------------------------------------------------------------------------
(* Every entry lies inside the block - unless a server's help lists no     *)
(* method at all: that group is shrunk to a capacity of 0, and doubling it *)
(* makes no room for the help method that fetch_api puts there.            *)
FitsInBlock == Len(entries) <= capacity \/ (caller = "api" /\ input = <<>>)

(* Nobody goes on with a block that realloc() has freed: the two calls of  *)
(* build_param_list that drop the pointer come before the first growth.    *)
NoStalePointer == ~stale

(* put_all_properties keeps every entry in its place, replaces the value   *)
(* of the first one with a given key (the last value put wins), and adds a *)
(* key that is new once, behind the others.                                *)
PutAllOverrides ==
  caller = "api" /\ pc = "done" =>
    /\ \A n \in DOMAIN input :
         /\ entries[n].key = input[n].key
         /\ entries[n] # input[n] => /\ \A m \in 1 .. n - 1 : input[m].key # input[n].key
                                     /\ entries[n] \in ToSet(Extra)
    /\ \A e \in ToSet(Extra) :
         \E n \in DOMAIN entries :
           /\ entries[n].key = e.key /\ \A m \in 1 .. n - 1 : entries[m].key # e.key
           /\ entries[n] = Extra[CHOOSE m \in DOMAIN Extra :
                 /\ Extra[m].key = e.key
                 /\ \A l \in m + 1 .. Len(Extra) : Extra[l].key # e.key]
    /\ \A n \in Len(input) + 1 .. Len(entries) : \A m \in 1 .. n - 1 :
         entries[m].key # entries[n].key
=============================================================================
