---------------------------- MODULE PropertyText ----------------------------
(***************************************************************************)
(* property.c and strutil.c: groups of properties, and the text they are   *)
(* stored as.                                                              *)
(*                                                                         *)
(* A group is a sequence of entries [key, value]; keys, values and texts   *)
(* are sequences of symbols.  A symbol stands for one or more characters   *)
(* that a text holds all of or none: a word, the '=' behind a key, a run   *)
(* of blanks.                                                              *)
(***************************************************************************)
EXTENDS Integers, SequencesExt

CONSTANTS
  Rank,      \* strcmp() order: a number for every symbol
  NL, NUL,   \* what ends lines and strings
  SEP,       \* the separator: '='
  Blank,     \* the symbols that isspace() is true of
  LineMax    \* sizeof(line) - 1 in save_properties: 255

Symbol == DOMAIN Rank

ASSUME TextAssumption ==
  /\ Blank \subseteq Symbol /\ {NL, NUL, SEP} \subseteq Symbol
  /\ NL \in Blank /\ {NUL, SEP} \cap Blank = {} /\ SEP # NUL
  /\ \A s \in Symbol : Rank[s] \in Nat
  /\ \A s, t \in Symbol : Rank[s] = Rank[t] => s = t
  /\ LineMax \in Nat \ {0}

UpTo(s, n) == SubSeq(s, 1, n)
From(s, n) == SubSeq(s, n, Len(s))

\* Mutant: sprintf(), which knows nothing of the size of line[].
LineUncut(e) == e.key \o <<SEP>> \o e.value \o <<NL>>

\* snprintf() into line[]: what does not fit is dropped, the newline first.
Line(e) ==
  LET whole == e.key \o <<SEP>> \o e.value \o <<NL>>
  IN  IF Len(whole) <= LineMax THEN whole ELSE UpTo(whole, LineMax)

Text(group) == FlattenSeq([i \in DOMAIN group |-> Line(group[i])])

strtrim(s) ==
  LET solid == {i \in DOMAIN s : s[i] \notin Blank}
  IN  IF solid = {} THEN <<>> ELSE SubSeq(s, Min(solid), Max(solid))

\* A group that a text can represent: no line is cut or read as another entry.
Storable(g) ==
  \A i \in DOMAIN g :
    /\ \A j \in DOMAIN g[i].key : g[i].key[j] \notin {SEP, NL, NUL}
    /\ \A j \in DOMAIN g[i].value : g[i].value[j] \notin {NL, NUL}
    /\ Len(g[i].key) + 1 + Len(g[i].value) < LineMax

\* What is left of a group when it has been stored: blanks around keys and
\* values are lost.
Trimmed(g) ==
  [i \in DOMAIN g |-> [key |-> strtrim(g[i].key), value |-> strtrim(g[i].value)]]

\* A C string ends at its first NUL.
CString(text) ==
  LET end == SelectInSeq(text, LAMBDA s : s = NUL)
  IN  IF end = 0 THEN text ELSE UpTo(text, end - 1)

\* The lines of a string that hold more than blanks, without these around them.
Lines(str) ==
  LET solid(i) == \E k \in i .. Len(str) :
                    str[k] \notin Blank /\ \A j \in i .. k : str[j] # NL
      starts == {i \in DOMAIN str : (i = 1 \/ str[i - 1] = NL) /\ solid(i)}
      end(i) == CHOOSE j \in i .. Len(str) :
                  /\ j = Len(str) \/ str[j + 1] = NL
                  /\ \A k \in i .. j : str[k] # NL
      start(n) == CHOOSE i \in starts : Cardinality({j \in starts : j <= i}) = n
  IN  [n \in 1 .. Cardinality(starts) |-> strtrim(SubSeq(str, start(n), end(start(n))))]

\* The first separator splits a line into a key and a value.
KeyEnd(line) == SelectInSeq(line, LAMBDA s : s = SEP)
Entry(line) ==
  [key |-> strtrim(UpTo(line, KeyEnd(line) - 1)),
   value |-> strtrim(From(line, KeyEnd(line) + 1))]

parse_properties(text) ==   \* an invalid line spoils the whole text
  LET lines == Lines(CString(text))
  IN  IF \E n \in DOMAIN lines : KeyEnd(lines[n]) = 0
      THEN [err |-> "EINVAL", group |-> <<>>]
      ELSE [err |-> "ok", group |-> [n \in DOMAIN lines |-> Entry(lines[n])]]

Less(s, t) ==   \* strcmp(s, t) < 0
  \E i \in DOMAIN t :
    /\ \A j \in 1 .. i - 1 : j \in DOMAIN s /\ s[j] = t[j]
    /\ i > Len(s) \/ Rank[s[i]] < Rank[t[i]]

Precedes(e, f) ==   \* prop_compare: by key, then by value
  Less(e.key, f.key) \/ (e.key = f.key /\ Less(e.value, f.value))

\* The n-th of the sorted entries is the one with n entries up to it.
sort_properties(group) ==
  LET before(i, j) == Precedes(group[i], group[j]) \/ (group[i] = group[j] /\ i < j)
      place(n) == CHOOSE i \in DOMAIN group :
                    Cardinality({j \in DOMAIN group : j = i \/ before(j, i)}) = n
  IN  [n \in DOMAIN group |-> group[place(n)]]

\* Mutant: an api file is taken to be sorted already.
LoadedAsIs(text) == parse_properties(text)

Loaded(text) ==   \* load_properties, of a file's contents
  LET parsed == parse_properties(text)
  IN  [parsed EXCEPT !.group = sort_properties(@)]

\* Where the first entry with this key is; 0 for NULL.
find_property(group, key) == SelectInSeq(group, LAMBDA e : e.key = key)

put_property(group, e) ==
  LET i == find_property(group, e.key)
  IN  IF i = 0 THEN Append(group, e) ELSE [group EXCEPT ![i].value = e.value]
=============================================================================
