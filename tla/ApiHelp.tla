------------------------------ MODULE ApiHelp ------------------------------
(***************************************************************************)
(* api_help.c and strutil.c: the help of the server becomes a group.       *)
(*                                                                         *)
(* parse_api_help works on one copy of the text, mem: lines, names and     *)
(* parameters are cut by writing NULs, trimmed by moving them to the left, *)
(* and strip_params writes its result over what it reads.  The keys and    *)
(* values of the group point into mem.  A pointer is a position in mem; a  *)
(* null pointer is 0.                                                      *)
(***************************************************************************)
EXTENDS Integers, SequencesExt

CONSTANTS
  Char,    \* characters, other than NUL
  Texts,   \* what http_post returns
  Rank,    \* their order, as in PropertyText
  LineMax  \* sizeof(line) - 1 in save_properties: 255

NUL == "NUL"
Blank == {" ", "nl"}   \* isspace()

ASSUME HelpAssumption ==
  /\ NUL \notin Char /\ {" ", "nl", "=", ","} \subseteq Char
  /\ Texts \subseteq Seq(Char)
  /\ Rank \in [Char \cup {NUL} -> Nat]
  /\ \A c, e \in Char \cup {NUL} : Rank[c] = Rank[e] => c = e
  /\ LineMax \in Nat \ {0}

VARIABLES
  text, mem,     \* the help as it came (rigid), and the copy worked on
  pc,            \* "line", "params" (in strip_params) or "done"
  s, p,          \* the text being looked at, and the line behind it
  key, dest, d,  \* the entry's key, its value, and where that is written next
  group

helpVars == <<text, mem, pc, s, p, key, dest, d, group>>

HelpInit ==
  /\ text \in Texts /\ mem = Append(text, NUL) /\ pc = "line" /\ s = 1
  /\ p = 0 /\ key = 0 /\ dest = 0 /\ d = 0 /\ group = <<>>

-----------------------------------------------------------------------------
(* C strings in m.                                                         *)
End(m, at) == SelectInSubSeq(m, at, Len(m), LAMBDA c : c = NUL)
Str(m, at) == SubSeq(m, at, End(m, at) - 1)
strchr(m, at, c) == SelectInSubSeq(m, at, End(m, at) - 1, LAMBDA x : x = c)
strstr(m, at, c) ==   \* of c twice
  LET found == {n \in at .. End(m, at) - 2 : m[n] = c /\ m[n + 1] = c}
  IN  IF found = {} THEN 0 ELSE Min(found)

Cut(m, at) == IF at = 0 THEN m ELSE [m EXCEPT ![at] = NUL]
Store(m, at, t) ==
  [n \in DOMAIN m |-> IF n \in at .. at + Len(t) - 1 THEN t[n - at + 1] ELSE m[n]]

Trim(str) ==
  LET solid == {n \in DOMAIN str : str[n] \notin Blank}
  IN  IF solid = {} THEN <<>> ELSE SubSeq(str, Min(solid), Max(solid))

\* Mutant: the NUL is not moved with the text.
strtrimUnended(m, at) ==
  LET str == Str(m, at)
      last == Max({0} \cup {n \in DOMAIN str : str[n] \notin Blank})
  IN  Store(Cut(m, at + last), at, Trim(str))

\* The end is cut first; then the text, and a NUL, move to the front.
strtrim(m, at) ==
  LET str == Str(m, at)
      last == Max({0} \cup {n \in DOMAIN str : str[n] \notin Blank})
  IN  Store(Cut(m, at + last), at, Append(Trim(str), NUL))

-----------------------------------------------------------------------------
NextLine == s' = p' /\ pc' = IF p' = 0 THEN "done" ELSE "line"

Line ==   \* parse_api_help: one line, up to the call of strip_params
  /\ pc = "line"
  /\ LET newline == strchr(mem, s, "nl")
         m1 == Cut(mem, newline)
         m2 == Cut(m1, strchr(m1, s, "#"))
         m3 == Cut(m2, strstr(m2, s, "/"))
         m4 == Cut(m3, strchr(m3, s, ")"))
         sep == strchr(m4, s, "(")
         m5 == IF sep = 0 THEN m4 ELSE strtrim(Cut(m4, sep), s)
     IN  /\ p' = IF newline = 0 THEN 0 ELSE newline + 1
         /\ \/ /\ sep # 0 /\ m5[s] # NUL
               /\ mem' = strtrim(m5, sep + 1) /\ key' = s
               /\ s' = sep + 1 /\ dest' = sep + 1 /\ d' = sep + 1 /\ pc' = "params"
            \/ /\ sep = 0 \/ m5[s] = NUL
               /\ mem' = m5 /\ NextLine /\ UNCHANGED <<key, dest, d>>
  /\ UNCHANGED <<text, group>>

Wrapped(str, open, close) == Len(str) >= 2 /\ str[1] = open /\ Last(str) = close
Multiple(str) == IsSuffix(<<"[", "]">>, str)

\* Mutant: what was wrapped is not trimmed again.
UnwrapOnly(m, at) ==
  IF ~Wrapped(Str(m, at), "[", "]") THEN [mem |-> m, s |-> at]
  ELSE [mem |-> Cut(m, End(m, at) - 1), s |-> at + 1]

\* The brackets of an optional parameter.
Unwrap(m, at) ==
  IF ~Wrapped(Str(m, at), "[", "]") THEN [mem |-> m, s |-> at]
  ELSE [mem |-> strtrim(Cut(m, End(m, at) - 1), at + 1), s |-> at + 1]

\* Mutant: a comma comes before the first name, too.
SeparatorAlways == <<",">>
Separator == IF d > dest THEN <<",">> ELSE <<>>

Param ==   \* one round of the loop in strip_params
  /\ pc = "params"
  /\ LET comma == strchr(mem, s, ",")
         m1 == strtrim(Cut(mem, comma), s)
         u == Unwrap(m1, s)
         m2 == IF Multiple(Str(u.mem, u.s))
               THEN strtrim(Cut(u.mem, End(u.mem, u.s) - 2), u.s) ELSE u.mem
         m3 == Cut(m2, strchr(m2, u.s, "="))
         slen == Len(Str(m3, u.s))
         m4 == Store(m3, d, Separator)
         to == d + Len(Separator)
         m5 == Store(m4, to, SubSeq(m4, u.s, u.s + slen - 1))
         ignored == Wrapped(Str(m1, s), "<", ">")
         result == IF ignored THEN m1 ELSE IF slen = 0 THEN m3 ELSE m5
     IN  /\ d' = IF ignored \/ slen = 0 THEN d ELSE to + slen
         /\ \/ /\ comma # 0 /\ s' = comma + 1 /\ mem' = result
               /\ UNCHANGED <<pc, group, p>>
            \/ /\ comma = 0 /\ mem' = Cut(result, d')
               /\ group' = Append(group, [key |-> key, value |-> dest])
               /\ UNCHANGED p /\ NextLine
  /\ UNCHANGED <<text, key, dest>>

HelpNext == Line \/ Param
HelpSpec == HelpInit /\ [][HelpNext]_helpVars

-----------------------------------------------------------------------------
(* What the help means, without memory.                                    *)
\* Where the pieces between the c's begin, and the piece that begins at n.
Starts(t, c) == {1} \cup {n + 1 : n \in {m \in DOMAIN t : t[m] = c}}
Piece(t, c, n) ==
  LET at == SelectInSubSeq(t, n, Len(t), LAMBDA x : x = c)
  IN  SubSeq(t, n, IF at = 0 THEN Len(t) ELSE at - 1)
Before(t, c) == Piece(t, c, 1)

\* Up to a comment or the end of the parameters.
Signature(line) ==
  LET ends == {n \in DOMAIN line : \/ line[n] \in {"#", ")"}
                                   \/ IsPrefix(<<"/", "/">>, SubSeq(line, n, Len(line)))}
  IN  IF ends = {} THEN line ELSE SubSeq(line, 1, Min(ends) - 1)
Name(line) == Trim(Before(Signature(line), "("))
Params(line) ==
  LET sig == Signature(line) IN Trim(SubSeq(sig, Len(Before(sig, "(")) + 2, Len(sig)))
Documents(line) == "(" \in ToSet(Signature(line)) /\ Name(line) # <<>>

Inner(str, front, back) == SubSeq(str, 1 + front, Len(str) - back)
ParamName(param) ==
  LET whole == Trim(param)
      bare == IF Wrapped(whole, "[", "]") THEN Trim(Inner(whole, 1, 1)) ELSE whole
  IN  IF Wrapped(whole, "<", ">") THEN <<>>
      ELSE Before(IF Multiple(bare) THEN Trim(Inner(bare, 0, 2)) ELSE bare, "=")

(* What the pieces that begin up to position k contribute, one behind the  *)
(* other: a name with a comma in front of it, a documented line's entry.   *)
Listed(params, k) ==
  FlattenSeq([n \in 1 .. k |->
    LET name == ParamName(Piece(params, ",", n))
    IN  IF n \notin Starts(params, ",") \/ name = <<>> THEN <<>> ELSE <<",">> \o name])
Names(params) ==
  LET list == Listed(params, Len(params) + 1) IN SubSeq(list, 2, Len(list))

Method(line) == [key |-> Name(line), value |-> Names(Params(line))]
Methods(t, k) ==
  FlattenSeq([n \in 1 .. k |->
    LET line == Piece(t, "nl", n)
    IN  IF n \notin Starts(t, "nl") \/ ~Documents(line) THEN <<>> ELSE <<Method(line)>>])
Meaning(t) == Methods(t, Len(t) + 1)

Entry(e) == [key |-> Str(mem, e.key), value |-> Str(mem, e.value)]
Result == [n \in DOMAIN group |-> Entry(group[n])]

(* Pointers stay inside the copy, whose last NUL is never overwritten, and *)
(* the result never gets ahead of the text it is made from.                *)
CursorsInBounds ==
  /\ {s, p, key, dest, d} \subseteq 0 .. Len(mem) /\ Last(mem) = NUL
  /\ pc = "params" => d >= dest /\ (s = dest \/ d < s) /\ d <= s

(* What has not been read is as it was: the parameters of a line that      *)
(* strip_params has still to look at, and the lines behind it.             *)
UnreadIntact ==
  /\ pc = "params" =>
       /\ p # 0 => SubSeq(mem, p, Len(mem)) = SubSeq(Append(text, NUL), p, Len(mem))
       /\ IsSuffix(Str(mem, s), Params(Piece(text, "nl", key)))
  /\ pc = "line" => SubSeq(mem, s, Len(mem)) = SubSeq(Append(text, NUL), s, Len(mem))

(* The group is what the help means, although its strings were cut, moved  *)
(* and overwritten in place while the rest of the text was parsed.         *)
HelpParsed == Result = SubSeq(Meaning(text), 1, Len(group)) /\
              (pc = "done" => Len(group) = Len(Meaning(text)))

(* The cache gives back what was fetched, sorted, so that the first call   *)
(* and later ones see the same methods and parameters - unless the help    *)
(* has a name with a '=' in it, a blank in front of a default value, or a  *)
(* method whose line is longer than save_properties can write: it is cut,  *)
(* and the next one becomes a part of it.                                  *)
Cache == INSTANCE PropertyText WITH NL <- "nl", SEP <- "="

CacheKeepsApi ==
  LET odd(line) == \E n \in DOMAIN line :
        /\ line[n] = "="
        /\ \/ n > 1 /\ line[n - 1] = " "
           \/ \A m \in 1 .. n : line[m] # "("
      fits(e) == Len(e.key) + 1 + Len(e.value) + 1 <= LineMax   \* '=', '\n'
  IN  /\ pc = "done"
      /\ ~(\E n \in Starts(text, "nl") : odd(Piece(text, "nl", n)))
      /\ \A n \in DOMAIN Result : fits(Result[n])
      => Cache!Loaded(Cache!Text(Result))
          = [err |-> "ok", group |-> Cache!sort_properties(Result)]
=============================================================================
