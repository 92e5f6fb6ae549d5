-------------------------------- MODULE Url --------------------------------
(***************************************************************************)
(* url.c: the URL given to _config becomes an address and a port.          *)
(*                                                                         *)
(* A URL is a sequence of symbols.  The number behind the ':' is read      *)
(* digit by digit, as strtol() with base 0 reads it, into a long that      *)
(* clamps, and is cast to a port; the largest port and the largest long    *)
(* are small enough that a few digits reach every boundary.                *)
(***************************************************************************)
EXTENDS Integers, SequencesExt

CONSTANTS
  UrlChar,   \* what a URL is made of
  Urls,      \* what is in the config file
  Scheme,    \* "http://", with a ':' of its own
  MaxPort,   \* UINT16_MAX
  LongMax    \* LONG_MAX

ASSUME UrlAssumption ==
  /\ Urls \subseteq Seq(UrlChar) /\ Scheme \in Seq(UrlChar)
  /\ {MaxPort, LongMax} \subseteq Nat /\ LongMax > MaxPort

VARIABLES
  strUrl,    \* the argument (rigid)
  pc,        \* "start", "resolve" (in resolve_hostname) or "done"
  hostname,  \* what is resolved
  port, addr, err

urlVars == <<strUrl, pc, hostname, port, addr, err>>

UrlInit ==   \* memset() of the result
  /\ strUrl \in Urls /\ pc = "start" /\ hostname = <<>>
  /\ port = 0 /\ addr = "0.0.0.0" /\ err = "ok"

-----------------------------------------------------------------------------
strstartswith(s, prefix) == IF IsPrefix(prefix, s) THEN Len(prefix) ELSE -1

Numerals == <<"0", "1", "2", "3", "4", "5", "6", "7",
              "8", "9", "a", "b", "c", "d", "e", "f">>
Digits(base) == SubSeq(Numerals, 1, base)
Digit(c) == SelectInSeq(Numerals, LAMBDA x : x = c) - 1
Value(base, digits) ==
  LET v[n \in 0 .. Len(digits)] == IF n = 0 THEN 0 ELSE base * v[n - 1] + Digit(digits[n])
  IN  v[Len(digits)]

(* strtol(), base 0: blanks and a sign are skipped, "0x" announces a       *)
(* hexadecimal and "0" an octal number, the rest of the text is ignored,   *)
(* no digit at all is 0, and what is too large is LONG_MAX.                *)
strtol(text) ==
  LET drop(s, n) == SubSeq(s, n + 1, Len(s))
      some(s, set) == IF s = <<>> THEN FALSE ELSE Head(s) \in set
      number == drop(text, SelectInSeq(Append(text, ":"), LAMBDA c : c # " ") - 1)
      signed == some(number, {"+", "-"})
      body == IF signed THEN Tail(number) ELSE number
      hex == IsPrefix(<<"0", "x">>, body) /\ some(drop(body, 2), ToSet(Numerals))
      base == IF hex THEN 16 ELSE IF some(body, {"0"}) THEN 8 ELSE 10
      rest == IF hex THEN drop(body, 2) ELSE body
      end == SelectInSeq(Append(rest, ":"), LAMBDA c : c \notin ToSet(Digits(base)))
      read == Value(base, SubSeq(rest, 1, end - 1))
  IN  IF signed /\ Head(number) = "-" THEN Max({-read, -LongMax - 1})
      ELSE Min({read, LongMax})

\* Mutant: the number is cast before it is looked at.
CastFirst(n) == n % (MaxPort + 1) > 0

IS_VALID_PORT(n) == n > 0 /\ n <= MaxPort

-----------------------------------------------------------------------------
Colon == SelectInSubSeq(strUrl, strstartswith(strUrl, Scheme) + 1, Len(strUrl),
                        LAMBDA c : c = ":")
AfterColon == SubSeq(strUrl, Colon + 1, Len(strUrl))

BadUrl ==
  /\ pc = "start" /\ pc' = "done" /\ err' = "EINVAL"
  /\ \/ strstartswith(strUrl, Scheme) < 0
     \/ strstartswith(strUrl, Scheme) >= 0 /\ Colon = 0
     \/ /\ strstartswith(strUrl, Scheme) >= 0 /\ Colon # 0
        /\ ~IS_VALID_PORT(strtol(AfterColon))
  /\ UNCHANGED <<strUrl, hostname, port, addr>>

GoodPort ==
  /\ pc = "start" /\ pc' = "resolve"
  /\ strstartswith(strUrl, Scheme) >= 0 /\ Colon # 0
  /\ IS_VALID_PORT(strtol(AfterColon))
  /\ port' = strtol(AfterColon) % (MaxPort + 1)
  /\ hostname' = SubSeq(strUrl, strstartswith(strUrl, Scheme) + 1, Colon - 1)
  /\ UNCHANGED <<strUrl, addr, err>>

\* getaddrinfo() knows the name, or does not.
Resolve ==
  /\ pc = "resolve" /\ pc' = "done"
  /\ \/ addr' = "host" /\ UNCHANGED err
     \/ err' = "EAI" /\ UNCHANGED addr
  /\ UNCHANGED <<strUrl, hostname, port>>

UrlNext == BadUrl \/ GoodPort \/ Resolve
UrlSpec == UrlInit /\ [][UrlNext]_urlVars

-----------------------------------------------------------------------------
\* n written in decimal, for a reader.
Decimal[n \in 0 .. 2 * LongMax] ==
  IF n < 10 THEN <<Numerals[n + 1]>> ELSE Append(Decimal[n \div 10], Numerals[(n % 10) + 1])

(* A URL of the documented form, http://host:port with a port written in   *)
(* decimal, is connected to as written: its port and host are those of the *)
(* text, and it is refused only for a port that no socket has, or a host   *)
(* that no resolver knows.  No number wraps around to another port.        *)
ConnectsAsWritten ==
  pc = "done" => \A k \in {k \in DOMAIN strUrl : k > Len(Scheme) /\ strUrl[k] = ":"} :
    LET host == SubSeq(strUrl, Len(Scheme) + 1, k - 1)
        written == SubSeq(strUrl, k + 1, Len(strUrl))
    IN  IsPrefix(Scheme, strUrl) /\ ":" \notin ToSet(host) =>
          \A n \in {n \in DOMAIN Decimal : Decimal[n] = written} :
            IF n \in 1 .. MaxPort
            THEN port = n /\ hostname = host /\ (err = "ok" <=> addr = "host")
            ELSE err = "EINVAL"
=============================================================================
