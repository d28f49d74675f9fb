-------------------------------- MODULE Text ---------------------------------
(***************************************************************************)
(* What the engine does with characters: the receive buffer, which keeps   *)
(* the rest of a longer message behind a shorter one, and misc.c, which    *)
(* searches and cuts it.  A message is what follows the '=' of an AT       *)
(* command.  The loops of misc.c are recursive functions over positions,   *)
(* and each is compared with what it is for, on every buffer that two      *)
(* messages leave.                                                         *)
(***************************************************************************)
EXTENDS Integers, FiniteSets, Sequences, SequencesExt, FiniteSetsExt

CONSTANTS
  Letters,      \* the characters of a message
  MaxNoise,     \* bound: length of a message that is not well formed
  Keys, Values, \* the digits in the pairs of AT+IPHONEACCEV
  MaxPairs,     \* bound: pairs in a message
  BUFFER_SIZE,
  Patterns,     \* what _ble_strstr() is asked for
  MaxRecv       \* bound: messages received

NUL == "NUL"
CR == "CR"
Comma == ","
Blank == " "

VARIABLES buffer, recv_len, received
vars == <<buffer, recv_len, received>>

\* The value of a digit: what atoi() makes of a field that starts with it.
Digit == [d \in {"0", "1", "2", "5", "9"} |->
            CASE d = "0" -> 0 [] d = "1" -> 1 [] d = "2" -> 2 [] d = "5" -> 5 [] d = "9" -> 9]

ASSUME TextAssumption ==
  /\ {NUL, CR} \cap Letters = {} /\ Keys \cup Values \subseteq DOMAIN Digit
  /\ Patterns \subseteq Seq(STRING) \ {<<>>}
  /\ BUFFER_SIZE \in Nat \ {0} /\ MaxNoise \in Nat /\ MaxPairs \in Nat

-----------------------------------------------------------------------------
(* misc.c                                                                  *)

\* The first position from i on that has another character, or the end.
AfterSeps(t, i, sep) ==
  Min({j \in i..(Len(t) + 1) : j = Len(t) + 1 \/ t[j] # sep} \cup {Len(t) + 1})

\* The first position from i on that has the character, or the end.
NextSep(t, i, sep) ==
  Min({j \in i..Len(t) : t[j] = sep} \cup {Len(t) + 1})

\* Mutant: a separator at the end counts as a further line.
CountAll(t, sep) ==
  IF t = <<>> THEN 0 ELSE 1 + Cardinality({i \in DOMAIN t : t[i] = sep})

\* A run of separators counts one line more, if anything follows it.
count_lines(t, sep) ==
  LET more[i \in 1..(Len(t) + 1)] ==
        IF i > Len(t) THEN 0
        ELSE IF t[i] # sep THEN more[i + 1]
        ELSE LET j == AfterSeps(t, i, sep)
             IN  (IF j <= Len(t) THEN 1 ELSE 0) + more[j]
  IN  IF t = <<>> THEN 0 ELSE 1 + more[1]

split(inp, sep) ==
  LET t == SubSeq(inp, AfterSeps(inp, 1, sep), Len(inp))
      start[k \in 1..(Len(t) + 1)] ==
        IF k = 1 THEN 1 ELSE AfterSeps(t, NextSep(t, start[k - 1], sep) + 1, sep)
  IN  [k \in 1..count_lines(t, sep) |->
         SubSeq(t, start[k], NextSep(t, start[k], sep) - 1)]

\* Where find begins in the first slen characters of the buffer; 0 for NULL.
strstrPastEnd(find, slen) ==   \* Mutant: the rest may lie beyond slen.
  LET from[s \in 0..slen] ==
        IF s = slen \/ buffer[s + 1] = NUL THEN 0
        ELSE IF IsPrefix(find, SubSeq(buffer, s + 1, Len(buffer))) THEN s + 1
        ELSE from[s + 1]
  IN  from[0]

_ble_strstr(find, slen) ==
  LET from[s \in 0..slen] ==
        IF s = slen \/ buffer[s + 1] = NUL THEN 0
        ELSE IF buffer[s + 1] # Head(find) THEN from[s + 1]
        ELSE IF Len(find) - 1 > slen - (s + 1) THEN 0
        ELSE IF SubSeq(buffer, s + 2, s + Len(find)) = Tail(find) THEN s + 1
        ELSE from[s + 1]
  IN  from[0]

\* Blanks at the end are looked for from the terminating NUL on.
CharAt(s, i) == IF i \in DOMAIN s THEN s[i] ELSE NUL

Trailing(s) ==
  CHOOSE a \in 0..Len(s) : CharAt(s, Len(s) + 1 - a) # Blank
                           /\ \A b \in 0..(a - 1) : CharAt(s, Len(s) + 1 - b) = Blank

CutShort(s) ==   \* Mutant: what is copied ends where it would without blanks in front.
  LET before == AfterSeps(s, 1, Blank) - 1
  IN  SubSeq(s, before + 1, Len(s) - (before + Trailing(s)))

str_trim_and_dup(s) ==
  LET before == AfterSeps(s, 1, Blank) - 1
      new_len == Len(s) - (before + Trailing(s))
  IN  SubSeq(s, before + 1, before + new_len)

-----------------------------------------------------------------------------
(* _ble_on_socket_data_is_pending(): the answer to AT+IPHONEACCEV.         *)

\* The first pair whose key begins with '1' tells the level; 0 when none does.
Level(t) ==
  LET c == split(t, Comma)
      at == {i \in 2..(Len(c) - 1) : i % 2 = 0 /\ c[i][1] = "1"}
  IN  IF at = {} THEN 0 ELSE (Digit[c[Min(at) + 1][1]] + 1) * 10

\* How a device writes its pairs: their number (any digit will do here, no
\* code reads it), then key and value of each.
Format(ps) ==
  <<"2">> \o FlattenSeq([i \in DOMAIN ps |-> <<Comma, ps[i].key, Comma, ps[i].value>>])
          \o <<CR>>

Pairs == [key : Keys, value : Values]
Formatted == {Format(ps) : ps \in UNION {[1..n -> Pairs] : n \in 1..MaxPairs}}
Noise == UNION {[1..n -> Letters] : n \in 1..MaxNoise}

\* Mutant: the message is not terminated.
ReceiveUnterminated(msg) ==
  LET n == IF Len(msg) < BUFFER_SIZE THEN Len(msg) ELSE BUFFER_SIZE IN
    /\ recv_len' = n
    /\ buffer' = [i \in 1..(BUFFER_SIZE + 1) |-> IF i <= n THEN msg[i] ELSE buffer[i]]

\* recv(): what does not fit is left for the next call.  A message with a
\* comma is then terminated, for strchr() and split().
Receive(msg) ==
  LET n == IF Len(msg) < BUFFER_SIZE THEN Len(msg) ELSE BUFFER_SIZE IN
    /\ recv_len' = n
    /\ buffer' = [i \in 1..(BUFFER_SIZE + 1) |->
                    IF i <= n THEN msg[i]
                    ELSE IF i = n + 1 /\ Comma \in ToSet(SubSeq(msg, 1, n)) THEN NUL
                    ELSE buffer[i]]

Init ==
  /\ buffer = [i \in 1..(BUFFER_SIZE + 1) |-> NUL]
  /\ recv_len = 0 /\ received = 0

Next ==
  \E msg \in Formatted \cup Noise :
    /\ received < MaxRecv /\ received' = received + 1
    /\ Receive(msg)

Spec == Init /\ [][Next]_vars

-----------------------------------------------------------------------------
\* The text of the last message, and what strchr() and split() take for it:
\* the buffer up to its first NUL.
Text == SubSeq(buffer, 1, recv_len)
CString == SubSeq(buffer, 1, NextSep(buffer, 1, NUL) - 1)

\* The level told for the message, 0 for none: without a comma it is not
\* looked into.
Told == IF Comma \in ToSet(Text) THEN Level(CString) ELSE 0

\* _ble_strstr() finds the first occurrence in the message, and none that
\* only the rest of an earlier message completes (misc.c:67-86).
FindsInMessage ==
  \A find \in Patterns :
    LET at == {i \in 1..(recv_len + 1 - Len(find)) :
                 SubSeq(buffer, i, i + Len(find) - 1) = find}
    IN  _ble_strstr(find, recv_len) = IF at = {} THEN 0 ELSE Min(at)

\* split() gives the maximal runs between separators, in order: what it
\* counts first is what it cuts afterwards, wherever separators stand
\* (misc.c:9-60).
SplitGivesRuns ==
  LET Runs == {r \in (1..recv_len) \X (1..recv_len) :
                 /\ r[1] <= r[2]
                 /\ \A i \in r[1]..r[2] : Text[i] # Comma
                 /\ r[1] > 1 => Text[r[1] - 1] = Comma
                 /\ r[2] < recv_len => Text[r[2] + 1] = Comma}
      upTo(r) == Cardinality({q \in Runs : q[1] <= r[1]})
      parts == split(Text, Comma)
  IN  /\ Len(parts) = Cardinality(Runs)
      /\ \A r \in Runs : parts[upTo(r)] = SubSeq(Text, r[1], r[2])

\* Trimming takes blanks away and nothing else, and leaves none in front: the
\* address that is searched for and printed is the one that was typed
\* (misc.c:88-108).
TrimsOnlyBlanks ==
  LET rest == str_trim_and_dup(Text) IN
    /\ \E n, m \in 0..recv_len :
         Text = [i \in 1..n |-> Blank] \o rest \o [i \in 1..m |-> Blank]
    /\ rest # <<>> => rest[1] # Blank

\* The level told is that of the first pair with key 1, whatever the other
\* pairs and values are and whatever an earlier, longer message left in the
\* buffer behind this one (battery_level_engine.c:279-301).
LevelOfFirstPair ==
  \A n \in 1..MaxPairs : \A ps \in [1..n -> Pairs] :
    Text = Format(ps) =>
      LET at == {i \in 1..n : ps[i].key = "1"}
      IN  Told = IF at = {} THEN 0 ELSE (Digit[ps[Min(at)].value] + 1) * 10
=============================================================================
