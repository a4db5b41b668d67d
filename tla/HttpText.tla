------------------------------ MODULE HttpText ------------------------------
(***************************************************************************)
(* The text functions of socket/socket-server-http-select.cpp: strip(),    *)
(* splitstr() and the request parser built from them, as functions of a    *)
(* text, a sequence of characters; and the text itself, put together chunk *)
(* by chunk from an alphabet, so that a run covers every text of up to so  *)
(* many chunks of each of its alphabets.  A loop is a function of the      *)
(* number of its turns.                                                    *)
(*                                                                         *)
(* C++ counts from 0 and TLA+ from 1; a count that would be negative wraps *)
(* to a huge size_t, for which substr() returns the rest of the string.    *)
(***************************************************************************)
EXTENDS Integers, FiniteSets, Sequences, SequencesExt, FiniteSetsExt

CONSTANTS
  Chars,      \* the characters of texts
  Alphabets,  \* what texts are put together from, and of how many chunks
  Files       \* resources that exist under bin/static

ASSUME AlphabetsAssumption ==
  \A a \in Alphabets :
    a.max \in Nat /\ \A k \in a.chunks : k \in Seq(Chars) /\ Len(k) > 0

VARIABLES
  alphabet,  \* the one the text is put together from
  chunks,    \* of how many chunks so far
  text       \* what has come of it

CR == "\r"
LF == "\n"
CRLF == <<CR, LF>>

TextInit == alphabet \in Alphabets /\ chunks = 0 /\ text = <<>>
TextNext ==
  /\ chunks < alphabet.max /\ chunks' = chunks + 1
  /\ \E k \in alphabet.chunks : text' = text \o k
  /\ UNCHANGED alphabet
textVars == <<alphabet, chunks, text>>
TextSpec == TextInit /\ [][TextNext]_textVars

-----------------------------------------------------------------------------
(* strip() and splitstr().                                                 *)

Substr(s, pos, n) == IF n < 0 THEN SubSeq(s, pos, Len(s))
                     ELSE SubSeq(s, pos, pos + n - 1)

Blank == {" ", LF, CR, "\t"}
Solid(s) == {i \in DOMAIN s : s[i] \notin Blank}

StripKeepsFront(s) ==
  LET end == IF Solid(s) = {} THEN 0 ELSE Max(Solid(s))
  IN Substr(s, 1, end)

(* strip(s, true).  The first character that is not blank sets start and   *)
(* not end: end is that of a later one, or -1.                             *)
Strip(s) ==
  LET start == IF Solid(s) = {} THEN 1 ELSE Min(Solid(s))
      end == IF Cardinality(Solid(s)) < 2 THEN 0 ELSE Max(Solid(s))
  IN Substr(s, start, end - start + 1)

SplitTurnKeepsSeparator(s, sep, st, i) ==
  IF st.left = 0 THEN st
  ELSE IF Len(st.window) < Len(sep) THEN [st EXCEPT !.window = Append(@, s[i])]
  ELSE LET slid == [st EXCEPT !.window = Append(Tail(@), s[i])] IN
       IF st.window # sep THEN slid
       ELSE [slid EXCEPT
               !.fields = Append(@, Substr(s, st.last, i - st.last)),
               !.last = i,
               !.left = IF @ > 0 THEN @ - 1 ELSE @]

(* One turn of splitstr()'s loop: st.window holds the last characters, as  *)
(* many as the separator has.  It is compared before the next is taken in, *)
(* so that a separator at the very end is not seen, and is not emptied     *)
(* after a match, so that the next one may overlap it.                     *)
SplitTurn(s, sep, st, i) ==
  IF st.left = 0 THEN st
  ELSE IF Len(st.window) < Len(sep) THEN [st EXCEPT !.window = Append(@, s[i])]
  ELSE LET slid == [st EXCEPT !.window = Append(Tail(@), s[i])] IN
       IF st.window # sep THEN slid
       ELSE [slid EXCEPT
               !.fields = Append(@, Substr(s, st.last, i - st.last - Len(sep))),
               !.last = i,
               !.left = IF @ > 0 THEN @ - 1 ELSE @]

SplitStart(n) == [window |-> <<>>, last |-> 1, fields |-> <<>>, left |-> n]

(* The loop after i turns.                                                 *)
SplitLoop(s, sep, n) ==
  LET st[i \in 0..Len(s)] ==
        IF i = 0 THEN SplitStart(n) ELSE SplitTurn(s, sep, st[i - 1], i)
  IN st

(* splitstr(): at most n splits, or all for a negative n. *)
Split(s, sep, n) ==
  LET end == SplitLoop(s, sep, n)[Len(s)]
  IN Append(end.fields, Substr(s, end.last, -1))

-----------------------------------------------------------------------------
(* The parser.                                                             *)

Host == <<"H", "o">>

PairSplitsAll(line) == Split(Strip(line), <<":">>, -1)

Pair(line) == Split(Strip(line), <<":">>, 1)

(* parse_http_request_header().  It sets the method and the target before  *)
(* it looks at the fields; until then the method is what the stack held.   *)
(* Of several fields of a name the first one counts.                       *)
ParseHeader(head) ==
  LET lines == Split(head, CRLF, -1)
      words == Split(lines[1], <<" ">>, -1)
      started == Len(lines) >= 3 /\ Len(words) >= 3
      target == Split(words[2], <<"?">>, 1)
      fields == {i \in 2..Len(lines) : Strip(lines[i]) # <<>>}
      hosts == {i \in fields : Strip(Pair(lines[i])[1]) = Host}
      ok == started /\ \A i \in fields : Len(Pair(lines[i])) >= 2
  IN [ok |-> ok,
      methods |-> IF started THEN {words[1]} ELSE {<<"G">>, <<"P">>, <<"X">>},
      resource |-> IF started THEN target[1] ELSE <<>>,
      querystring |-> IF started /\ Len(target) > 1 THEN target[2] ELSE <<>>,
      host |-> IF ok /\ hosts # {}
                 THEN Strip(Pair(lines[Min(hosts)])[2]) ELSE <<>>]

(* parse_http_request(): a body is taken only from exactly two parts. *)
ParseRequest(s) ==
  LET parts == Split(s, CRLF \o CRLF, -1)
  IN [header |-> ParseHeader(parts[1]),
      body |-> IF Len(parts) = 2 THEN parts[2] ELSE <<>>]

(* make_http_response(), whether the parser refused the request or not:    *)
(* the status codes that can come of it.                                   *)
StatusCodes(req) ==
  {CASE m = <<"G">> -> IF req.header.resource \in Files \cup {<<"/">>} THEN 200 ELSE 404
     [] m = <<"P">> -> 200
     [] OTHER -> 501 : m \in req.header.methods}

-----------------------------------------------------------------------------
(* What the functions are meant to be.                                     *)

Trim(s) == IF Solid(s) = {} THEN <<>> ELSE SubSeq(s, Min(Solid(s)), Max(Solid(s)))

Occurrences(sep, s) ==
  {i \in 1..(Len(s) - Len(sep) + 1) : SubSeq(s, i, i + Len(sep) - 1) = sep}

Overlaps(sep, s) ==
  \E i, j \in Occurrences(sep, s) : i < j /\ j < i + Len(sep)

Join(fields, sep) ==
  LET joined[i \in 1..Len(fields)] ==
        IF i = 1 THEN fields[1] ELSE joined[i - 1] \o sep \o fields[i]
  IN joined[Len(fields)]

(* A request: lines, each named by the place of the line end behind it, an *)
(* empty line, and a body with no empty line in it.                        *)
EmptyLines(s) == Occurrences(CRLF \o CRLF, s)
Body(s) == SubSeq(s, Min(EmptyLines(s)) + 4, Len(s))

Lines(s) == {b \in Occurrences(CRLF, s) : b <= Min(EmptyLines(s))}
LineStart(s, b) == Max({1} \cup {a + 2 : a \in {a \in Lines(s) : a < b}})
LineAt(s, b) == SubSeq(s, LineStart(s, b), b - 1)
StartLine(s) == LineAt(s, Min(Lines(s)))
Fields(s) == Lines(s) \ {Min(Lines(s))}

(* The start line is a method, a target and a version.  The target has a   *)
(* resource and may have a query behind a question mark.                   *)
Marks(c, l) == {i \in DOMAIN l : l[i] = c}
Before(c, l) == IF Marks(c, l) = {} THEN l ELSE SubSeq(l, 1, Min(Marks(c, l)) - 1)
Behind(c, l) == IF Marks(c, l) = {} THEN <<>> ELSE SubSeq(l, Min(Marks(c, l)) + 1, Len(l))

Target(l) == Before(" ", Behind(" ", l))
IsStartLine(l) ==
  /\ Cardinality(Marks(" ", l)) = 2 /\ Last(l) # " "
  /\ Target(l) # <<>> => Last(Target(l)) # "?"

(* A field has a name, a colon and a value of two or more characters that  *)
(* are not blank.                                                          *)
IsField(l) == Marks(":", l) # {} /\ Cardinality(Solid(Behind(":", l))) > 1

(* One field is enough without a body, two are needed with one.            *)
WellFormed(s) ==
  /\ Cardinality(EmptyLines(s)) = 1
  /\ IsStartLine(StartLine(s))
  /\ \A b \in Fields(s) : IsField(LineAt(s, b))
  /\ Cardinality(Fields(s)) >= IF Body(s) = <<>> THEN 1 ELSE 2

-----------------------------------------------------------------------------
(* Properties.                                                             *)

(* strip() removes the blank characters of both ends (its comment, lines   *)
(* 57 to 62).                                                              *)
StripTrims == Strip(text) = Trim(text)

(* It does so of every text but one with a single character that is not    *)
(* blank: that one is lost when it comes first, and otherwise keeps the    *)
(* blanks behind it.                                                       *)
StripTrimsWords(s) ==
  IF Cardinality(Solid(s)) # 1 THEN Strip(s) = Trim(s)
  ELSE Strip(s) = IF Solid(s) = {1} THEN <<>> ELSE SubSeq(s, Min(Solid(s)), Len(s))

(* splitstr() loses nothing: its fields joined by the separator are the    *)
(* text, there are at most n + 1 of them, and none but the last contains a *)
(* separator, nor does that when all are split, but at its end.  Unless    *)
(* the separator overlaps itself in the text, as three line ends in a row  *)
(* do with the empty line between head and body.                           *)
SplitRejoins(s, sep, n) ==
  LET fields == Split(s, sep, n) IN
  ~Overlaps(sep, s) =>
    /\ Join(fields, sep) = s
    /\ n > 0 => Len(fields) <= n + 1
    /\ \A i \in 1..(Len(fields) - 1) : Occurrences(sep, fields[i]) = {}
    /\ n < 0 => Occurrences(sep, Last(fields)) \subseteq
                  {Len(Last(fields)) - Len(sep) + 1}

Separators == {<<":">>, <<" ">>, CRLF, CRLF \o CRLF}

(* Both helpers, on every text.                                            *)
StringsFaithful ==
  /\ StripTrimsWords(text)
  /\ \A sep \in Separators : \A n \in {-1, 1, 2} : SplitRejoins(text, sep, n)

(* A well-formed request is taken for what it is: no field line makes the  *)
(* parser refuse it, the method, the resource and the query are those of   *)
(* its start line, the host is the one its first Host field names, its     *)
(* body is complete, and its status is determined.                         *)
ParsesFaithfully(s) ==
  LET req == ParseRequest(s)
      hosts == {b \in Fields(s) : Trim(Before(":", LineAt(s, b))) = Host}
  IN /\ req.header.ok
     /\ req.header.methods = {Before(" ", StartLine(s))}
     /\ req.header.resource = Before("?", Target(StartLine(s)))
     /\ req.header.querystring = Behind("?", Target(StartLine(s)))
     /\ req.header.host = IF hosts = {} THEN <<>>
                          ELSE Trim(Behind(":", LineAt(s, Min(hosts))))
     /\ req.body = Body(s)
     /\ Cardinality(StatusCodes(req)) = 1

ParsedFaithfully == WellFormed(text) => ParsesFaithfully(text)
=============================================================================
