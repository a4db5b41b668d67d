----------------------------- MODULE MCHttpText -----------------------------
(* Texts of single characters, for the functions on strings; and requests  *)
(* put together from lines, for the parser.                                *)
EXTENDS HttpText

MCChars == {"G", "H", "P", "V", "X", "a", "b", "k", "o", "q", "v", "w",
            "/", "?", ":", " ", CR, LF}

Letters == {<<c>> : c \in {"a", ":", " ", CR, LF}}

LinesOfRequests == {
  <<"G", " ", "/", "?", "q", " ", "V", CR, LF>>,
  <<"X", " ", "/", " ", "V", CR, LF>>,
  <<"H", "o", ":", " ", "v", ":", "w", CR, LF>>,
  <<"k", "k", ":", "v", "w", " ", CR, LF>>,
  <<"k", "k", ":", CR, LF>>,
  CRLF,
  <<"b">>}

Letter == [chunks |-> Letters, max |-> 6]
Line == [chunks |-> LinesOfRequests, max |-> 5]
MCAlphabets == {Letter, Line}
ShortAlphabets == {[Letter EXCEPT !.max = 3]}
NoFiles == {}
============================================================================
