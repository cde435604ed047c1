------------------------------ MODULE PgArray -------------------------------
(***************************************************************************)
(* The codec of text[] columns (internal/store/postgres/pgarray.go): Value *)
(* writes an array literal, Scan reads one.  A string is a sequence of     *)
(* characters; of the ASCII characters only those are told apart that the  *)
(* codec tells apart ("CR" stands for the white space that TrimSpace cuts  *)
(* off and quoteArrayElement does not know).                               *)
(***************************************************************************)
EXTENDS Integers, Sequences, FiniteSetsExt

Special == {"{", "}", ",", "\"", "\\"}
Blank == {" ", "TAB", "LF"}
Space == Blank \cup {"CR"}

\* strings.EqualFold(s, "NULL")
IsNULL(s) == Len(s) = 4 /\ s[1] \in {"N", "n"} /\ s[2] \in {"U", "u"}
                        /\ \A i \in 3..4 : s[i] \in {"L", "l"}

TrimSpace(s) ==
  LET kept == {i \in DOMAIN s : s[i] \notin Space} IN
  IF kept = {} THEN <<>> ELSE SubSeq(s, Min(kept), Max(kept))

\* What a strings.Builder holds after the parts were written to it.
Concat(parts) ==
  LET upTo[i \in 0..Len(parts)] == IF i = 0 THEN <<>> ELSE upTo[i - 1] \o parts[i]
  IN  upTo[Len(parts)]

-----------------------------------------------------------------------------
(* Value.                                                                  *)

Escape(c) == IF c \in {"\"", "\\"} THEN <<"\\", c>> ELSE <<c>>

quoteArrayElement(s) ==
  IF s = <<>> \/ Range(s) \cap (Special \cup Blank) # {}
  THEN <<"\"">> \o Concat([i \in DOMAIN s |-> Escape(s[i])]) \o <<"\"">>
  ELSE s

\* strings.Join(elems, ",")
Join(elems) ==
  Concat([i \in DOMAIN elems |-> IF i = 1 THEN elems[i] ELSE <<",">> \o elems[i]])

Value(a) == <<"{">> \o Join([i \in DOMAIN a |-> quoteArrayElement(a[i])]) \o <<"}">>

-----------------------------------------------------------------------------
(* Scan.  Its result is <<elements>>, or <<>> for an error.                *)

Start == [result |-> <<>>, current |-> <<>>, inQuote |-> FALSE, escaped |-> FALSE,
          quoted |-> FALSE, err |-> FALSE]

flush(st) ==
  LET val == IF st.quoted THEN st.current ELSE TrimSpace(st.current) IN
  IF ~st.quoted /\ IsNULL(val)
  THEN [st EXCEPT !.err = TRUE]
  ELSE [st EXCEPT !.result = Append(@, val), !.current = <<>>, !.quoted = FALSE]

\* Mutant: a comma inside quotes ends the element.
parseChar_split(st, c) ==
  IF st.err THEN st
  ELSE IF st.escaped THEN [st EXCEPT !.current = Append(@, c), !.escaped = FALSE]
  ELSE CASE c = "\\" -> [st EXCEPT !.escaped = TRUE]
         [] c = "\"" -> [st EXCEPT !.inQuote = ~@, !.quoted = TRUE]
         [] c = "," -> flush(st)
         [] OTHER -> [st EXCEPT !.current = Append(@, c)]

\* One iteration of the loop.
parseChar(st, c) ==
  IF st.err THEN st
  ELSE IF st.escaped THEN [st EXCEPT !.current = Append(@, c), !.escaped = FALSE]
  ELSE CASE c = "\\" -> [st EXCEPT !.escaped = TRUE]
         [] c = "\"" -> [st EXCEPT !.inQuote = ~@, !.quoted = TRUE]
         [] c = "," /\ ~st.inQuote -> flush(st)
         [] OTHER -> [st EXCEPT !.current = Append(@, c)]

parseArrayElements(s) ==
  LET loop[i \in 0..Len(s)] == IF i = 0 THEN Start ELSE parseChar(loop[i - 1], s[i])
      st == loop[Len(s)]
      last == IF st.err THEN st ELSE flush(st)
  IN IF last.err THEN <<>> ELSE <<last.result>>

Scan(src) ==
  LET s == TrimSpace(src) IN
  IF s = <<"{", "}">> THEN <<<<>>>>
  ELSE IF Len(s) < 2 \/ s[1] # "{" \/ s[Len(s)] # "}" THEN <<>>
  ELSE parseArrayElements(SubSeq(s, 2, Len(s) - 1))

-----------------------------------------------------------------------------
\* Written as it is, without quotes.
Bare(s) == s # <<>> /\ Range(s) \cap (Special \cup Blank) = {}

\* Scan reads back what Value writes, element by element, whatever commas,
\* quotes, braces and blanks the elements hold; but an element that spells
\* NULL, which Value does not quote, makes it refuse the array, and a bare
\* element loses the white space around it that Value does not take for such.
RoundTrip(a) ==
  Scan(Value(a)) =
    IF \E i \in DOMAIN a : Bare(a[i]) /\ IsNULL(TrimSpace(a[i])) THEN <<>>
    ELSE <<[i \in DOMAIN a |-> IF Bare(a[i]) THEN TrimSpace(a[i]) ELSE a[i]]>>
=============================================================================
