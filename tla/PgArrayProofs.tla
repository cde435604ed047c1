--------------------------- MODULE PgArrayProofs ----------------------------
(***************************************************************************)
(* Proofs about the codec of the text[] columns of the keys that are       *)
(* listed: for any strings, Scan gives back what Value was given.          *)
(***************************************************************************)
EXTENDS KeyListing, SequenceTheorems, WellFoundedInduction, TLAPS

-----------------------------------------------------------------------------
(* Concat.                                                                 *)

\* A set of naturals with 0, and with every successor of its elements, is Nat.
LEMMA SetInduction ==
  ASSUME NEW T \in SUBSET Nat, 0 \in T, \A n \in T : n + 1 \in T
  PROVE  T = Nat
<1> SUFFICES ASSUME T # Nat PROVE FALSE
  BY Zenon
<1> DEFINE R == {ss \in Nat \X Nat : ss[1] < ss[2]}  U == Nat \ T
<1>1. IsWellFoundedOn(R, Nat)
  BY NatLessThanWellFounded, Zenon DEF OpToRel
<1>2. U \subseteq Nat /\ U # {}
  BY Zenon
<1>3. PICK x \in U : \A y \in U : ~(<<y, x>> \in R)
  <2> HIDE DEF R, U
  <2> QED BY <1>1, <1>2, WFMin, Zenon
<1>4. x \in Nat /\ x # 0 /\ x - 1 \in Nat /\ x - 1 < x /\ (x - 1) + 1 = x
  BY <1>3
<1>5. x - 1 \notin U
  BY <1>3, <1>4, Zenon
<1> QED BY <1>3, <1>4, <1>5, Zenon

IsConcat(f, parts, n, C) ==
  /\ f \in [0..n -> Seq(C)] /\ f[0] = <<>>
  /\ \A i \in 1..n : f[i] = f[i - 1] \o parts[i]

\* The partial results of Concat exist up to every length.
LEMMA PartialResults ==
  ASSUME NEW C, NEW parts \in Seq(Seq(C))
  PROVE  \E f : IsConcat(f, parts, Len(parts), C)
<1> DEFINE n == Len(parts)
           T == {k \in Nat : k > n \/ \E f : IsConcat(f, parts, k, C)}
<1>0. n \in Nat /\ \A i \in 1..n : parts[i] \in Seq(C)
  OBVIOUS
<1> HIDE DEF n
<1>1. 0 \in T
  <2> DEFINE f == [i \in 0..0 |-> <<>>]
  <2>1. 0 \in Nat /\ 0 \in 0..0 /\ 1..0 = {} /\ <<>> \in Seq(C)
    OBVIOUS
  <2>2. IsConcat(f, parts, 0, C)
    BY <2>1, Zenon DEF IsConcat
  <2> HIDE DEF f
  <2> QED BY <2>1, <2>2, Zenon
<1>2. ASSUME NEW k \in T PROVE k + 1 \in T
  <2>0. k \in Nat /\ k + 1 \in Nat
    OBVIOUS
  <2>1. CASE k + 1 > n
    BY <2>0, <2>1, Zenon
  <2>2. CASE ~(k + 1 > n)
    <3>1. ~(k > n) /\ k + 1 \in 1..n
      BY <1>0, <2>0, <2>2
    <3>2. PICK g : IsConcat(g, parts, k, C)
      BY <3>1, Zenon
    <3> DEFINE f == [i \in 0..(k + 1) |-> IF i = k + 1 THEN g[k] \o parts[k + 1] ELSE g[i]]
    <3>3. /\ k \in 0..k /\ k + 1 \in 0..(k + 1) /\ (k + 1) - 1 = k /\ 0 \in 0..k
          /\ \A i \in 0..(k + 1) : i # k + 1 => i \in 0..k
          /\ \A i \in 0..k : i \in 0..(k + 1) /\ i # k + 1
          /\ \A i \in 1..(k + 1) : i # k + 1 => i \in 1..k /\ i \in 0..k /\ i - 1 \in 0..k
      BY <2>0
    <3>4. g[k] \o parts[k + 1] \in Seq(C)
      BY <1>0, <3>1, <3>2, <3>3, ConcatProperties, Zenon DEF IsConcat
    <3>5. f \in [0..(k + 1) -> Seq(C)]
      BY <3>2, <3>3, <3>4, Zenon DEF IsConcat
    <3>6. f[k + 1] = g[k] \o parts[k + 1] /\ \A i \in 0..k : f[i] = g[i]
      BY <3>3, Zenon
    <3> HIDE DEF f
    <3>7. ASSUME NEW i \in 1..(k + 1) PROVE f[i] = f[i - 1] \o parts[i]
      <4>1. CASE i = k + 1
        BY <3>3, <3>6, <4>1, Zenon
      <4>2. CASE i # k + 1
        BY <3>2, <3>3, <3>6, <4>2, Zenon DEF IsConcat
      <4> QED BY <4>1, <4>2, Zenon
    <3>8. IsConcat(f, parts, k + 1, C)
      BY <3>2, <3>3, <3>5, <3>6, <3>7, Zenon DEF IsConcat
    <3> QED BY <2>0, <3>8, Zenon
  <2> QED BY <2>1, <2>2, Zenon
<1> HIDE DEF T
<1>3. n \in T
  <2>1. T \in SUBSET Nat
    BY Zenon DEF T
  <2> QED BY <1>0, <1>1, <1>2, <2>1, SetInduction, Zenon
<1>4. ~(n > n)
  BY <1>0
<1> QED BY <1>3, <1>4, Zenon DEF T, n

\* Concat joins the parts one by one.
LEMMA ConcatParts ==
  ASSUME NEW C, NEW parts \in Seq(Seq(C))
  PROVE  \E f : IsConcat(f, parts, Len(parts), C) /\ Concat(parts) = f[Len(parts)]
<1> DEFINE n == Len(parts)
           g == CHOOSE g : g = [i \in 0..n |-> IF i = 0 THEN <<>> ELSE g[i - 1] \o parts[i]]
<1>0. n \in Nat /\ n \in 0..n /\ 0 \in 0..n /\ \A i \in 0..n : i # 0 <=> i \in 1..n
  OBVIOUS
<1>1. PICK f : IsConcat(f, parts, n, C)
  BY PartialResults, Zenon
<1>2. Concat(parts) = g[n]
  BY Zenon DEF Concat
<1>3. g = [i \in 0..n |-> IF i = 0 THEN <<>> ELSE g[i - 1] \o parts[i]]
  <2> HIDE DEF n
  <2>1. f = [i \in 0..n |-> IF i = 0 THEN <<>> ELSE f[i - 1] \o parts[i]]
    BY <1>0, <1>1, Zenon DEF IsConcat
  <2> QED BY <2>1, Zenon
<1> HIDE DEF g, n
<1>4. g[0] = <<>> /\ \A i \in 1..n : g[i] = g[i - 1] \o parts[i]
  <2>1. \A i \in 1..n : i \in 0..n /\ i # 0
    BY <1>0
  <2> QED BY <1>0, <1>3, <2>1, Zenon
<1> DEFINE U == {k \in Nat : k > n \/ g[k] = f[k]}
<1>5. 0 \in U
  BY <1>0, <1>1, <1>4, Zenon DEF IsConcat
<1>6. ASSUME NEW k \in U PROVE k + 1 \in U
  <2>1. k \in Nat /\ k + 1 \in Nat /\ (k + 1) - 1 = k
    OBVIOUS
  <2>2. ASSUME ~(k + 1 > n) PROVE g[k + 1] = f[k + 1]
    <3>1. ~(k > n) /\ k + 1 \in 1..n
      BY <1>0, <2>1, <2>2
    <3>2. g[k + 1] = g[(k + 1) - 1] \o parts[k + 1] /\ f[k + 1] = f[(k + 1) - 1] \o parts[k + 1]
      BY <1>1, <1>4, <3>1, Zenon DEF IsConcat
    <3> QED BY <2>1, <3>1, <3>2, Zenon
  <2> QED BY <2>1, <2>2, Zenon
<1> HIDE DEF U
<1>7. n \in U
  <2>1. U \in SUBSET Nat
    BY Zenon DEF U
  <2> QED BY <1>0, <1>5, <1>6, <2>1, SetInduction, Zenon
<1>8. g[n] = f[n]
  <2>1. ~(n > n)
    BY <1>0
  <2> QED BY <1>7, <2>1, Zenon DEF U
<1> QED BY <1>1, <1>2, <1>8, Zenon DEF n

-----------------------------------------------------------------------------
(* The loop of parseArrayElements.                                         *)

IsRun(f, st, w) ==
  /\ f = [i \in 0..Len(w) |-> f[i]] /\ f[0] = st
  /\ \A i \in 1..Len(w) : f[i] = parseChar(f[i - 1], w[i])

\* The iterations over w lead from st to x.
Runs(st, w, x) == \E f : IsRun(f, st, w) /\ f[Len(w)] = x

\* One character takes one iteration.
LEMMA RunChar ==
  ASSUME NEW st, NEW c
  PROVE  Runs(st, <<c>>, parseChar(st, c))
<1> DEFINE f == [i \in 0..1 |-> IF i = 0 THEN st ELSE parseChar(st, c)]
<1>1. Len(<<c>>) = 1 /\ <<c>>[1] = c /\ 0 \in 0..1 /\ 1 \in 0..1 /\ 1 # 0
  OBVIOUS
<1>2. f = [i \in 0..1 |-> f[i]] /\ f[0] = st /\ f[1] = parseChar(st, c)
  BY <1>1, Zenon
<1> HIDE DEF f
<1>3. ASSUME NEW i \in 1..1 PROVE f[i] = parseChar(f[i - 1], <<c>>[i])
  <2>1. i = 1 /\ i - 1 = 0
    OBVIOUS
  <2> QED BY <1>1, <1>2, <2>1, Zenon
<1>4. IsRun(f, st, <<c>>) /\ f[Len(<<c>>)] = parseChar(st, c)
  BY <1>1, <1>2, <1>3, Zenon DEF IsRun
<1> QED BY <1>4, Zenon DEF Runs

\* No character takes none.
LEMMA RunNone ==
  ASSUME NEW st
  PROVE  Runs(st, <<>>, st)
<1> DEFINE f == [i \in 0..0 |-> st]
<1>1. Len(<<>>) = 0 /\ 0 \in 0..0 /\ 1..0 = {}
  OBVIOUS
<1>2. IsRun(f, st, <<>>) /\ f[Len(<<>>)] = st
  BY <1>1, Zenon DEF IsRun
<1> HIDE DEF f
<1> QED BY <1>2, Zenon DEF Runs

\* The iterations over two words follow each other.
LEMMA RunThen ==
  ASSUME NEW C, NEW u \in Seq(C), NEW v \in Seq(C), NEW st, NEW x, NEW y,
         Runs(st, u, x), Runs(x, v, y)
  PROVE  Runs(st, u \o v, y)
<1> DEFINE m == Len(u)  n == Len(v)  w == u \o v
<1>1. PICK f : IsRun(f, st, u) /\ f[m] = x
  BY Zenon DEF Runs
<1>2. PICK g : IsRun(g, x, v) /\ g[n] = y
  BY Zenon DEF Runs
<1>3. m \in Nat /\ n \in Nat
  OBVIOUS
<1>4. /\ w \in Seq(C) /\ Len(w) = m + n
      /\ \A i \in 1..m : w[i] = u[i]
      /\ \A i \in 1..n : w[m + i] = v[i]
  <2>1. w \in Seq(C) /\ Len(w) = m + n
    BY ConcatProperties, Zenon
  <2>2. \A i \in 1..m : w[i] = u[i]
    OBVIOUS
  <2>3. \A i \in 1..n : w[m + i] = v[i]
    OBVIOUS
  <2> QED BY <2>1, <2>2, <2>3, Zenon
<1>5. /\ f[0] = st /\ \A i \in 1..m : f[i] = parseChar(f[i - 1], u[i])
      /\ g[0] = x /\ \A i \in 1..n : g[i] = parseChar(g[i - 1], v[i])
  BY <1>1, <1>2, Zenon DEF IsRun
<1> DEFINE h == [i \in 0..(m + n) |-> IF i <= m THEN f[i] ELSE g[i - m]]
<1> HIDE DEF m, n, w
<1>6. \A i \in 0..m : h[i] = f[i]
  <2>1. \A i \in 0..m : i \in 0..(m + n) /\ i <= m
    BY <1>3
  <2> QED BY <2>1, Zenon
<1>7. \A i \in 0..n : h[m + i] = g[i]
  <2> SUFFICES ASSUME NEW i \in 0..n PROVE h[m + i] = g[i]
    BY Zenon
  <2>1. CASE i = 0
    <3>1. m + i = m /\ m \in 0..m
      BY <1>3, <2>1
    <3> QED BY <1>1, <1>5, <1>6, <2>1, <3>1, Zenon
  <2>2. CASE i # 0
    <3>1. m + i \in 0..(m + n) /\ ~(m + i <= m) /\ (m + i) - m = i
      BY <1>3, <2>2
    <3> QED BY <3>1, Zenon
  <2> QED BY <2>1, <2>2, Zenon
<1>8. h = [i \in 0..(m + n) |-> h[i]]
  BY Zenon
<1> HIDE DEF h
<1>9. ASSUME NEW i \in 1..(m + n) PROVE h[i] = parseChar(h[i - 1], w[i])
  <2>1. CASE i <= m
    <3>1. i \in 1..m /\ i \in 0..m /\ i - 1 \in 0..m
      BY <1>3, <2>1
    <3> QED BY <1>4, <1>5, <1>6, <3>1, Zenon
  <2>2. CASE ~(i <= m)
    <3>1. PICK k \in 1..n : i = m + k
      <4>1. i - m \in 1..n /\ i = m + (i - m)
        BY <1>3, <2>2
      <4> QED BY <4>1, Zenon
    <3>2. k \in 0..n /\ k - 1 \in 0..n /\ i - 1 = m + (k - 1)
      BY <1>3, <3>1
    <3>3. h[i] = g[k] /\ h[i - 1] = g[k - 1] /\ w[i] = v[k]
      BY <1>4, <1>7, <3>1, <3>2, Zenon
    <3> QED BY <1>5, <3>3, Zenon
  <2> QED BY <2>1, <2>2, Zenon
<1>10. h[0] = st /\ h[m + n] = y
  <2>1. 0 \in 0..m /\ n \in 0..n
    BY <1>3
  <2> QED BY <1>2, <1>5, <1>6, <1>7, <2>1, Zenon
<1>11. IsRun(h, st, w) /\ h[Len(w)] = y
  BY <1>4, <1>8, <1>9, <1>10, Zenon DEF IsRun
<1> QED BY <1>11, Zenon DEF Runs, w

\* The loop is that run.
LEMMA RunResult ==
  ASSUME NEW C, NEW s \in Seq(C), NEW x, Runs(Start, s, x), NEW last,
         last = IF x.err THEN x ELSE flush(x)
  PROVE  parseArrayElements(s) = IF last.err THEN <<>> ELSE <<last.result>>
<1> DEFINE n == Len(s)
           g == CHOOSE g : g = [i \in 0..n |-> IF i = 0 THEN Start ELSE parseChar(g[i - 1], s[i])]
<1>0. n \in Nat
  OBVIOUS
<1>1. PICK f : IsRun(f, Start, s) /\ f[n] = x
  BY Zenon DEF Runs
<1>2. f = [i \in 0..n |-> f[i]] /\ f[0] = Start /\ \A i \in 1..n : f[i] = parseChar(f[i - 1], s[i])
  BY <1>1, Zenon DEF IsRun
<1>3. parseArrayElements(s) = LET st == g[n]
                                  end == IF st.err THEN st ELSE flush(st)
                              IN  IF end.err THEN <<>> ELSE <<end.result>>
  BY Zenon DEF parseArrayElements
<1>4. g = [i \in 0..n |-> IF i = 0 THEN Start ELSE parseChar(g[i - 1], s[i])]
  <2>1. f = [i \in 0..n |-> IF i = 0 THEN Start ELSE parseChar(f[i - 1], s[i])]
    <3>1. \A i \in 0..n : i # 0 => i \in 1..n
      BY <1>0
    <3> HIDE DEF n
    <3> QED BY <1>2, <3>1, Zenon
  <2> QED BY <2>1, Zenon
<1> HIDE DEF g, n
<1>5. g[0] = Start /\ \A i \in 1..n : g[i] = parseChar(g[i - 1], s[i])
  <2>1. 0 \in 0..n /\ \A i \in 1..n : i \in 0..n /\ i # 0
    BY <1>0
  <2> QED BY <1>4, <2>1, Zenon
<1> DEFINE U == {k \in Nat : k \in 0..n => g[k] = f[k]}
<1>6. U \in SUBSET Nat /\ 0 \in U
  BY <1>2, <1>5, Zenon
<1>7. ASSUME NEW k \in U PROVE k + 1 \in U
  <2>1. k \in Nat /\ k + 1 \in Nat /\ (k + 1) - 1 = k
    OBVIOUS
  <2>2. ASSUME k + 1 \in 0..n PROVE g[k + 1] = f[k + 1]
    <3>1. k \in 0..n /\ k + 1 \in 1..n
      BY <1>0, <2>1, <2>2
    <3>2. g[k] = f[k]
      BY <3>1, Zenon
    <3>3. g[k + 1] = parseChar(g[(k + 1) - 1], s[k + 1]) /\ f[k + 1] = parseChar(f[(k + 1) - 1], s[k + 1])
      BY <1>2, <1>5, <3>1, Zenon
    <3> QED BY <2>1, <3>2, <3>3, Zenon
  <2> QED BY <2>1, <2>2, Zenon
<1> HIDE DEF U
<1>8. n \in U
  BY <1>0, <1>6, <1>7, SetInduction, Zenon
<1>9. g[n] = x
  <2>1. n \in 0..n
    BY <1>0
  <2> QED BY <1>1, <1>8, <2>1, Zenon DEF U
<1> QED BY <1>3, <1>9, Zenon

-----------------------------------------------------------------------------
(* Reading what quoteArrayElement writes.                                  *)

Reading(r, cur, inQuote, quoted) ==
  [result |-> r, current |-> cur, inQuote |-> inQuote, escaped |-> FALSE, quoted |-> quoted, err |-> FALSE]

\* The iterations on a character, by where it stands.
LEMMA CharSteps ==
  ASSUME NEW r, NEW cur, NEW c
  PROVE  /\ c \notin {"\"", "\\"} =>
              parseChar(Reading(r, cur, TRUE, TRUE), c) = Reading(r, Append(cur, c), TRUE, TRUE)
         /\ parseChar(parseChar(Reading(r, cur, TRUE, TRUE), "\\"), c) = Reading(r, Append(cur, c), TRUE, TRUE)
         /\ parseChar(Reading(r, cur, FALSE, FALSE), "\"") = Reading(r, cur, TRUE, TRUE)
         /\ parseChar(Reading(r, cur, TRUE, TRUE), "\"") = Reading(r, cur, FALSE, TRUE)
         /\ c \notin {"\"", "\\", ","} =>
              parseChar(Reading(r, cur, FALSE, FALSE), c) = Reading(r, Append(cur, c), FALSE, FALSE)
<1> DEFINE new == Append(cur, c)
           Q == Reading(r, cur, TRUE, TRUE)
           E == [result |-> r, current |-> cur, inQuote |-> TRUE, escaped |-> TRUE, quoted |-> TRUE, err |-> FALSE]
<1>1. c \notin {"\"", "\\"} => parseChar(Q, c) = Reading(r, new, TRUE, TRUE)
  BY Zenon DEF parseChar, Reading
<1>2. parseChar(Q, "\\") = E
  BY Zenon DEF parseChar, Reading
<1>3. parseChar(E, c) = Reading(r, new, TRUE, TRUE)
  BY Zenon DEF parseChar, Reading
<1>4. parseChar(Reading(r, cur, FALSE, FALSE), "\"") = Reading(r, cur, TRUE, TRUE)
  BY Zenon DEF parseChar, Reading
<1>5. parseChar(Q, "\"") = Reading(r, cur, FALSE, TRUE)
  BY Zenon DEF parseChar, Reading
<1>6. c \notin {"\"", "\\", ","} =>
        parseChar(Reading(r, cur, FALSE, FALSE), c) = Reading(r, new, FALSE, FALSE)
  BY Zenon DEF parseChar, Reading
<1> QED BY <1>1, <1>2, <1>3, <1>4, <1>5, <1>6, Zenon

\* Words of one and of two characters.
LEMMA ShortWords ==
  ASSUME NEW C, NEW a \in C, NEW b \in C
  PROVE  <<a>> \in Seq(C) /\ <<a, b>> \in Seq(C) /\ <<a>> \o <<b>> = <<a, b>>
<1> DEFINE u == <<a>> \o <<b>>  v == <<a, b>>
<1>1. <<a>> \in Seq(C) /\ <<b>> \in Seq(C)
  OBVIOUS
<1>2. u \in Seq(C) /\ Len(u) = 2 /\ u[1] = a /\ u[2] = b
  BY <1>1
<1>3. v \in Seq(C) /\ Len(v) = 2 /\ v[1] = a /\ v[2] = b
  OBVIOUS
<1> HIDE DEF u, v
<1>4. u \in [1..2 -> C] /\ v \in [1..2 -> C] /\ \A i \in 1..2 : i = 1 \/ i = 2
  BY <1>2, <1>3
<1>5. u = v
  BY <1>2, <1>3, <1>4
<1> QED BY <1>1, <1>3, <1>5, Zenon DEF u, v

\* A character within quotes is read back however it is escaped.
LEMMA EscapedChar ==
  ASSUME NEW C, Special \subseteq C, NEW r, NEW cur, NEW c \in C
  PROVE  /\ Escape(c) \in Seq(C)
         /\ Runs(Reading(r, cur, TRUE, TRUE), Escape(c), Reading(r, Append(cur, c), TRUE, TRUE))
<1> DEFINE Q == Reading(r, cur, TRUE, TRUE)  N == Reading(r, Append(cur, c), TRUE, TRUE)
<1>0. /\ <<"\\">> \in Seq(C) /\ <<c>> \in Seq(C) /\ <<"\\">> \o <<c>> = <<"\\", c>>
      /\ <<"\\", c>> \in Seq(C)
  <2>1. "\\" \in C
    BY Zenon DEF Special
  <2> QED BY <2>1, ShortWords, Zenon
<1>1. CASE c \in {"\"", "\\"}
  <2>1. Escape(c) = <<"\\", c>>
    BY <1>1, Zenon DEF Escape
  <2>2. parseChar(parseChar(Q, "\\"), c) = N
    BY CharSteps, Zenon
  <2>3. Runs(Q, <<"\\">>, parseChar(Q, "\\")) /\ Runs(parseChar(Q, "\\"), <<c>>, N)
    <3> HIDE DEF Q, N
    <3>1. Runs(Q, <<"\\">>, parseChar(Q, "\\"))
      BY RunChar, Zenon
    <3>2. Runs(parseChar(Q, "\\"), <<c>>, parseChar(parseChar(Q, "\\"), c))
      BY RunChar, Zenon
    <3> QED BY <2>2, <3>1, <3>2, Zenon
  <2>4. Runs(Q, <<"\\">> \o <<c>>, N)
    <3> HIDE DEF Q, N
    <3> QED BY <1>0, <2>3, RunThen, Zenon
  <2> HIDE DEF Q, N
  <2>5. Runs(Q, Escape(c), N) /\ Escape(c) \in Seq(C)
    BY <1>0, <2>1, <2>4, Zenon
  <2> QED BY <2>5, Zenon DEF Q, N
<1>2. CASE c \notin {"\"", "\\"}
  <2>1. Escape(c) = <<c>>
    BY <1>2, Zenon DEF Escape
  <2>2. parseChar(Q, c) = N
    BY <1>2, CharSteps, Zenon
  <2> HIDE DEF Q, N
  <2>3. Runs(Q, <<c>>, parseChar(Q, c))
    BY RunChar, Zenon
  <2>4. Runs(Q, Escape(c), N) /\ Escape(c) \in Seq(C)
    BY <1>0, <2>1, <2>2, <2>3, Zenon
  <2> QED BY <2>4, Zenon DEF Q, N
<1> QED BY <1>1, <1>2, Zenon

\* A prefix and one more character.
LEMMA OneMore ==
  ASSUME NEW C, NEW s \in Seq(C), NEW k \in Nat, k + 1 <= Len(s)
  PROVE  /\ SubSeq(s, 1, k) \in Seq(C) /\ s[k + 1] \in C
         /\ SubSeq(s, 1, k + 1) = Append(SubSeq(s, 1, k), s[k + 1])
         /\ SubSeq(s, 1, k + 1) = SubSeq(s, 1, k) \o <<s[k + 1]>>
         /\ SubSeq(s, 1, 0) = <<>> /\ SubSeq(s, 1, Len(s)) = s
<1>1. SubSeq(s, 1, k) \in Seq(C) /\ s[k + 1] \in C
  OBVIOUS
<1>2. SubSeq(s, 1, k + 1) = Append(SubSeq(s, 1, k), s[k + 1])
  OBVIOUS
<1>3. SubSeq(s, 1, k + 1) = SubSeq(s, 1, k) \o <<s[k + 1]>>
  OBVIOUS
<1>4. SubSeq(s, 1, 0) = <<>> /\ SubSeq(s, 1, Len(s)) = s
  OBVIOUS
<1> QED BY <1>1, <1>2, <1>3, <1>4, Zenon

\* A word within quotes is read back.
LEMMA EscapedWord ==
  ASSUME NEW C, Special \subseteq C, NEW r, NEW s \in Seq(C)
  PROVE  LET w == Concat([i \in DOMAIN s |-> Escape(s[i])])
         IN  w \in Seq(C) /\ Runs(Reading(r, <<>>, TRUE, TRUE), w, Reading(r, s, TRUE, TRUE))
<1> DEFINE n == Len(s)  parts == [i \in DOMAIN s |-> Escape(s[i])]  w == Concat(parts)
           Q(cur) == Reading(r, cur, TRUE, TRUE)
<1>0. n \in Nat /\ DOMAIN s = 1..n /\ \A i \in 1..n : s[i] \in C
  OBVIOUS
<1>1. parts \in Seq(Seq(C)) /\ Len(parts) = n /\ \A i \in 1..n : parts[i] = Escape(s[i])
  <2>1. \A i \in 1..n : Escape(s[i]) \in Seq(C)
    BY <1>0, EscapedChar, Zenon
  <2>2. parts \in [1..n -> Seq(C)] /\ \A i \in 1..n : parts[i] = Escape(s[i])
    BY <1>0, <2>1, Zenon
  <2> HIDE DEF parts
  <2> QED BY <1>0, <2>2
<1> HIDE DEF parts
<1>2. PICK f : IsConcat(f, parts, n, C) /\ w = f[n]
  BY <1>1, ConcatParts, Zenon
<1> HIDE DEF n, w, Q
<1> DEFINE T == {k \in Nat : k > n \/ Runs(Q(<<>>), f[k], Q(SubSeq(s, 1, k)))}
<1>3. 0 \in T
  <2>1. 0 \in Nat /\ SubSeq(s, 1, 0) = <<>>
    OBVIOUS
  <2> QED BY <1>2, <2>1, RunNone, Zenon DEF IsConcat
<1>4. ASSUME NEW k \in T PROVE k + 1 \in T
  <2>0. k \in Nat /\ k + 1 \in Nat /\ (k + 1) - 1 = k
    OBVIOUS
  <2>1. CASE k + 1 > n
    BY <2>0, <2>1, Zenon
  <2>2. CASE ~(k + 1 > n)
    <3>1. ~(k > n) /\ k + 1 \in 1..n /\ k \in 0..n /\ k + 1 <= Len(s)
      BY <1>0, <2>0, <2>2 DEF n
    <3>2. Runs(Q(<<>>), f[k], Q(SubSeq(s, 1, k)))
      BY <3>1, Zenon
    <3>3. f[k + 1] = f[k] \o Escape(s[k + 1]) /\ f[k] \in Seq(C)
      BY <1>1, <1>2, <2>0, <3>1, Zenon DEF IsConcat
    <3>4. SubSeq(s, 1, k + 1) = Append(SubSeq(s, 1, k), s[k + 1])
      BY <2>0, <3>1, OneMore, ZenonT(30)
    <3>5. /\ Escape(s[k + 1]) \in Seq(C)
          /\ Runs(Q(SubSeq(s, 1, k)), Escape(s[k + 1]), Q(SubSeq(s, 1, k + 1)))
      BY <1>0, <3>1, <3>4, EscapedChar, Zenon DEF Q
    <3>6. Runs(Q(<<>>), f[k + 1], Q(SubSeq(s, 1, k + 1)))
      BY <3>2, <3>3, <3>5, RunThen, Zenon
    <3> QED BY <2>0, <3>6, Zenon
  <2> QED BY <2>1, <2>2, Zenon
<1> HIDE DEF T
<1>5. n \in T
  <2>1. T \in SUBSET Nat
    BY Zenon DEF T
  <2> QED BY <1>0, <1>3, <1>4, <2>1, SetInduction, Zenon
<1>6. ~(n > n) /\ n \in 0..n /\ SubSeq(s, 1, n) = s
  BY <1>0 DEF n
<1>7. Runs(Q(<<>>), w, Q(s)) /\ w \in Seq(C)
  BY <1>2, <1>5, <1>6, Zenon DEF T, IsConcat
<1> QED BY <1>7, Zenon DEF w, parts, Q

Plain(c) == c \notin {"\"", "\\", ","}

\* The iteration on such a character outside quotes.
LEMMA PlainChar ==
  ASSUME NEW r, NEW cur, NEW c, Plain(c)
  PROVE  parseChar(Reading(r, cur, FALSE, FALSE), c) = Reading(r, Append(cur, c), FALSE, FALSE)
<1> DEFINE new == Append(cur, c)
<1>1. parseChar(Reading(r, cur, FALSE, FALSE), c) = Reading(r, new, FALSE, FALSE)
  BY Zenon DEF parseChar, Reading, Plain
<1> QED BY <1>1, Zenon

\* A word without special characters is read back.
LEMMA BareWord ==
  ASSUME NEW C, Special \subseteq C, NEW r, NEW s \in Seq(C), \A i \in 1..Len(s) : Plain(s[i])
  PROVE  Runs(Reading(r, <<>>, FALSE, FALSE), s, Reading(r, s, FALSE, FALSE))
<1> DEFINE n == Len(s)  U(cur) == Reading(r, cur, FALSE, FALSE)
           T == {k \in Nat : k > n \/ Runs(U(<<>>), SubSeq(s, 1, k), U(SubSeq(s, 1, k)))}
<1>0. n \in Nat /\ \A i \in 1..n : s[i] \in C /\ Plain(s[i])
  OBVIOUS
<1> HIDE DEF n, U
<1>1. T \in SUBSET Nat
  BY Zenon
<1>2. 0 \in T
  <2>1. 0 \in Nat /\ SubSeq(s, 1, 0) = <<>>
    OBVIOUS
  <2> QED BY <2>1, RunNone, Zenon
<1>3. ASSUME NEW k \in T PROVE k + 1 \in T
  <2>0. k \in Nat /\ k + 1 \in Nat
    OBVIOUS
  <2>1. CASE k + 1 > n
    BY <2>0, <2>1, Zenon
  <2>2. CASE ~(k + 1 > n)
    <3>1. ~(k > n) /\ k + 1 \in 1..n /\ k + 1 <= Len(s)
      BY <1>0, <2>0, <2>2 DEF n
    <3>2. Runs(U(<<>>), SubSeq(s, 1, k), U(SubSeq(s, 1, k)))
      BY <3>1, Zenon
    <3> DEFINE c == s[k + 1]  p == SubSeq(s, 1, k)  q == SubSeq(s, 1, k + 1)
    <3>3. p \in Seq(C) /\ c \in C /\ q = Append(p, c) /\ q = p \o <<c>>
      BY <2>0, <3>1, OneMore, ZenonT(30)
    <3>4. Plain(c)
      BY <1>0, <3>1, Zenon
    <3> HIDE DEF c, p, q
    <3>5. parseChar(U(p), c) = U(q)
      <4>1. parseChar(Reading(r, p, FALSE, FALSE), c) = Reading(r, Append(p, c), FALSE, FALSE)
        BY <3>4, PlainChar, Zenon
      <4> QED BY <3>3, <4>1, Zenon DEF U
    <3>6. Runs(U(p), <<c>>, U(q))
      BY <3>5, RunChar, Zenon
    <3>7. <<c>> \in Seq(C)
      BY <3>3, ShortWords, Zenon
    <3>8. Runs(U(<<>>), q, U(q))
      BY <3>2, <3>3, <3>6, <3>7, RunThen, Zenon DEF p
    <3> QED BY <2>0, <3>8, Zenon DEF q
  <2> QED BY <2>1, <2>2, Zenon
<1> HIDE DEF T
<1>4. n \in T
  BY <1>0, <1>1, <1>2, <1>3, SetInduction, Zenon
<1>5. ~(n > n) /\ SubSeq(s, 1, n) = s
  BY <1>0 DEF n
<1> QED BY <1>4, <1>5, Zenon DEF T, U

Kept(x) == IF Bare(x) THEN TrimSpace(x) ELSE x
Refused(x) == Bare(x) /\ IsNULL(TrimSpace(x))

\* What flush makes of an element.
LEMMA Flushed ==
  ASSUME NEW r, NEW x
  PROVE  LET st == Reading(r, x, FALSE, ~Bare(x))
         IN  /\ parseChar(st, ",") = flush(st)
             /\ Refused(x) => flush(st).err
             /\ ~Refused(x) => flush(st) = Reading(Append(r, Kept(x)), <<>>, FALSE, FALSE)
<1> DEFINE st == Reading(r, x, FALSE, ~Bare(x))  N == Reading(Append(r, Kept(x)), <<>>, FALSE, FALSE)
<1>1. parseChar(st, ",") = flush(st)
  <2> DEFINE b == ~Bare(x)
  <2> HIDE DEF b
  <2>1. parseChar(Reading(r, x, FALSE, b), ",") = flush(Reading(r, x, FALSE, b))
    BY Zenon DEF parseChar, Reading
  <2> QED BY <2>1, Zenon DEF b
<1>2. CASE Bare(x)
  <2> DEFINE t == TrimSpace(x)  q == Reading(r, x, FALSE, FALSE)
  <2>1. st = q /\ Kept(x) = t /\ (Refused(x) <=> IsNULL(t))
    BY <1>2, Zenon DEF Kept, Refused
  <2>2. IsNULL(t) => flush(q).err
    BY Zenon DEF flush, Reading
  <2>3. ~IsNULL(t) => flush(q) = Reading(Append(r, t), <<>>, FALSE, FALSE)
    BY Zenon DEF flush, Reading
  <2> HIDE DEF q, t
  <2>4. (Refused(x) => flush(st).err) /\ (~Refused(x) => flush(st) = N)
    BY <2>1, <2>2, <2>3, Zenon
  <2> QED BY <1>1, <2>4, Zenon
<1>3. CASE ~Bare(x)
  <2> DEFINE q == Reading(r, x, FALSE, TRUE)
  <2>1. st = q /\ Kept(x) = x /\ ~Refused(x)
    BY <1>3, Zenon DEF Kept, Refused
  <2>2. flush(q) = Reading(Append(r, x), <<>>, FALSE, FALSE)
    BY Zenon DEF flush, Reading
  <2> HIDE DEF q
  <2>3. flush(st) = N
    BY <2>1, <2>2, Zenon
  <2> QED BY <1>1, <2>1, <2>3, Zenon
<1> QED BY <1>2, <1>3, Zenon

\* After an error nothing changes.
LEMMA ErrorStays ==
  ASSUME NEW C, NEW w \in Seq(C), NEW x, x.err
  PROVE  Runs(x, w, x)
<1> DEFINE n == Len(w)  f == [i \in 0..n |-> x]
<1>1. /\ n \in Nat /\ n \in 0..n /\ 0 \in 0..n
      /\ \A i \in 1..n : i \in 0..n /\ i - 1 \in 0..n
  OBVIOUS
<1>2. \A c : parseChar(x, c) = x
  BY Zenon DEF parseChar
<1>3. IsRun(f, x, w) /\ f[n] = x
  <2> HIDE DEF n
  <2>1. f = [i \in 0..n |-> f[i]] /\ f[0] = x /\ f[n] = x /\ \A i \in 1..n : f[i] = x /\ f[i - 1] = x
    BY <1>1, Zenon
  <2> HIDE DEF f
  <2>2. \A i \in 1..n : f[i] = parseChar(f[i - 1], w[i])
    BY <1>2, <2>1, Zenon
  <2> QED BY <2>1, <2>2, Zenon DEF IsRun, n
<1> HIDE DEF f
<1> QED BY <1>3, Zenon DEF Runs

\* An element is read back as it was written, with or without quotes.
LEMMA Element ==
  ASSUME NEW C, Special \subseteq C, NEW r, NEW s \in Seq(C)
  PROVE  LET w == quoteArrayElement(s)
         IN  /\ w \in Seq(C) /\ Len(w) # 0
             /\ Runs(Reading(r, <<>>, FALSE, FALSE), w, Reading(r, s, FALSE, ~Bare(s)))
<1> DEFINE w == quoteArrayElement(s)
<1>1. CASE Bare(s)
  <2>1. w = s /\ s # <<>> /\ Range(s) \cap (Special \cup Blank) = {}
    BY <1>1, Zenon DEF Bare, quoteArrayElement
  <2>2. ASSUME NEW i \in 1..Len(s) PROVE Plain(s[i])
    <3>1. s[i] \in Range(s)
      <4>1. i \in DOMAIN s
        OBVIOUS
      <4> QED BY <4>1, Zenon DEF Range
    <3>2. s[i] \notin Special
      BY <2>1, <3>1, Zenon
    <3> QED BY <3>2, Zenon DEF Special, Plain
  <2>3. Runs(Reading(r, <<>>, FALSE, FALSE), s, Reading(r, s, FALSE, FALSE))
    BY <2>2, BareWord, Zenon
  <2>4. Len(s) # 0
    <3>1. s # <<>>
      BY <2>1, Zenon
    <3> QED BY <3>1
  <2>5. (~Bare(s)) = FALSE
    BY <1>1, Zenon
  <2> QED BY <2>1, <2>3, <2>4, <2>5, Zenon
<1>2. CASE ~Bare(s)
  <2> DEFINE m == Concat([i \in DOMAIN s |-> Escape(s[i])])  q == <<"\"">>
             A == Reading(r, <<>>, FALSE, FALSE)  B == Reading(r, <<>>, TRUE, TRUE)
             D == Reading(r, s, TRUE, TRUE)  E == Reading(r, s, FALSE, TRUE)
  <2>1. w = q \o m \o q
    BY <1>2, Zenon DEF Bare, quoteArrayElement
  <2>2. m \in Seq(C) /\ Runs(B, m, D)
    BY EscapedWord, Zenon
  <2>3. q \in Seq(C)
    <3>1. "\"" \in C
      BY Zenon DEF Special
    <3> QED BY <3>1, ShortWords, Zenon
  <2>4. Runs(A, q, B) /\ Runs(D, q, E)
    <3>1. parseChar(A, "\"") = B /\ parseChar(D, "\"") = E
      BY CharSteps, Zenon
    <3> HIDE DEF A, B, D, E
    <3> QED BY <3>1, RunChar, Zenon
  <2>5. Len(q) = 1
    <3> DEFINE a == "\""
    <3> HIDE DEF a
    <3>1. Len(<<a>>) = 1
      BY Zenon
    <3> QED BY <3>1, Zenon DEF a
  <2>6. (~Bare(s)) = TRUE
    BY <1>2, Zenon
  <2> HIDE DEF A, B, D, E, q, m, w
  <2>7. q \o m \in Seq(C) /\ Runs(A, q \o m, D)
    BY <2>2, <2>3, <2>4, RunThen, ConcatProperties, Zenon
  <2>8. w \in Seq(C) /\ Runs(A, w, E)
    BY <2>1, <2>3, <2>4, <2>7, RunThen, ConcatProperties, Zenon
  <2>9. Len(w) # 0
    <3>1. Len(q \o m) = Len(q) + Len(m) /\ Len(w) = Len(q \o m) + Len(q)
      BY <2>1, <2>2, <2>3, <2>7, ConcatProperties, Zenon
    <3>2. Len(m) \in Nat
      BY <2>2
    <3> QED BY <2>5, <3>1, <3>2
  <2> QED BY <2>6, <2>8, <2>9, Zenon DEF A, E, w
<1> QED BY <1>1, <1>2, Zenon

-----------------------------------------------------------------------------
(* Reading what Value writes.                                              *)

Results(a, k) == [j \in 1..k |-> Kept(a[j])]

\* One more result.
LEMMA ResultsGrow ==
  ASSUME NEW a, NEW k \in Nat
  PROVE  Results(a, k + 1) = Append(Results(a, k), Kept(a[k + 1])) /\ Results(a, 0) = <<>>
<1> DEFINE D == {Kept(a[j]) : j \in 1..(k + 1)}  p == Results(a, k)  e == Kept(a[k + 1])
           q == Append(p, e)  n == Results(a, k + 1)
<1>0. \A j \in 1..k : j \in 1..(k + 1)
  OBVIOUS
<1>1. p \in [1..k -> D] /\ \A j \in 1..k : p[j] = Kept(a[j])
  BY <1>0, Zenon DEF Results
<1>2. e \in D
  <2>1. k + 1 \in 1..(k + 1)
    OBVIOUS
  <2> QED BY <2>1, Zenon
<1>3. n \in [1..(k + 1) -> D] /\ \A j \in 1..(k + 1) : n[j] = Kept(a[j])
  BY Zenon DEF Results
<1>4. Results(a, 0) = <<>>
  <2>1. 1..0 = {}
    OBVIOUS
  <2>2. Results(a, 0) = [j \in {} |-> Kept(a[j])]
    BY <2>1, Zenon DEF Results
  <2>3. Results(a, 0) \in [1..0 -> {}]
    BY <2>1, <2>2, Zenon
  <2>4. Results(a, 0) \in Seq({}) /\ Len(Results(a, 0)) = 0
    <3> HIDE DEF D, p, e, q, n
    <3> QED BY <2>3
  <2> QED BY <2>4
<1> HIDE DEF D, p, e, n
<1>5. p \in Seq(D) /\ Len(p) = k
  BY <1>1
<1>6. q \in [1..(k + 1) -> D] /\ q[k + 1] = e /\ \A j \in 1..k : q[j] = p[j]
  <2>1. q \in Seq(D) /\ Len(q) = k + 1
    BY <1>2, <1>5
  <2>2. q[k + 1] = e
    BY <1>2, <1>5
  <2>3. \A j \in 1..k : q[j] = p[j]
    BY <1>2, <1>5
  <2> HIDE DEF q
  <2>4. q \in [1..(k + 1) -> D]
    BY <2>1
  <2> QED BY <2>2, <2>3, <2>4, Zenon
<1> HIDE DEF q
<1>7. \A j \in 1..(k + 1) : j = k + 1 \/ j \in 1..k
  OBVIOUS
<1>8. \A j \in 1..(k + 1) : q[j] = n[j]
  <2>1. n[k + 1] = e
    <3>1. k + 1 \in 1..(k + 1)
      OBVIOUS
    <3> QED BY <1>3, <3>1, Zenon DEF e
  <2>2. \A j \in 1..k : n[j] = p[j]
    BY <1>0, <1>1, <1>3, Zenon
  <2> QED BY <1>6, <1>7, <2>1, <2>2, Zenon
<1>9. q = n
  BY <1>3, <1>6, <1>8
<1> QED BY <1>4, <1>9, Zenon DEF n, p, e, q

\* Over w, the first k elements of a as Value writes them, the loop has flushed
\* all but the last of them, or has met one that it refuses.
ReadUpTo(a, w, k) ==
  /\ (\A j \in 1..(k - 1) : ~Refused(a[j])) =>
       Runs(Start, w, Reading(Results(a, k - 1), a[k], FALSE, ~Bare(a[k])))
  /\ (\E j \in 1..(k - 1) : Refused(a[j])) => \E x : x.err /\ Runs(Start, w, x)

\* A comma and one more element.
LEMMA NextElement ==
  ASSUME NEW C, Special \subseteq C, NEW a \in Seq(Seq(C)), NEW k \in Nat \ {0}, k + 1 <= Len(a),
         NEW w \in Seq(C), ReadUpTo(a, w, k)
  PROVE  LET v == w \o (<<",">> \o quoteArrayElement(a[k + 1]))
         IN  v \in Seq(C) /\ (Len(w) # 0 => Len(v) # 0) /\ ReadUpTo(a, v, k + 1)
<1> DEFINE s == a[k + 1]  e == quoteArrayElement(s)  comma == <<",">>  u == comma \o e  v == w \o u
           st == Reading(Results(a, k - 1), a[k], FALSE, ~Bare(a[k]))
<1>0. s \in Seq(C) /\ (k + 1) - 1 = k /\ (k - 1) + 1 = k /\ k - 1 \in Nat /\ k \in 1..k
  OBVIOUS
<1>1. comma \in Seq(C)
  <2>1. "," \in C
    BY Zenon DEF Special
  <2> QED BY <2>1, ShortWords, Zenon
<1> HIDE DEF s
<1>2. e \in Seq(C)
  BY <1>0, Element, Zenon
<1> HIDE DEF e, comma
<1>3. u \in Seq(C) /\ v \in Seq(C)
  <2>1. u \in Seq(C)
    BY <1>1, <1>2, ConcatProperties, Zenon
  <2> HIDE DEF u
  <2> QED BY <2>1, ConcatProperties, Zenon
<1>4. Len(w) # 0 => Len(v) # 0
  <2> HIDE DEF u
  <2>1. Len(v) = Len(w) + Len(u) /\ Len(w) \in Nat /\ Len(u) \in Nat
    BY <1>3
  <2> QED BY <2>1
<1>5. ASSUME \A j \in 1..k : ~Refused(a[j])
      PROVE  Runs(Start, v, Reading(Results(a, k), s, FALSE, ~Bare(s)))
  <2> DEFINE x == Reading(Results(a, k), <<>>, FALSE, FALSE)
             y == Reading(Results(a, k), s, FALSE, ~Bare(s))
  <2>1. \A j \in 1..(k - 1) : j \in 1..k
    OBVIOUS
  <2>2. Runs(Start, w, st)
    BY <1>5, <2>1, Zenon DEF ReadUpTo
  <2>3. parseChar(st, ",") = x
    <3>1. Results(a, k) = Append(Results(a, k - 1), Kept(a[k]))
      <4>1. Results(a, (k - 1) + 1) = Append(Results(a, k - 1), Kept(a[(k - 1) + 1]))
        BY <1>0, ResultsGrow, Zenon
      <4> QED BY <1>0, <4>1, Zenon
    <3>2. ~Refused(a[k])
      BY <1>0, <1>5, Zenon
    <3>3. parseChar(st, ",") = Reading(Append(Results(a, k - 1), Kept(a[k])), <<>>, FALSE, FALSE)
      BY <3>2, Flushed, Zenon
    <3> QED BY <3>1, <3>3, Zenon
  <2>4. Runs(st, comma, x)
    <3> HIDE DEF st, x
    <3> QED BY <2>3, RunChar, Zenon DEF comma
  <2>5. Runs(x, e, y)
    BY <1>0, Element, Zenon DEF e
  <2> HIDE DEF st, x, y
  <2>6. Runs(st, u, y)
    BY <1>1, <1>2, <2>4, <2>5, RunThen, Zenon
  <2> HIDE DEF u
  <2>7. Runs(Start, v, y)
    BY <1>3, <2>2, <2>6, RunThen, Zenon
  <2> QED BY <2>7, Zenon DEF y
<1>6. ASSUME NEW j \in 1..k, Refused(a[j])
      PROVE  \E x : x.err /\ Runs(Start, v, x)
  <2>1. CASE \E i \in 1..(k - 1) : Refused(a[i])
    <3>1. PICK x : x.err /\ Runs(Start, w, x)
      BY <2>1, Zenon DEF ReadUpTo
    <3> HIDE DEF u
    <3>2. Runs(x, u, x)
      BY <1>3, <3>1, ErrorStays, Zenon
    <3>3. Runs(Start, v, x)
      BY <1>3, <3>1, <3>2, RunThen, Zenon
    <3> QED BY <3>1, <3>3, Zenon
  <2>2. CASE \A i \in 1..(k - 1) : ~Refused(a[i])
    <3> DEFINE x == flush(st)
    <3>1. j = k
      <4>1. j \notin 1..(k - 1)
        BY <1>6, <2>2, Zenon
      <4> QED BY <4>1
    <3>2. Runs(Start, w, st)
      BY <2>2, Zenon DEF ReadUpTo
    <3>3. parseChar(st, ",") = x /\ x.err
      BY <1>6, <3>1, Flushed, Zenon
    <3> HIDE DEF st, x
    <3>4. Runs(st, comma, x)
      BY <3>3, RunChar, Zenon DEF comma
    <3>5. Runs(x, e, x)
      BY <1>2, <3>3, ErrorStays, Zenon
    <3>6. Runs(st, u, x)
      BY <1>1, <1>2, <3>4, <3>5, RunThen, Zenon
    <3> HIDE DEF u
    <3>7. Runs(Start, v, x)
      BY <1>3, <3>2, <3>6, RunThen, Zenon
    <3> QED BY <3>3, <3>7, Zenon
  <2> QED BY <2>1, <2>2, Zenon
<1> HIDE DEF v
<1>7. ReadUpTo(a, v, k + 1)
  BY <1>0, <1>5, <1>6, Zenon DEF ReadUpTo, s
<1> QED BY <1>3, <1>4, <1>7, Zenon DEF v, u, comma, e, s

\* The elements that Join puts together are read one by one.
LEMMA JoinedElements ==
  ASSUME NEW C, Special \subseteq C, NEW a \in Seq(Seq(C)), Len(a) # 0
  PROVE  LET w == Join([i \in DOMAIN a |-> quoteArrayElement(a[i])])
         IN  w \in Seq(C) /\ Len(w) # 0 /\ ReadUpTo(a, w, Len(a))
<1> DEFINE n == Len(a)  elems == [i \in DOMAIN a |-> quoteArrayElement(a[i])]
           Piece(i) == IF i = 1 THEN quoteArrayElement(a[i]) ELSE <<",">> \o quoteArrayElement(a[i])
           parts == [i \in 1..n |-> Piece(i)]  w == Join(elems)
<1>0. n \in Nat /\ n # 0 /\ DOMAIN a = 1..n /\ \A i \in 1..n : a[i] \in Seq(C)
  OBVIOUS
<1>1. w = Concat(parts)
  <2> HIDE DEF n
  <2>1. DOMAIN elems = 1..n /\ \A i \in 1..n : elems[i] = quoteArrayElement(a[i])
    BY <1>0, Zenon
  <2> HIDE DEF elems
  <2>2. [i \in DOMAIN elems |-> IF i = 1 THEN elems[i] ELSE <<",">> \o elems[i]] = parts
    BY <2>1, Zenon
  <2> HIDE DEF parts
  <2> QED BY <2>2, Zenon DEF Join
<1>2. \A i \in 1..n : Piece(i) \in Seq(C)
  <2>1. <<",">> \in Seq(C)
    <3>1. "," \in C
      BY Zenon DEF Special
    <3> QED BY <3>1, ShortWords, Zenon
  <2>2. \A i \in 1..n : quoteArrayElement(a[i]) \in Seq(C)
    BY <1>0, Element, Zenon
  <2>3. \A i \in 1..n : <<",">> \o quoteArrayElement(a[i]) \in Seq(C)
    BY <2>1, <2>2, ConcatProperties, Zenon
  <2> QED BY <2>2, <2>3, Zenon
<1> HIDE DEF n, w, elems
<1>3. parts \in [1..n -> Seq(C)] /\ \A i \in 1..n : parts[i] = Piece(i)
  BY <1>2, Zenon
<1> HIDE DEF parts, Piece
<1>4. parts \in Seq(Seq(C)) /\ Len(parts) = n
  BY <1>0, <1>3
<1>5. PICK f : IsConcat(f, parts, n, C) /\ w = f[n]
  BY <1>1, <1>4, ConcatParts, Zenon
<1> DEFINE T == {k \in Nat : k + 1 > n \/ (Len(f[k + 1]) # 0 /\ ReadUpTo(a, f[k + 1], k + 1))}
<1>6. T \in SUBSET Nat
  BY Zenon
<1>7. 0 \in T
  <2>1. 0 \in Nat /\ 0 + 1 = 1 /\ 1 \in 1..n /\ 1 - 1 = 0 /\ 1..0 = {}
    BY <1>0
  <2>2. f[1] = quoteArrayElement(a[1]) /\ a[1] \in Seq(C)
    <3>1. f[1] = <<>> \o parts[1]
      BY <1>5, <2>1, Zenon DEF IsConcat
    <3>2. parts[1] = quoteArrayElement(a[1]) /\ parts[1] \in Seq(C) /\ a[1] \in Seq(C)
      BY <1>0, <1>3, <2>1, Zenon DEF Piece
    <3> QED BY <3>1, <3>2, ConcatEmptySeq, Zenon
  <2>3. Start = Reading(<<>>, <<>>, FALSE, FALSE) /\ Results(a, 0) = <<>>
    BY <2>1, ResultsGrow, Zenon DEF Start, Reading
  <2>4. /\ Len(quoteArrayElement(a[1])) # 0
        /\ Runs(Reading(<<>>, <<>>, FALSE, FALSE), quoteArrayElement(a[1]), Reading(<<>>, a[1], FALSE, ~Bare(a[1])))
    BY <2>2, Element, Zenon
  <2>5. Len(f[1]) # 0 /\ Runs(Start, f[1], Reading(Results(a, 1 - 1), a[1], FALSE, ~Bare(a[1])))
    BY <2>1, <2>2, <2>3, <2>4, Zenon
  <2>6. ReadUpTo(a, f[1], 1)
    BY <2>1, <2>5, Zenon DEF ReadUpTo
  <2> QED BY <2>1, <2>5, <2>6, Zenon
<1>8. ASSUME NEW j \in T PROVE j + 1 \in T
  <2> DEFINE k == j + 1
  <2>0. j \in Nat /\ k \in Nat \ {0} /\ k \in Nat
    OBVIOUS
  <2>1. CASE k + 1 > n
    BY <2>0, <2>1, Zenon
  <2>2. CASE ~(k + 1 > n)
    <3>1. /\ ~(k > n) /\ k + 1 \in 1..n /\ k \in 0..n /\ k + 1 <= Len(a)
          /\ k + 1 # 1 /\ (k + 1) - 1 = k
      BY <1>0, <2>0, <2>2 DEF n
    <3>2. Len(f[k]) # 0 /\ ReadUpTo(a, f[k], k)
      BY <3>1, Zenon
    <3> HIDE DEF k
    <3>3. f[k + 1] = f[k] \o (<<",">> \o quoteArrayElement(a[k + 1])) /\ f[k] \in Seq(C)
      <4>1. f[k + 1] = f[k] \o parts[k + 1] /\ f[k] \in Seq(C)
        BY <1>5, <3>1, Zenon DEF IsConcat
      <4>2. parts[k + 1] = <<",">> \o quoteArrayElement(a[k + 1])
        BY <1>3, <3>1, Zenon DEF Piece
      <4> QED BY <4>1, <4>2, Zenon
    <3>4. Len(f[k + 1]) # 0 /\ ReadUpTo(a, f[k + 1], k + 1)
      BY <2>0, <3>1, <3>2, <3>3, NextElement, Zenon
    <3> QED BY <2>0, <3>4, Zenon DEF k
  <2> QED BY <2>1, <2>2, Zenon
<1> HIDE DEF T
<1>9. n - 1 \in T
  <2>1. n - 1 \in Nat
    BY <1>0
  <2> QED BY <1>6, <1>7, <1>8, <2>1, SetInduction, Zenon
<1>10. (n - 1) + 1 = n /\ ~(n > n) /\ n \in 0..n
  BY <1>0
<1>11. w \in Seq(C) /\ Len(w) # 0 /\ ReadUpTo(a, w, n)
  BY <1>5, <1>9, <1>10, Zenon DEF T, IsConcat
<1> QED BY <1>11, Zenon DEF w, elems, n

\* parseArrayElements on the elements that Join puts together.
LEMMA ElementsRead ==
  ASSUME NEW C, Special \subseteq C, NEW a \in Seq(Seq(C)), Len(a) # 0
  PROVE  parseArrayElements(Join([i \in DOMAIN a |-> quoteArrayElement(a[i])]))
           = IF \E i \in DOMAIN a : Refused(a[i]) THEN <<>> ELSE <<Results(a, Len(a))>>
<1> DEFINE n == Len(a)  w == Join([i \in DOMAIN a |-> quoteArrayElement(a[i])])
           st == Reading(Results(a, n - 1), a[n], FALSE, ~Bare(a[n]))
<1>0. n \in Nat /\ n \in 1..n /\ n - 1 \in Nat /\ (n - 1) + 1 = n /\ DOMAIN a = 1..n
  OBVIOUS
<1>1. w \in Seq(C) /\ ReadUpTo(a, w, n)
  BY JoinedElements, Zenon
<1> HIDE DEF n, w
<1>2. CASE \E i \in 1..(n - 1) : Refused(a[i])
  <2>1. PICK x : x.err /\ Runs(Start, w, x)
    BY <1>1, <1>2, Zenon DEF ReadUpTo
  <2>2. parseArrayElements(w) = IF x.err THEN <<>> ELSE <<x.result>>
    <3>1. x = IF x.err THEN x ELSE flush(x)
      BY <2>1, Zenon
    <3> QED BY <1>1, <2>1, <3>1, RunResult, Zenon
  <2>3. \A i \in 1..(n - 1) : i \in DOMAIN a
    BY <1>0
  <2>4. \E i \in DOMAIN a : Refused(a[i])
    BY <1>2, <2>3, Zenon
  <2> QED BY <2>1, <2>2, <2>4, Zenon DEF n, w
<1>3. CASE \A i \in 1..(n - 1) : ~Refused(a[i])
  <2>1. Runs(Start, w, st)
    BY <1>1, <1>3, Zenon DEF ReadUpTo
  <2>2. ~st.err
    BY Zenon DEF Reading
  <2> DEFINE x == flush(st)
  <2>3. parseArrayElements(w) = IF x.err THEN <<>> ELSE <<x.result>>
    <3> HIDE DEF st
    <3>1. x = IF st.err THEN st ELSE flush(st)
      BY <2>2, Zenon
    <3> HIDE DEF x
    <3> QED BY <1>1, <2>1, <3>1, RunResult, Zenon
  <2>4. (\E i \in DOMAIN a : Refused(a[i])) <=> Refused(a[n])
    <3>1. \A i \in DOMAIN a : i = n \/ i \in 1..(n - 1)
      BY <1>0
    <3> QED BY <1>0, <1>3, <3>1, Zenon
  <2>5. Refused(a[n]) => x.err
    BY Flushed, Zenon
  <2>6. ~Refused(a[n]) => ~x.err /\ x.result = Results(a, n)
    <3> SUFFICES ASSUME ~Refused(a[n]) PROVE ~x.err /\ x.result = Results(a, n)
      BY Zenon
    <3>1. x = Reading(Append(Results(a, n - 1), Kept(a[n])), <<>>, FALSE, FALSE)
      BY Flushed, Zenon
    <3>2. Results(a, n) = Append(Results(a, n - 1), Kept(a[n]))
      <4>1. Results(a, (n - 1) + 1) = Append(Results(a, n - 1), Kept(a[(n - 1) + 1]))
        BY <1>0, ResultsGrow, Zenon
      <4> QED BY <1>0, <4>1, Zenon
    <3>3. x = Reading(Results(a, n), <<>>, FALSE, FALSE)
      BY <3>1, <3>2, Zenon
    <3> HIDE DEF x
    <3>4. ~Reading(Results(a, n), <<>>, FALSE, FALSE).err /\ Reading(Results(a, n), <<>>, FALSE, FALSE).result = Results(a, n)
      BY Zenon DEF Reading
    <3> QED BY <3>3, <3>4, Zenon
  <2> HIDE DEF x
  <2> QED BY <2>3, <2>4, <2>5, <2>6, Zenon DEF n, w
<1> QED BY <1>2, <1>3, Zenon

\* The literal between its braces: TrimSpace leaves it alone.
LEMMA Enclosed ==
  ASSUME NEW C, Special \subseteq C, NEW j \in Seq(C)
  PROVE  LET v == <<"{">> \o j \o <<"}">>
         IN  /\ v \in Seq(C) /\ Len(v) = Len(j) + 2 /\ v[1] = "{" /\ v[Len(v)] = "}"
             /\ SubSeq(v, 2, Len(v) - 1) = j
             /\ TrimSpace(v) = v
<1> DEFINE o == "{"  c == "}"  v == <<o>> \o j \o <<c>>  n == Len(v)
<1>0. o \in C /\ c \in C
  BY Zenon DEF Special
<1>1. o \notin Space /\ c \notin Space
  BY Zenon DEF Space, Blank
<1> HIDE DEF o, c
<1>2. v \in Seq(C) /\ Len(v) = Len(j) + 2 /\ v[1] = o /\ v[Len(v)] = c /\ Len(j) \in Nat
  BY <1>0
<1>3. SubSeq(v, 2, Len(v) - 1) = j
  BY <1>0
<1> HIDE DEF v
<1>4. TrimSpace(v) = v
  <2> DEFINE kept == {i \in DOMAIN v : v[i] \notin Space}
  <2>1. n \in Nat /\ 1 \in 1..n /\ n \in 1..n /\ DOMAIN v = 1..n /\ \A i \in 1..n : 1 <= i /\ i <= n
    BY <1>2
  <2>2. 1 \in kept /\ n \in kept /\ \A i \in kept : i \in Int /\ 1 <= i /\ i <= n
    BY <1>1, <1>2, <2>1
  <2> HIDE DEF kept, n
  <2>3. Min(kept) = 1
    <3>1. \A x \in kept : (\A y \in kept : x <= y) <=> x = 1
      BY <2>2
    <3>2. \E x \in kept : \A y \in kept : x <= y
      BY <2>2, Zenon
    <3>3. Min(kept) \in kept /\ \A y \in kept : Min(kept) <= y
      BY <3>2, Zenon DEF Min
    <3> QED BY <3>1, <3>3, Zenon
  <2>4. Max(kept) = n
    <3>1. \A x \in kept : (\A y \in kept : x >= y) <=> x = n
      BY <2>1, <2>2
    <3>2. \E x \in kept : \A y \in kept : x >= y
      BY <2>2, <3>1, Zenon
    <3>3. Max(kept) \in kept /\ \A y \in kept : Max(kept) >= y
      BY <3>2, Zenon DEF Max
    <3> QED BY <3>1, <3>3, Zenon
  <2>5. kept # {}
    BY <2>2, Zenon
  <2>6. TrimSpace(v) = SubSeq(v, 1, n)
    BY <2>3, <2>4, <2>5, Zenon DEF TrimSpace, kept
  <2>7. SubSeq(v, 1, n) = v
    BY <1>2 DEF n
  <2> QED BY <2>6, <2>7, Zenon
<1> QED BY <1>2, <1>3, <1>4, Zenon DEF v, o, c

\* Sequences over a larger set.
LEMMA LargerSeq ==
  ASSUME NEW C, NEW D, C \subseteq D
  PROVE  Seq(C) \subseteq Seq(D)
<1> SUFFICES ASSUME NEW s \in Seq(C) PROVE s \in Seq(D)
  BY Zenon
<1>1. Len(s) \in Nat /\ s \in [1..Len(s) -> C]
  OBVIOUS
<1>2. s \in [1..Len(s) -> D]
  BY <1>1, Zenon
<1> QED BY <1>1, <1>2

\* Scan reads back every array of strings that Value has written, whatever
\* characters its elements are of, up to what RoundTrip excepts.
THEOREM ArraysRoundTrip ==
  ASSUME NEW S, NEW a \in Seq(Seq(S))
  PROVE  RoundTrip(a)
<1> DEFINE C == S \cup Special  n == Len(a)
           w == Join([i \in DOMAIN a |-> quoteArrayElement(a[i])])  v == Value(a)
<1>0. n \in Nat /\ DOMAIN a = 1..n /\ Special \subseteq C
  OBVIOUS
<1>1. a \in Seq(Seq(C))
  <2>1. Seq(S) \subseteq Seq(C)
    <3>1. S \subseteq C
      BY Zenon
    <3> HIDE DEF C
    <3> QED BY <3>1, LargerSeq, Zenon
  <2> HIDE DEF C
  <2> QED BY <2>1, LargerSeq, Zenon
<1> HIDE DEF C
<1>2. Results(a, n) = [i \in DOMAIN a |-> IF Bare(a[i]) THEN TrimSpace(a[i]) ELSE a[i]]
  <2> HIDE DEF n
  <2> QED BY <1>0, Zenon DEF Results, Kept
<1>3. v = <<"{">> \o w \o <<"}">>
  BY Zenon DEF Value
<1>4. CASE n = 0
  <2>1. a = <<>>
    BY <1>4
  <2>2. w = <<>>
    <3> DEFINE elems == [i \in DOMAIN a |-> quoteArrayElement(a[i])]
               parts == [i \in DOMAIN elems |-> IF i = 1 THEN elems[i] ELSE <<",">> \o elems[i]]
    <3>1. 1..0 = {} /\ 1..n = 1..0
      BY <1>4
    <3>2. DOMAIN elems = {}
      <4> HIDE DEF n
      <4> QED BY <1>0, <3>1, Zenon
    <3>3. parts \in [1..0 -> {}]
      <4> HIDE DEF elems
      <4> QED BY <3>1, <3>2, Zenon
    <3> HIDE DEF parts
    <3>4. Len(parts) = 0 /\ parts = <<>>
      BY <3>3
    <3>5. w = Concat(parts)
      BY Zenon DEF Join, parts
    <3>6. parts \in Seq(Seq(C))
      BY <3>4
    <3>7. PICK f : IsConcat(f, parts, 0, C) /\ Concat(parts) = f[0]
      BY <3>4, <3>6, ConcatParts, Zenon
    <3> QED BY <3>5, <3>7, Zenon DEF IsConcat
  <2> HIDE DEF w, v
  <2>3. v = <<"{", "}">>
    <3>1. "{" \in C /\ "}" \in C
      BY <1>0, Zenon DEF Special
    <3>2. <<"{">> \o <<>> = <<"{">>
      <4>1. <<"{">> \in Seq(C)
        BY <3>1, ShortWords, Zenon
      <4> QED BY <4>1, ConcatEmptySeq, Zenon
    <3>3. <<"{">> \o <<"}">> = <<"{", "}">>
      BY <3>1, ShortWords, Zenon
    <3> QED BY <1>3, <2>2, <3>2, <3>3, Zenon
  <2>4. TrimSpace(v) = v
    <3>1. w \in Seq(C)
      BY <2>2
    <3> QED BY <1>0, <1>3, <3>1, Enclosed, Zenon
  <2>5. Scan(v) = <<<<>>>>
    BY <2>3, <2>4, Zenon DEF Scan
  <2>6. Results(a, n) = <<>>
    BY <1>0, <1>4, ResultsGrow, Zenon
  <2>7. ~\E i \in DOMAIN a : Refused(a[i])
    <3>1. DOMAIN a = {}
      BY <1>0, <1>4
    <3> QED BY <3>1, Zenon
  <2> QED BY <1>2, <2>5, <2>6, <2>7, Zenon DEF RoundTrip, Refused, v
<1>5. CASE n # 0
  <2>1. w \in Seq(C) /\ Len(w) # 0
    BY <1>0, <1>1, <1>5, JoinedElements, Zenon
  <2>2. parseArrayElements(w) = IF \E i \in DOMAIN a : Refused(a[i]) THEN <<>> ELSE <<Results(a, n)>>
    BY <1>0, <1>1, <1>5, ElementsRead, Zenon
  <2> HIDE DEF w, v
  <2>3. /\ v \in Seq(C) /\ Len(v) = Len(w) + 2 /\ v[1] = "{" /\ v[Len(v)] = "}"
        /\ SubSeq(v, 2, Len(v) - 1) = w /\ TrimSpace(v) = v
    BY <1>0, <1>3, <2>1, Enclosed, Zenon
  <2>4. v # <<"{", "}">> /\ ~(Len(v) < 2)
    <3>1. Len(w) \in Nat
      BY <2>1
    <3>2. Len(w) # 0 /\ Len(v) = Len(w) + 2
      BY <2>1, <2>3, Zenon
    <3>3. Len(v) # 2 /\ ~(Len(v) < 2)
      BY <3>1, <3>2
    <3>4. Len(<<"{", "}">>) = 2
      BY Zenon
    <3> QED BY <3>3, <3>4, Zenon
  <2>5. Scan(v) = parseArrayElements(w)
    BY <2>3, <2>4, Zenon DEF Scan
  <2> QED BY <1>2, <2>2, <2>5, Zenon DEF RoundTrip, Refused, v
<1> QED BY <1>4, <1>5, Zenon

\* Every array over Strings, and so every page that a client has got, is read
\* back from its columns as it was written.
THEOREM ColumnsRoundTrip == ListSpec => []ArrayRoundTrip
<1>1. ColumnsFaithful
  <2> SUFFICES ASSUME NEW n \in 0..MaxArray, NEW a \in [1..n -> Strings] PROVE RoundTrip(a)
    BY Zenon DEF ColumnsFaithful
  <2>1. n \in Nat /\ a \in [1..n -> Seq(STRING)]
    BY ListingAssumption
  <2>2. a \in Seq(Seq(STRING))
    BY <2>1
  <2> QED BY <2>2, ArraysRoundTrip, Zenon
<1>2. ArrayRoundTrip
  BY <1>1, Zenon DEF ArrayRoundTrip
<1> QED BY <1>2, PTL

=============================================================================
