--------------------------- MODULE ChatStream_proof ---------------------------
(***************************************************************************)
(* The stream, the journal and the thread of ChatStream, for any streams,  *)
(* readers, tools, permits and faults.                                     *)
(***************************************************************************)
EXTENDS ChatStream, SequenceTheorems, FiniteSetTheorems, TLAPS

(* Sequences.  The theorems on induction take an operator; this one takes  *)
(* the set of the numbers that are good.                                   *)

LEMMA Climb ==
  ASSUME NEW n \in Nat, NEW G, 0 \in G, \A i \in 1..n : i - 1 \in G => i \in G
  PROVE  0..n \subseteq G
<1> DEFINE Bad == {i \in 0..n : i \notin G}
<1> SUFFICES ASSUME Bad # {}
             PROVE  FALSE
  OBVIOUS
<1>1. IsWellFoundedOn(OpToRel(<, Nat), Nat)
  BY NatLessThanWellFounded
<1>2. Bad \in SUBSET Nat
  OBVIOUS
<1>3. PICK i \in Bad : \A k \in Bad : ~ (<<k, i>> \in OpToRel(<, Nat))
  <2> HIDE DEF Bad
  <2> QED
    BY <1>1, <1>2, WFMin
<1>4. \A k \in Bad : ~ (k < i)
  BY <1>2, <1>3 DEF OpToRel
<1>5. i \in 1..n /\ i - 1 \in 0..n /\ i - 1 < i
  OBVIOUS
<1>6. i - 1 \in G
  BY <1>4, <1>5
<1> QED
  BY <1>5, <1>6

\* What Chosen has after i elements.
Choosing(s, S) ==
  LET chosen[i \in 0..Len(s)] ==
        IF i = 0 THEN <<>>
        ELSE IF s[i] \in S THEN Append(chosen[i - 1], s[i]) ELSE chosen[i - 1]
  IN  chosen

LEMMA ChoosingSteps ==
  ASSUME NEW s, NEW S, Len(s) \in Nat
  PROVE  /\ Chosen(s, S) = Choosing(s, S)[Len(s)]
         /\ Choosing(s, S)[0] = <<>>
         /\ \A i \in 1..Len(s) :
              Choosing(s, S)[i] = IF s[i] \in S THEN Append(Choosing(s, S)[i - 1], s[i])
                                  ELSE Choosing(s, S)[i - 1]
<1> DEFINE Pick(c, i) == IF s[i] \in S THEN Append(c, s[i]) ELSE c
           Picks(f, n) == f = [i \in 0..n |-> IF i = 0 THEN <<>> ELSE Pick(f[i - 1], i)]
           G == {n \in 0..Len(s) : \E f : Picks(f, n)}
<1> HIDE DEF Pick
<1>1. 0 \in G
  <2>1. Picks([i \in 0..0 |-> <<>>], 0)
    OBVIOUS
  <2>2. 0 \in 0..Len(s)
    OBVIOUS
  <2> HIDE DEF Picks
  <2> QED
    BY <2>1, <2>2
<1>2. ASSUME NEW n \in 1..Len(s), n - 1 \in G
      PROVE  n \in G
  <2>1. PICK f : Picks(f, n - 1)
    BY <1>2
  <2> DEFINE g == [i \in 0..n |-> IF i = 0 THEN <<>> ELSE Pick(f[i - 1], i)]
  <2>2. \A i \in 0..n - 1 : g[i] = f[i]
    BY <2>1
  <2>3. \A i \in 0..n : i # 0 => i - 1 \in 0..n - 1
    OBVIOUS
  <2>4. \A i \in 0..n : i # 0 => g[i] = Pick(g[i - 1], i)
    BY <2>2, <2>3
  <2>5. Picks(g, n)
    BY <2>4
  <2>6. n \in 0..Len(s)
    OBVIOUS
  <2> HIDE DEF Picks, g
  <2> QED
    BY <2>5, <2>6
<1>3. 0..Len(s) \subseteq G
  <2> HIDE DEF G
  <2> QED
    BY <1>1, <1>2, Climb
<1>4. Picks(Choosing(s, S), Len(s))
  <2>1. \E f : Picks(f, Len(s))
    BY <1>3
  <2>2. Choosing(s, S) = CHOOSE f : Picks(f, Len(s))
    BY DEF Choosing
  <2> HIDE DEF Picks
  <2> QED
    BY <2>1, <2>2
<1> DEFINE c == Choosing(s, S)
<1>5. c = [i \in 0..Len(s) |-> IF i = 0 THEN <<>> ELSE Pick(c[i - 1], i)]
  BY <1>4
<1> HIDE DEF c, Pick
<1>6. c[0] = <<>> /\ \A i \in 1..Len(s) : c[i] = Pick(c[i - 1], i)
  BY <1>5
<1>7. Chosen(s, S) = c[Len(s)]
  BY DEF Chosen, Choosing, c
<1> QED
  BY <1>6, <1>7 DEF c, Pick

LEMMA ChosenElements ==
  ASSUME NEW A, NEW s \in Seq(A), NEW S
  PROVE  Chosen(s, S) \in Seq(A \cap S) /\ ToSet(Chosen(s, S)) \subseteq ToSet(s) \cap S
<1> DEFINE c == Choosing(s, S)
           T == ToSet(s) \cap S
           G == {i \in 0..Len(s) : c[i] \in Seq(T)}
<1>1. Len(s) \in Nat /\ DOMAIN s = 1..Len(s) /\ \A i \in 1..Len(s) : s[i] \in A
  BY LenProperties, ElementOfSeq
<1>2. /\ Chosen(s, S) = c[Len(s)] /\ c[0] = <<>>
      /\ \A i \in 1..Len(s) :
           c[i] = IF s[i] \in S THEN Append(c[i - 1], s[i]) ELSE c[i - 1]
  BY <1>1, ChoosingSteps
<1> HIDE DEF c, T
<1>3. 0 \in G
  <2>1. <<>> \in Seq(T) /\ 0 \in 0..Len(s)
    BY <1>1, EmptySeq
  <2> QED
    BY <1>2, <2>1
<1>4. ASSUME NEW i \in 1..Len(s), i - 1 \in G
      PROVE  i \in G
  <2>0. i \in 0..Len(s)
    BY <1>1
  <2>1. CASE s[i] \in S
    <3>1. s[i] \in T
      BY <1>1, <2>1 DEF ToSet, T
    <3>2. Append(c[i - 1], s[i]) \in Seq(T)
      BY <1>4, <3>1, AppendProperties
    <3>3. c[i] = Append(c[i - 1], s[i])
      BY <1>2, <2>1
    <3> QED
      BY <2>0, <3>2, <3>3
  <2>2. CASE s[i] \notin S
    <3>1. c[i] = c[i - 1]
      BY <1>2, <2>2
    <3> QED
      BY <1>4, <2>0, <3>1
  <2> QED
    BY <2>1, <2>2
<1>5. 0..Len(s) \subseteq G
  <2> HIDE DEF G
  <2> QED
    BY <1>1, <1>3, <1>4, Climb
<1>6. Chosen(s, S) \in Seq(T)
  BY <1>1, <1>2, <1>5
<1> DEFINE d == Chosen(s, S)
<1>7. DOMAIN d = 1..Len(d) /\ \A i \in 1..Len(d) : d[i] \in T
  <2> HIDE DEF d
  <2> QED
    BY <1>6, LenProperties, ElementOfSeq DEF d
<1>8. T \subseteq A \cap S
  BY <1>1 DEF ToSet, T
<1> HIDE DEF d
<1>9. ToSet(d) \subseteq T
  BY <1>7 DEF ToSet
<1>10. Chosen(s, S) \in Seq(A \cap S)
  BY <1>6, <1>8, SeqMonotonic
<1> QED
  BY <1>9, <1>10 DEF d, T

LEMMA Concat ==
  ASSUME NEW A, NEW s \in Seq(A), NEW u \in Seq(A)
  PROVE  /\ s \o u \in Seq(A) /\ Len(s \o u) = Len(s) + Len(u)
         /\ Len(s) \in Nat /\ Len(u) \in Nat
         /\ DOMAIN s = 1..Len(s) /\ DOMAIN u = 1..Len(u)
         /\ DOMAIN (s \o u) = 1..Len(s) + Len(u)
         /\ \A i \in 1..Len(s) : (s \o u)[i] = s[i]
         /\ \A i \in 1..Len(u) : (s \o u)[Len(s) + i] = u[i]
         /\ ToSet(s \o u) = ToSet(s) \cup ToSet(u)
<1>1. /\ Len(s) \in Nat /\ Len(u) \in Nat
      /\ DOMAIN s = 1..Len(s) /\ DOMAIN u = 1..Len(u)
  BY LenProperties
<1>2. /\ s \o u \in Seq(A) /\ Len(s \o u) = Len(s) + Len(u)
      /\ \A i \in 1..Len(s) + Len(u) :
           (s \o u)[i] = IF i <= Len(s) THEN s[i] ELSE u[i - Len(s)]
  BY ConcatProperties
<1>3. DOMAIN (s \o u) = 1..Len(s) + Len(u)
  BY <1>2, LenProperties
<1> DEFINE w == s \o u
           m == Len(s)
           n == Len(u)
<1> HIDE DEF w, m, n
<1>4. /\ m \in Nat /\ n \in Nat
      /\ \A i \in 1..m : i \in 1..m + n
      /\ \A i \in 1..n : m + i \in 1..m + n /\ ~ (m + i <= m) /\ (m + i) - m = i
      /\ \A i \in 1..m + n : i \in 1..m \/ i - m \in 1..n
  BY <1>1 DEF m, n
<1>5. /\ \A i \in 1..m : w[i] = s[i]
      /\ \A i \in 1..n : w[m + i] = u[i]
  BY <1>2, <1>4 DEF w, m, n
<1>6. \A i \in 1..m + n : (i \in 1..m /\ w[i] = s[i]) \/ (i - m \in 1..n /\ w[i] = u[i - m])
  BY <1>2, <1>4 DEF w, m, n
<1>7. DOMAIN w = 1..m + n /\ DOMAIN s = 1..m /\ DOMAIN u = 1..n
  BY <1>1, <1>3 DEF w, m, n
<1>8. ToSet(w) = ToSet(s) \cup ToSet(u)
  <2> DEFINE D == 1..m
             E == 1..n
             F == 1..m + n
  <2>4. /\ \A i \in D : i \in F /\ w[i] = s[i]
        /\ \A i \in E : m + i \in F /\ w[m + i] = u[i]
        /\ \A i \in F : (i \in D /\ w[i] = s[i]) \/ (i - m \in E /\ w[i] = u[i - m])
        /\ ToSet(w) = {w[i] : i \in F} /\ ToSet(s) = {s[i] : i \in D} /\ ToSet(u) = {u[i] : i \in E}
    BY <1>4, <1>5, <1>6, <1>7 DEF ToSet
  <2> HIDE DEF D, E, F
  <2>1. ToSet(w) \subseteq ToSet(s) \cup ToSet(u)
    BY <2>4
  <2>2. ToSet(s) \subseteq ToSet(w)
    BY <2>4
  <2>3. ToSet(u) \subseteq ToSet(w)
    BY <2>4
  <2> QED
    BY <2>1, <2>2, <2>3
<1> QED
  BY <1>1, <1>2, <1>3, <1>5, <1>8 DEF w, m, n

LEMMA ChosenPrefix ==
  ASSUME NEW A, NEW s \in Seq(A), NEW u \in Seq(A), NEW S
  PROVE  Choosing(s \o u, S)[Len(s)] = Chosen(s, S)
<1> DEFINE w == s \o u
           c == Choosing(s, S)
           d == Choosing(w, S)
           G == {i \in 0..Len(s) : d[i] = c[i]}
<1>1. /\ Len(s) \in Nat /\ Len(w) \in Nat
      /\ \A i \in 1..Len(s) : w[i] = s[i] /\ i \in 1..Len(w) /\ i \in 0..Len(s)
  BY Concat
<1> HIDE DEF w
<1>2. /\ Chosen(s, S) = c[Len(s)] /\ c[0] = <<>> /\ d[0] = <<>>
      /\ \A i \in 1..Len(s) :
           c[i] = IF s[i] \in S THEN Append(c[i - 1], s[i]) ELSE c[i - 1]
  BY <1>1, ChoosingSteps
<1>3. \A i \in 1..Len(w) :
        d[i] = IF w[i] \in S THEN Append(d[i - 1], w[i]) ELSE d[i - 1]
  BY <1>1, ChoosingSteps
<1> HIDE DEF c, d
<1>4. 0 \in G
  BY <1>1, <1>2
<1>5. ASSUME NEW i \in 1..Len(s), i - 1 \in G
      PROVE  i \in G
  <2>1. /\ c[i] = IF s[i] \in S THEN Append(c[i - 1], s[i]) ELSE c[i - 1]
        /\ d[i] = IF s[i] \in S THEN Append(d[i - 1], s[i]) ELSE d[i - 1]
    BY <1>1, <1>2, <1>3
  <2>2. c[i - 1] = d[i - 1] /\ i \in 0..Len(s)
    BY <1>1, <1>5
  <2> QED
    BY <2>1, <2>2
<1>6. 0..Len(s) \subseteq G
  <2> HIDE DEF G
  <2> QED
    BY <1>1, <1>4, <1>5, Climb
<1>7. Len(s) \in 0..Len(s)
  BY <1>1
<1> QED
  BY <1>2, <1>6, <1>7 DEF d, w

\* Nothing is chosen of what is not in S.
LEMMA ChosenSkips ==
  ASSUME NEW A, NEW s \in Seq(A), NEW u \in Seq(A), NEW S, ToSet(u) \cap S = {}
  PROVE  Chosen(s \o u, S) = Chosen(s, S)
<1> DEFINE w == s \o u
           d == Choosing(w, S)
           m == Len(s)
           n == Len(u)
           G == {i \in 0..n : d[m + i] = d[m]}
<1>1. /\ m \in Nat /\ n \in Nat /\ Len(w) = m + n
      /\ \A i \in 1..n : w[m + i] \notin S
  BY Concat DEF ToSet
<1> HIDE DEF w
<1>2. /\ Chosen(w, S) = d[m + n]
      /\ \A i \in 1..m + n :
           d[i] = IF w[i] \in S THEN Append(d[i - 1], w[i]) ELSE d[i - 1]
  <2>1. Len(w) \in Nat
    BY <1>1
  <2>2. /\ Chosen(w, S) = d[Len(w)]
        /\ \A i \in 1..Len(w) :
             d[i] = IF w[i] \in S THEN Append(d[i - 1], w[i]) ELSE d[i - 1]
    BY <2>1, ChoosingSteps
  <2> HIDE DEF d
  <2> QED
    BY <1>1, <2>2
<1>3. d[m] = Chosen(s, S)
  BY ChosenPrefix DEF w
<1> HIDE DEF d, m, n
<1>4. /\ m + 0 = m
      /\ \A i \in 1..n : m + i \in 1..m + n /\ (m + i) - 1 = m + (i - 1) /\ i \in 0..n
      /\ 0 \in 0..n /\ n \in 0..n
  BY <1>1
<1>5. 0 \in G
  BY <1>4
<1>6. ASSUME NEW i \in 1..n, i - 1 \in G
      PROVE  i \in G
  <2>1. d[m + i] = d[(m + i) - 1]
    BY <1>1, <1>2, <1>4
  <2>2. d[m + (i - 1)] = d[m]
    BY <1>6
  <2> QED
    BY <1>4, <2>1, <2>2
<1>7. 0..n \subseteq G
  <2> HIDE DEF G
  <2> QED
    BY <1>1, <1>5, <1>6, Climb
<1> QED
  BY <1>2, <1>3, <1>4, <1>7 DEF w

LEMMA ChosenLast ==
  ASSUME NEW A, NEW s \in Seq(A), NEW S, NEW x \in A \cap S
  PROVE  Chosen(s \o <<x>>, S) = Append(Chosen(s, S), x)
<1> DEFINE w == s \o <<x>>
           d == Choosing(w, S)
           m == Len(s)
<1>1. <<x>> \in Seq(A) /\ Len(<<x>>) = 1 /\ <<x>>[1] = x
  OBVIOUS
<1>2. /\ m \in Nat /\ Len(w) = m + 1 /\ w[m + 1] = x
  BY <1>1, Concat
<1> HIDE DEF w
<1>3. /\ Chosen(w, S) = d[m + 1]
      /\ \A i \in 1..m + 1 :
           d[i] = IF w[i] \in S THEN Append(d[i - 1], w[i]) ELSE d[i - 1]
  BY <1>2, ChoosingSteps
<1>4. d[m] = Chosen(s, S)
  BY <1>1, ChosenPrefix DEF w
<1> HIDE DEF d, m
<1>5. m + 1 \in 1..m + 1 /\ (m + 1) - 1 = m
  BY <1>2
<1>6. d[m + 1] = Append(d[m], x)
  BY <1>2, <1>3, <1>5
<1> QED
  BY <1>3, <1>4, <1>6 DEF w

LEMMA FunctionIsSeq ==
  ASSUME NEW S, NEW n \in Nat, NEW f \in [1..n -> S]
  PROVE  f \in Seq(S) /\ Len(f) = n
<1>1. f \in Seq(S)
  BY SeqDef
<1>2. DOMAIN f = 1..n /\ DOMAIN f = 1..Len(f) /\ Len(f) \in Nat
  BY <1>1, LenProperties
<1> QED
  BY <1>1, <1>2

LEMMA Appending ==
  ASSUME NEW A, NEW s \in Seq(A), NEW x \in A
  PROVE  /\ Append(s, x) = s \o <<x>> /\ <<x>> \in Seq(A) /\ ToSet(<<x>>) = {x}
         /\ Append(s, x) \in Seq(A) /\ Append(s, x) # <<>>
         /\ Len(Append(s, x)) = Len(s) + 1 /\ Len(s) \in Nat
         /\ \A i \in 1..Len(s) : Append(s, x)[i] = s[i]
         /\ Append(s, x)[Len(s) + 1] = x
         /\ ToSet(Append(s, x)) = ToSet(s) \cup {x}
<1>1. <<x>> \in Seq(A) /\ ToSet(<<x>>) = {x}
  BY DEF ToSet
<1>2. Append(s, x) = s \o <<x>>
  BY AppendIsConcat
<1>3. /\ Append(s, x) \in Seq(A) /\ Len(Append(s, x)) = Len(s) + 1 /\ Len(s) \in Nat
      /\ \A i \in 1..Len(s) : Append(s, x)[i] = s[i]
      /\ Append(s, x)[Len(s) + 1] = x
  BY AppendProperties, LenProperties
<1>4. ToSet(s \o <<x>>) = ToSet(s) \cup {x}
  <2> DEFINE one == <<x>>
  <2>1. one \in Seq(A) /\ ToSet(one) = {x}
    BY <1>1
  <2> HIDE DEF one
  <2>2. ToSet(s \o one) = ToSet(s) \cup ToSet(one)
    BY <2>1, Concat
  <2> QED
    BY <2>1, <2>2 DEF one
<1>5. Append(s, x) # <<>>
  BY <1>3, EmptySeq
<1> QED
  BY <1>1, <1>2, <1>3, <1>4, <1>5

LEMMA AppendSet ==
  ASSUME NEW A, NEW s \in Seq(A), NEW x \in A
  PROVE  ToSet(Append(s, x)) = ToSet(s) \cup {x}
<1>1. Append(s, x) = s \o <<x>> /\ ToSet(Append(s, x)) = ToSet(s) \cup {x}
  BY Appending
<1> QED
  BY <1>1

LEMMA EmptyHasNone == ToSet(<<>>) = {} /\ DOMAIN <<>> = {} /\ \A A : <<>> \in Seq(A)
<1>1. \A A : <<>> \in Seq(A) /\ Len(<<>>) = 0
  BY EmptySeq
<1>2. DOMAIN <<>> = {}
  BY <1>1, LenProperties
<1> QED
  BY <1>1, <1>2 DEF ToSet

LEMMA SomeElement ==
  ASSUME NEW A, NEW s \in Seq(A), s # <<>>
  PROVE  ToSet(s) # {} /\ Head(s) \in ToSet(s)
         /\ Tail(s) \in Seq(A) /\ ToSet(s) = {Head(s)} \cup ToSet(Tail(s))
<1> DEFINE n == Len(s)
           t == Tail(s)
<1>1. /\ n \in Nat \ {0} /\ DOMAIN s = 1..n /\ Head(s) = s[1]
      /\ t \in Seq(A) /\ DOMAIN t = 1..n - 1 /\ \A i \in 1..n - 1 : t[i] = s[i + 1]
  BY EmptySeq, LenProperties, HeadTailProperties
<1> HIDE DEF n, t
<1>2. /\ 1 \in 1..n
      /\ \A i \in 1..n : i = 1 \/ (i - 1 \in 1..n - 1 /\ (i - 1) + 1 = i)
      /\ \A i \in 1..n - 1 : i + 1 \in 1..n
  BY <1>1
<1>3. ToSet(t) \subseteq ToSet(s) /\ s[1] \in ToSet(s)
  <2>1. s[1] \in ToSet(s)
    BY <1>1, <1>2 DEF ToSet
  <2>2. ASSUME NEW i \in 1..n - 1
        PROVE  t[i] \in ToSet(s)
    <3>1. t[i] = s[i + 1] /\ i + 1 \in DOMAIN s
      BY <1>1, <1>2
    <3> QED
      BY <3>1 DEF ToSet
  <2>3. DOMAIN t = 1..n - 1
    BY <1>1
  <2> QED
    BY <2>1, <2>2, <2>3 DEF ToSet
<1>4. ASSUME NEW x \in ToSet(s)
      PROVE  x \in {s[1]} \cup ToSet(t)
  <2>1. PICK i \in 1..n : x = s[i]
    BY <1>1 DEF ToSet
  <2>2. CASE i - 1 \in 1..n - 1
    <3>1. t[i - 1] = s[i]
      BY <1>1, <1>2, <2>2
    <3> QED
      BY <1>1, <2>1, <2>2, <3>1 DEF ToSet
  <2> QED
    BY <1>2, <2>1, <2>2
<1> QED
  BY <1>1, <1>3, <1>4 DEF t
-----------------------------------------------------------------------------
(* Data.                                                                   *)

Labels == {"none", "store_message", "begin", "ask", "listen", "tools",
           "store_answer", "store_rows", "ended", "lost"}

CallType == Nat \X UNION {UNION Range(Calls[s]) : s \in Streams}

Words == {"word", "blank"}

Verdicts == {"tool_response", "error"}

RowType == [call : CallType, outcome : {"none"} \cup Verdicts]

EventType ==
  [type : {"message_chunk", "tool_call", "done", "sentinel"} \cup Verdicts,
   of : CallType \cup Words \cup {NoCall}]

\* The events that carry text.
ChunkEvents == {Event("message_chunk", text) : text \in Words}

Silent(events) == ToSet(events) \cap ChunkEvents = {}

LEMMA TextsAre ==
  ASSUME NEW events \in Seq(EventType)
  PROVE  /\ Texts(events) \in Seq(Words)
         /\ Len(Texts(events)) = Len(Chosen(events, ChunkEvents))
         /\ \A i \in 1..Len(Texts(events)) :
              Texts(events)[i] = Chosen(events, ChunkEvents)[i].of
         /\ Chosen(events, ChunkEvents) \in Seq(ChunkEvents)
<1> DEFINE chunks == Chosen(events, ChunkEvents)
<1>1. chunks \in Seq(ChunkEvents)
  <2>1. chunks \in Seq(EventType \cap ChunkEvents)
    BY ChosenElements
  <2> QED
    BY <2>1, SeqMonotonic
<1>2. Texts(events) = [i \in DOMAIN chunks |-> chunks[i].of]
  BY DEF Texts, ChunkEvents, Words
<1> HIDE DEF chunks
<1>3. /\ DOMAIN chunks = 1..Len(chunks) /\ Len(chunks) \in Nat
      /\ \A i \in 1..Len(chunks) : chunks[i] \in ChunkEvents
  BY <1>1, LenProperties, ElementOfSeq
<1>4. \A i \in 1..Len(chunks) : chunks[i].of \in Words
  BY <1>3 DEF ChunkEvents, Event
<1>5. Texts(events) \in [1..Len(chunks) -> Words]
  BY <1>2, <1>3, <1>4
<1>6. Texts(events) \in Seq(Words) /\ Len(Texts(events)) = Len(chunks)
  BY <1>3, <1>5, FunctionIsSeq
<1> QED
  BY <1>1, <1>2, <1>3, <1>6 DEF chunks

LEMMA TextsSkips ==
  ASSUME NEW events \in Seq(EventType), NEW more \in Seq(EventType), Silent(more)
  PROVE  Texts(events \o more) = Texts(events)
<1>1. Chosen(events \o more, ChunkEvents) = Chosen(events, ChunkEvents)
  BY ChosenSkips DEF Silent
<1> QED
  BY <1>1 DEF Texts, ChunkEvents, Words

LEMMA TextsLast ==
  ASSUME NEW events \in Seq(EventType), NEW text \in Words
  PROVE  Texts(events \o <<Event("message_chunk", text)>>) = Append(Texts(events), text)
<1> DEFINE x == Event("message_chunk", text)
           more == events \o <<x>>
           before == Chosen(events, ChunkEvents)
           n == Len(before)
           new == Texts(more)
           old == Texts(events)
<1>1. x \in EventType \cap ChunkEvents /\ x.of = text
  BY DEF EventType, ChunkEvents, Event
<1> HIDE DEF x
<1>2. more \in Seq(EventType)
  BY <1>1, Appending
<1>3. Chosen(more, ChunkEvents) = Append(before, x)
  BY <1>1, ChosenLast
<1>4. /\ old \in Seq(Words) /\ Len(old) = n /\ before \in Seq(ChunkEvents)
      /\ \A i \in 1..Len(old) : old[i] = before[i].of
  BY TextsAre
<1>5. /\ new \in Seq(Words) /\ Len(new) = Len(Chosen(more, ChunkEvents))
      /\ \A i \in 1..Len(new) : new[i] = Chosen(more, ChunkEvents)[i].of
  BY <1>2, TextsAre
<1> HIDE DEF more, before, n, new, old
<1>6. /\ Len(Append(before, x)) = n + 1 /\ n \in Nat
      /\ \A i \in 1..n : Append(before, x)[i] = before[i]
      /\ Append(before, x)[n + 1] = x
  BY <1>1, <1>4, Appending DEF n
<1>7. /\ Append(old, text) \in Seq(Words) /\ Len(Append(old, text)) = n + 1
      /\ \A i \in 1..n : Append(old, text)[i] = old[i]
      /\ Append(old, text)[n + 1] = text
  BY <1>4, Appending
<1>8. Len(new) = n + 1
  BY <1>3, <1>5, <1>6
<1>9. \A i \in 1..n + 1 : new[i] = Append(old, text)[i]
  <2>1. \A i \in 1..n + 1 : i \in 1..n \/ i = n + 1
    BY <1>6
  <2>2. \A i \in 1..n : i \in 1..n + 1
    BY <1>6
  <2>3. n + 1 \in 1..n + 1
    BY <1>6
  <2> QED
    BY <1>1, <1>3, <1>4, <1>5, <1>6, <1>7, <1>8, <2>1, <2>2, <2>3
<1>10. new = Append(old, text)
  BY <1>5, <1>7, <1>8, <1>9, SeqEqual
<1> QED
  BY <1>10 DEF new, old, more, x
-----------------------------------------------------------------------------
(* The provider's check of a history.                                      *)

Checking(messages) ==
  LET after[i \in 0..Len(messages)] ==
        IF i = 0 THEN [ok |-> TRUE, open |-> {}] ELSE AfterMessage(after[i - 1], messages[i])
  IN  after

\* What the check makes of a history: is it good so far, and which calls wait
\* for their result.
Checked(messages) == Checking(messages)[Len(messages)]

AllAnswered == [ok |-> TRUE, open |-> {}]

LEMMA CheckingSteps ==
  ASSUME NEW s, Len(s) \in Nat
  PROVE  /\ Accepts(s) <=> Checked(s).ok /\ Checked(s).open = {}
         /\ Checking(s)[0] = AllAnswered
         /\ \A i \in 1..Len(s) : Checking(s)[i] = AfterMessage(Checking(s)[i - 1], s[i])
<1> DEFINE Look(c, i) == AfterMessage(c, s[i])
           Looks(f, n) == f = [i \in 0..n |-> IF i = 0 THEN AllAnswered ELSE Look(f[i - 1], i)]
           G == {n \in 0..Len(s) : \E f : Looks(f, n)}
<1> HIDE DEF Look
<1>1. 0 \in G
  <2>1. Looks([i \in 0..0 |-> AllAnswered], 0)
    OBVIOUS
  <2>2. 0 \in 0..Len(s)
    OBVIOUS
  <2> HIDE DEF Looks
  <2> QED
    BY <2>1, <2>2
<1>2. ASSUME NEW n \in 1..Len(s), n - 1 \in G
      PROVE  n \in G
  <2>1. PICK f : Looks(f, n - 1)
    BY <1>2
  <2> DEFINE g == [i \in 0..n |-> IF i = 0 THEN AllAnswered ELSE Look(f[i - 1], i)]
  <2>2. \A i \in 0..n - 1 : g[i] = f[i]
    BY <2>1
  <2>3. \A i \in 0..n : i # 0 => i - 1 \in 0..n - 1
    OBVIOUS
  <2>4. \A i \in 0..n : i # 0 => g[i] = Look(g[i - 1], i)
    BY <2>2, <2>3
  <2>5. Looks(g, n)
    BY <2>4
  <2>6. n \in 0..Len(s)
    OBVIOUS
  <2> HIDE DEF Looks, g
  <2> QED
    BY <2>5, <2>6
<1>3. 0..Len(s) \subseteq G
  <2> HIDE DEF G
  <2> QED
    BY <1>1, <1>2, Climb
<1>4. Looks(Checking(s), Len(s))
  <2>1. \E f : Looks(f, Len(s))
    BY <1>3
  <2>2. Checking(s) = CHOOSE f : Looks(f, Len(s))
    BY DEF Checking, Look, AllAnswered
  <2> HIDE DEF Looks
  <2> QED
    BY <2>1, <2>2
<1> DEFINE c == Checking(s)
<1>5. c = [i \in 0..Len(s) |-> IF i = 0 THEN AllAnswered ELSE Look(c[i - 1], i)]
  BY <1>4
<1> HIDE DEF c
<1>6. c[0] = AllAnswered /\ \A i \in 1..Len(s) : c[i] = Look(c[i - 1], i)
  BY <1>5
<1>7. Accepts(s) <=> c[Len(s)].ok /\ c[Len(s)].open = {}
  BY DEF Accepts, Checking, c
<1> QED
  BY <1>6, <1>7 DEF c, Look, Checked

LEMMA CheckedPrefix ==
  ASSUME NEW A, NEW s \in Seq(A), NEW u \in Seq(A)
  PROVE  Checking(s \o u)[Len(s)] = Checked(s)
<1> DEFINE w == s \o u
           c == Checking(s)
           d == Checking(w)
           G == {i \in 0..Len(s) : d[i] = c[i]}
<1>1. /\ Len(s) \in Nat /\ Len(w) \in Nat
      /\ \A i \in 1..Len(s) : w[i] = s[i] /\ i \in 1..Len(w) /\ i \in 0..Len(s)
  BY Concat
<1> HIDE DEF w
<1>2. /\ c[0] = AllAnswered /\ d[0] = AllAnswered
      /\ \A i \in 1..Len(s) : c[i] = AfterMessage(c[i - 1], s[i])
  BY <1>1, CheckingSteps
<1>3. \A i \in 1..Len(w) : d[i] = AfterMessage(d[i - 1], w[i])
  BY <1>1, CheckingSteps
<1> HIDE DEF c, d
<1>4. 0 \in G
  BY <1>1, <1>2
<1>5. ASSUME NEW i \in 1..Len(s), i - 1 \in G
      PROVE  i \in G
  <2>1. c[i] = AfterMessage(c[i - 1], s[i]) /\ d[i] = AfterMessage(d[i - 1], s[i])
    BY <1>1, <1>2, <1>3
  <2>2. c[i - 1] = d[i - 1] /\ i \in 0..Len(s)
    BY <1>1, <1>5
  <2> QED
    BY <2>1, <2>2
<1>6. 0..Len(s) \subseteq G
  <2> HIDE DEF G
  <2> QED
    BY <1>1, <1>4, <1>5, Climb
<1>7. Len(s) \in 0..Len(s)
  BY <1>1
<1> QED
  BY <1>6, <1>7 DEF c, d, w, Checked

LEMMA CheckedLast ==
  ASSUME NEW A, NEW s \in Seq(A), NEW m \in A
  PROVE  Checked(Append(s, m)) = AfterMessage(Checked(s), m)
<1> DEFINE w == Append(s, m)
           n == Len(s)
<1>1. /\ w = s \o <<m>> /\ <<m>> \in Seq(A)
      /\ n \in Nat /\ Len(w) = n + 1 /\ w[n + 1] = m
  BY Appending
<1>2. Checking(w)[n] = Checked(s)
  BY <1>1, CheckedPrefix
<1> HIDE DEF w, n
<1>3. \A i \in 1..n + 1 : Checking(w)[i] = AfterMessage(Checking(w)[i - 1], w[i])
  <2>1. Len(w) \in Nat
    BY <1>1
  <2>2. \A i \in 1..Len(w) : Checking(w)[i] = AfterMessage(Checking(w)[i - 1], w[i])
    BY <2>1, CheckingSteps
  <2> QED
    BY <1>1, <2>2
<1>4. n + 1 \in 1..n + 1 /\ (n + 1) - 1 = n
  BY <1>1
<1>5. Checking(w)[n + 1] = AfterMessage(Checking(w)[n], m)
  BY <1>1, <1>3, <1>4
<1> QED
  BY <1>1, <1>2, <1>5 DEF w, Checked

\* A history is good exactly when nothing is wrong and nothing waits.
LEMMA AcceptsMeans ==
  ASSUME NEW A, NEW s \in Seq(A)
  PROVE  Accepts(s) <=> Checked(s).ok /\ Checked(s).open = {}
BY LenProperties, CheckingSteps
-----------------------------------------------------------------------------
(* The messages of a run.                                                  *)

OwnMessages ==
  [role : {"assistant"}, text : BOOLEAN, calls : SUBSET CallType, results : {{}}]
    \cup {ResultMessage(call) : call \in CallType}

\* Those of the runs before are what they are.
Items == {UserMessage} \cup OwnMessages \cup UNION {Range(h) : h \in Threads}

LEMMA OwnMessagesAreNotTheUsers == UserMessage \notin OwnMessages
BY DEF OwnMessages, UserMessage, ResultMessage, Message

\* The last message of the user in a history.
LEMMA OpeningIs ==
  ASSUME NEW s, NEW i \in DOMAIN s, s[i] = UserMessage,
         DOMAIN s \subseteq Nat, \A j \in DOMAIN s : j > i => s[j] # UserMessage
  PROVE  Opening(s) = SubSeq(s, 1, i)
<1> DEFINE LastOne(k) == /\ s[k] = UserMessage
                         /\ \A j \in DOMAIN s : j > k => s[j] # UserMessage
<1>1. LastOne(i)
  OBVIOUS
<1>2. ASSUME NEW k \in DOMAIN s, LastOne(k)
      PROVE  k = i
  <2>1. ~ (k > i) /\ ~ (i > k)
    BY <1>2
  <2> QED
    BY <2>1
<1>3. (CHOOSE k \in DOMAIN s : LastOne(k)) = i
  <2> HIDE DEF LastOne
  <2> QED
    BY <1>1, <1>2
<1> QED
  BY <1>3 DEF Opening

LEMMA OpeningOfNew ==
  ASSUME NEW A, NEW s \in Seq(A), UserMessage \in A
  PROVE  LET new == Append(s, UserMessage)
         IN  Opening(new) = new /\ \E i \in DOMAIN new : new[i] = UserMessage
<1> DEFINE new == Append(s, UserMessage)
           n == Len(s)
<1>1. /\ new \in Seq(A) /\ Len(new) = n + 1 /\ n \in Nat /\ new[n + 1] = UserMessage
  BY Appending
<1>2. DOMAIN new = 1..n + 1
  BY <1>1, LenProperties
<1>3. SubSeq(new, 1, Len(new)) = new
  BY <1>1, SubSeqFull
<1> HIDE DEF new, n
<1>4. /\ n + 1 \in DOMAIN new /\ DOMAIN new \subseteq Nat
      /\ \A j \in DOMAIN new : ~ (j > n + 1)
  BY <1>1, <1>2
<1>5. Opening(new) = SubSeq(new, 1, n + 1)
  BY <1>1, <1>4, OpeningIs
<1> QED
  BY <1>1, <1>3, <1>4, <1>5 DEF new

\* What the run adds does not change what it answers.
LEMMA OpeningStays ==
  ASSUME NEW A, NEW s \in Seq(A), NEW u \in Seq(A), UserMessage \notin ToSet(u),
         \E i \in DOMAIN s : s[i] = UserMessage
  PROVE  /\ Opening(s \o u) = Opening(s)
         /\ \E i \in DOMAIN (s \o u) : (s \o u)[i] = UserMessage
<1> DEFINE w == s \o u
           n == Len(s)
<1>1. /\ n \in Nat /\ Len(u) \in Nat /\ DOMAIN s = 1..n /\ DOMAIN u = 1..Len(u)
      /\ DOMAIN w = 1..n + Len(u) /\ w \in Seq(A)
      /\ \A i \in 1..n : w[i] = s[i]
      /\ \A i \in 1..Len(u) : w[n + i] = u[i]
  BY Concat
<1> HIDE DEF w, n
<1>2. PICK i \in 1..n : s[i] = UserMessage /\ \A j \in 1..n : j > i => s[j] # UserMessage
  <2> DEFINE G == {k \in 0..n : \A i \in 1..n : s[i] = UserMessage /\ i > n - k =>
                     \E l \in 1..n : s[l] = UserMessage /\ \A j \in 1..n : j > l => s[j] # UserMessage}
  <2>1. 0 \in G
    BY <1>1
  <2>2. ASSUME NEW k \in 1..n, k - 1 \in G
        PROVE  k \in G
    <3>1. ASSUME NEW i \in 1..n, s[i] = UserMessage, i > n - k
          PROVE  \E l \in 1..n : s[l] = UserMessage /\ \A j \in 1..n : j > l => s[j] # UserMessage
      <4>1. CASE i > n - (k - 1)
        BY <2>2, <3>1, <4>1
      <4>2. CASE ~ (i > n - (k - 1))
        <5>1. \A j \in 1..n : j > i => j > n - (k - 1)
          BY <1>1, <3>1, <4>2
        <5>2. CASE \E j \in 1..n : j > i /\ s[j] = UserMessage
          BY <2>2, <5>1, <5>2
        <5>3. CASE \A j \in 1..n : j > i => s[j] # UserMessage
          BY <3>1, <5>3
        <5> QED
          BY <5>2, <5>3
      <4> QED
        BY <4>1, <4>2
    <3>2. k \in 0..n
      BY <1>1
    <3> QED
      BY <3>1, <3>2
  <2>3. 0..n \subseteq G
    <3> HIDE DEF G
    <3> QED
      BY <1>1, <2>1, <2>2, Climb
  <2>4. n \in G
    <3>1. n \in 0..n
      BY <1>1
    <3> HIDE DEF G
    <3> QED
      BY <2>3, <3>1
  <2>5. PICK i \in 1..n : s[i] = UserMessage
    BY <1>1
  <2>6. i > n - n
    BY <1>1
  <2> QED
    BY <2>4, <2>5, <2>6
<1>3. Opening(s) = SubSeq(s, 1, i)
  <2>1. DOMAIN s \subseteq Nat
    BY <1>1
  <2> QED
    BY <1>1, <1>2, <2>1, OpeningIs
<1>4. Opening(w) = SubSeq(w, 1, i)
  <2>1. DOMAIN w \subseteq Nat /\ i \in DOMAIN w /\ w[i] = UserMessage
    BY <1>1, <1>2
  <2>2. ASSUME NEW j \in DOMAIN w, j > i
        PROVE  w[j] # UserMessage
    <3>1. CASE j \in 1..n
      BY <1>1, <1>2, <2>2, <3>1
    <3>2. CASE j \notin 1..n
      <4>1. j - n \in 1..Len(u) /\ n + (j - n) = j
        BY <1>1, <3>2
      <4>2. u[j - n] \in ToSet(u)
        BY <1>1, <4>1 DEF ToSet
      <4> QED
        BY <1>1, <4>1, <4>2
    <3> QED
      BY <3>1, <3>2
  <2> QED
    BY <2>1, <2>2, OpeningIs
<1>5. SubSeq(w, 1, i) = SubSeq(s, 1, i)
  <2> DEFINE a == SubSeq(w, 1, i)
             b == SubSeq(s, 1, i)
  <2>1. \A k \in 1..i : w[k] = s[k] /\ s[k] \in A
    BY <1>1, ElementOfSeq DEF n
  <2>2. /\ a \in Seq(A) /\ Len(a) = i /\ \A k \in 1..i : a[k] = w[k]
    <3>1. /\ a \in Seq(A) /\ Len(a) = IF 1 <= i THEN i - 1 + 1 ELSE 0
          /\ \A k \in 1..i - 1 + 1 : a[k] = w[1 + k - 1]
      BY <2>1, SubSeqProperties
    <3> HIDE DEF a
    <3> QED
      BY <3>1
  <2>3. /\ b \in Seq(A) /\ Len(b) = i /\ \A k \in 1..i : b[k] = s[k]
    <3>1. /\ b \in Seq(A) /\ Len(b) = IF 1 <= i THEN i - 1 + 1 ELSE 0
          /\ \A k \in 1..i - 1 + 1 : b[k] = s[1 + k - 1]
      BY <2>1, SubSeqProperties
    <3> HIDE DEF b
    <3> QED
      BY <3>1
  <2> HIDE DEF a, b
  <2>4. a = b
    BY <2>1, <2>2, <2>3, SeqEqual
  <2> QED
    BY <2>4 DEF a, b
<1>6. i \in DOMAIN w /\ w[i] = UserMessage
  BY <1>1, <1>2
<1> QED
  BY <1>3, <1>4, <1>5, <1>6 DEF w

\* One result for each call, in the order of the calls, answers them all.
LEMMA ResultsAnswer ==
  ASSUME NEW A, NEW h \in Seq(A), NEW calls \in Seq(CallType),
         {ResultMessage(call) : call \in CallType} \subseteq A,
         \A i, k \in DOMAIN calls : i # k => calls[i] # calls[k],
         Checked(h) = [ok |-> TRUE, open |-> ToSet(calls)]
  PROVE  /\ ThreadWith(h, calls) \in Seq(A)
         /\ Checked(ThreadWith(h, calls)) = AllAnswered
<1> DEFINE n == Len(calls)
           m == Len(h)
           u == [i \in DOMAIN calls |-> ResultMessage(calls[i])]
           w == h \o u
           d == Checking(w)
           Rest(i) == {calls[k] : k \in i + 1..n}
           G == {i \in 0..n : d[m + i] = [ok |-> TRUE, open |-> Rest(i)]}
<1>1. n \in Nat /\ DOMAIN calls = 1..n /\ \A i \in 1..n : calls[i] \in CallType
  BY LenProperties, ElementOfSeq
<1>2. u \in Seq(A) /\ Len(u) = n
  <2>1. \A i \in 1..n : ResultMessage(calls[i]) \in A
    BY <1>1
  <2>2. u \in [1..n -> A]
    BY <1>1, <2>1
  <2> HIDE DEF u
  <2> QED
    BY <1>1, <2>2, FunctionIsSeq
<1>3. \A i \in 1..n : u[i] = ResultMessage(calls[i])
  BY <1>1
<1> HIDE DEF u
<1>4. /\ w \in Seq(A) /\ Len(w) = m + n /\ m \in Nat
      /\ \A i \in 1..n : w[m + i] = ResultMessage(calls[i])
  <2>1. /\ (h \o u) \in Seq(A) /\ Len(h \o u) = Len(h) + Len(u) /\ Len(h) \in Nat
        /\ \A i \in 1..Len(u) : (h \o u)[Len(h) + i] = u[i]
    <3>1. u \in Seq(A)
      BY <1>2
    <3> HIDE DEF n, m, w, d, G, Rest
    <3> QED
      BY <3>1, Concat
  <2>2. w = h \o u /\ m = Len(h)
    OBVIOUS
  <2> HIDE DEF w, m, n
  <2> QED
    BY <1>2, <1>3, <2>1, <2>2
<1>5. d[m] = [ok |-> TRUE, open |-> ToSet(calls)]
  BY <1>2, CheckedPrefix
<1> HIDE DEF w
<1>6. \A i \in 1..m + n : d[i] = AfterMessage(d[i - 1], w[i])
  <2>1. Len(w) \in Nat
    BY <1>1, <1>4
  <2>2. \A i \in 1..Len(w) : d[i] = AfterMessage(d[i - 1], w[i])
    BY <2>1, CheckingSteps
  <2> HIDE DEF d
  <2> QED
    BY <1>4, <2>2
<1> HIDE DEF d, m, n
<1>7. /\ m + 0 = m
      /\ \A i \in 1..n : m + i \in 1..m + n /\ (m + i) - 1 = m + (i - 1) /\ i \in 0..n
      /\ 0 \in 0..n /\ n \in 0..n
  BY <1>1, <1>4
<1>8. 0 \in G
  <2>1. Rest(0) = ToSet(calls)
    BY <1>1 DEF ToSet
  <2> HIDE DEF Rest
  <2> QED
    BY <1>5, <1>7, <2>1
<1>9. ASSUME NEW i \in 1..n, i - 1 \in G
      PROVE  i \in G
  <2>1. d[m + i] = AfterMessage(d[m + (i - 1)], ResultMessage(calls[i]))
    BY <1>4, <1>6, <1>7
  <2>2. d[m + (i - 1)] = [ok |-> TRUE, open |-> Rest(i - 1)]
    BY <1>9
  <2>3. Rest(i - 1) = Rest(i) \cup {calls[i]}
    <3>1. (i - 1) + 1..n = (i + 1..n) \cup {i}
      BY <1>1
    <3> QED
      BY <3>1
  <2>4. calls[i] \notin Rest(i)
    <3>1. \A k \in i + 1..n : k \in DOMAIN calls /\ i \in DOMAIN calls /\ k # i
      BY <1>1
    <3> QED
      BY <3>1
  <2> HIDE DEF Rest
  <2>5. AfterMessage([ok |-> TRUE, open |-> Rest(i - 1)], ResultMessage(calls[i]))
          = [ok |-> TRUE, open |-> Rest(i)]
    <3>1. /\ ResultMessage(calls[i]).role = "user" /\ ~ ResultMessage(calls[i]).text
          /\ ResultMessage(calls[i]).results = {calls[i]}
      BY DEF ResultMessage, Message
    <3>2. Rest(i - 1) # {} /\ {calls[i]} \subseteq Rest(i - 1)
          /\ Rest(i - 1) \ {calls[i]} = Rest(i)
      BY <2>3, <2>4
    <3> DEFINE r == ResultMessage(calls[i])
               open == Rest(i - 1)
    <3> HIDE DEF r, open
    <3>3. AfterMessage([ok |-> TRUE, open |-> open], r) = [ok |-> TRUE, open |-> open \ r.results]
      BY <3>1, <3>2 DEF AfterMessage, r, open
    <3> QED
      BY <3>1, <3>2, <3>3 DEF r, open
  <2> QED
    BY <1>7, <2>1, <2>2, <2>5
<1>10. 0..n \subseteq G
  <2> HIDE DEF G
  <2> QED
    BY <1>1, <1>8, <1>9, Climb
<1>11. d[m + n] = [ok |-> TRUE, open |-> Rest(n)]
  BY <1>7, <1>10
<1>12. Rest(n) = {}
  BY <1>1
<1>13. d[m + n] = AllAnswered
  <2> HIDE DEF Rest
  <2> QED
    BY <1>11, <1>12 DEF AllAnswered
<1>14. ThreadWith(h, calls) = w
  BY DEF ThreadWith, w, u
<1> QED
  BY <1>4, <1>13, <1>14 DEF d, Checked

\* The model's message is good where nothing waits; its calls wait then.
LEMMA AnswerWaits ==
  ASSUME NEW A, NEW h \in Seq(A), Accepts(h), NEW text \in BOOLEAN,
         NEW calls \in Seq(CallType), AnswerMessage(text, calls) \in A
  PROVE  Checked(Append(h, AnswerMessage(text, calls))) = [ok |-> TRUE, open |-> ToSet(calls)]
<1> DEFINE m == AnswerMessage(text, calls)
<1>1. m.role = "assistant" /\ m.calls = ToSet(calls)
  BY DEF AnswerMessage, Message
<1>2. Checked(h).ok /\ Checked(h).open = {}
  BY AcceptsMeans
<1>3. Checked(Append(h, m)) = AfterMessage(Checked(h), m)
  BY CheckedLast
<1> HIDE DEF m
<1>4. AfterMessage(Checked(h), m) = [ok |-> TRUE, open |-> ToSet(calls)]
  BY <1>1, <1>2 DEF AfterMessage
<1> QED
  BY <1>3, <1>4 DEF m
-----------------------------------------------------------------------------
(* What is true of a task, of what it told and of what it stored.          *)

TaskType ==
  [pc : Labels, history : Seq(Items), text : BOOLEAN, calls : Seq(CallType),
   tries : Seq(Nat), results : SUBSET CallType, chunks : Seq(Words),
   rows : Seq(RowType), made : Nat, broken : BOOLEAN]

JournalType == [message : BOOLEAN, answer : Seq(Words), rows : Seq(RowType)]

Live(label) == label \notin {"ended", "lost"}

\* What a task has of the answer it is listening to.
GoodTask(t) ==
  /\ t.pc \notin {"listen", "tools"} => t.calls = <<>>
  /\ t.pc # "tools" => t.results = {}

\* The end of a stream is put when its task ends, once.
GoodEnd(pc, events) ==
  /\ pc = "none" => events = <<>>
  /\ pc # "ended" => ToSet(events) \cap {Done, Sentinel} = {}
  /\ pc = "ended" =>
       \E n \in Nat \ {0} :
         /\ Len(events) = n + 1 /\ events[n] = Done /\ events[n + 1] = Sentinel
         /\ \A i \in 1..n - 1 : events[i] \notin {Done, Sentinel}

\* A tool call of the stream has its row, a row its events.
RowTold(t, events, row) ==
  /\ Event("tool_call", row.call) \in ToSet(events) /\ row.call[2] \in MappedTools
  /\ row.outcome # "none" => Event(row.outcome, row.call) \in ToSet(events)
  /\ row.outcome = "none" =>
       t.pc = "tools" /\ row.call \in ToSet(t.calls) \ t.results

HasRow(rows, event) == \E row \in ToSet(rows) : row.call = event.of

ToolCalls(events) == {e \in ToSet(events) : e.type = "tool_call"}

\* The parts of the story, for the task, the stream and the journal.
TextStory(t, events, j) ==
  /\ j.answer # <<>> => j.answer = Texts(events)
  /\ Live(t.pc) => t.chunks = Texts(events)
  /\ Live(t.pc) /\ t.pc # "store_rows" => j.answer = <<>> /\ j.rows = <<>>
  /\ t.pc = "store_rows" => j.answer # <<>>
  /\ Live(t.pc) /\ t.pc \notin {"none", "store_message"} => j.message

RowStory(t, events, j) ==
  /\ \A row \in ToSet(t.rows) : RowTold(t, events, row)
  /\ \A row \in ToSet(j.rows) :
       {Event("tool_call", row.call), Event(row.outcome, row.call)} \subseteq ToSet(events)
  /\ Live(t.pc) => \A e \in ToolCalls(events) : HasRow(t.rows, e) \/ HasRow(j.rows, e)

EndStory(t, events, j) ==
  t.pc = "ended" /\ StreamFailed \notin ToSet(events) =>
    /\ j.message
    /\ HasWords(Texts(events)) =>
         j.answer # <<>> /\ \A e \in ToolCalls(events) : HasRow(j.rows, e)

GoodStory(t, events, j) ==
  TextStory(t, events, j) /\ RowStory(t, events, j) /\ EndStory(t, events, j)

\* Calls are numbered as the model makes them.
NumbersUp(calls, made) ==
  /\ \A i \in DOMAIN calls : calls[i][1] <= made
  /\ \A i, k \in DOMAIN calls : i < k => calls[i][1] < calls[k][1]

GoodHistory(t) ==
  /\ NumbersUp(t.calls, t.made)
  /\ t.pc \in {"ask", "listen", "tools"} =>
       \E i \in DOMAIN t.history : t.history[i] = UserMessage
  /\ t.pc \in {"ask", "listen"} /\ Accepts(Opening(t.history)) => Accepts(t.history)
  /\ t.pc = "tools" /\ Accepts(Opening(t.history)) =>
       Checked(t.history) = [ok |-> TRUE, open |-> ToSet(t.calls)]

Good(t, events, j) ==
  /\ t \in TaskType /\ events \in Seq(EventType) /\ j \in JournalType
  /\ GoodTask(t) /\ GoodEnd(t.pc, events) /\ GoodStory(t, events, j) /\ GoodHistory(t)

LEMMA TaskFields ==
  ASSUME NEW t \in TaskType
  PROVE  /\ t.pc \in Labels /\ t.history \in Seq(Items) /\ t.text \in BOOLEAN
         /\ t.calls \in Seq(CallType) /\ t.tries \in Seq(Nat) /\ t.results \subseteq CallType
         /\ t.chunks \in Seq(Words) /\ t.rows \in Seq(RowType) /\ t.made \in Nat
         /\ t.broken \in BOOLEAN
BY DEF TaskType

LEMMA OverType ==
  ASSUME NEW t \in TaskType, NEW label \in Labels
  PROVE  /\ Over(t, label) \in TaskType
         /\ Over(t, label).pc = label /\ Over(t, label).calls = <<>>
         /\ Over(t, label).results = {} /\ Over(t, label).rows = <<>>
         /\ Over(t, label).broken = t.broken
<1>1. <<>> \in Seq(Items) /\ <<>> \in Seq(CallType) /\ <<>> \in Seq(Nat)
      /\ <<>> \in Seq(Words) /\ <<>> \in Seq(RowType)
  BY EmptyHasNone
<1>2. t.broken \in BOOLEAN /\ 0 \in Nat
  BY TaskFields
<1> DEFINE none == <<>>
           broken == t.broken
<1>3. NoTask = [pc |-> "none", history |-> none, text |-> FALSE, calls |-> none, tries |-> none,
                results |-> {}, chunks |-> none, rows |-> none, made |-> 0, broken |-> FALSE]
  BY DEF NoTask
<1>4. Over(t, label) = [NoTask EXCEPT !.pc = label, !.broken = broken]
  BY DEF Over
<1> HIDE DEF none, broken
<1>5. Over(t, label) =
        [pc |-> label, history |-> none, text |-> FALSE, calls |-> none, tries |-> none,
         results |-> {}, chunks |-> none, rows |-> none, made |-> 0, broken |-> broken]
  BY <1>3, <1>4
<1>6. Over(t, label) \in TaskType
  BY <1>1, <1>2, <1>5 DEF TaskType, none, broken
<1> QED
  BY <1>5, <1>6 DEF none, broken

\* The two ways a stream ends.
LEMMA EndsOnce ==
  ASSUME NEW pc, NEW events \in Seq(EventType), GoodEnd(pc, events), pc # "ended",
         NEW more \in {<<Done, Sentinel>>, <<StreamFailed, Done, Sentinel>>}
  PROVE  /\ more \in Seq(EventType) /\ Silent(more)
         /\ events \o more \in Seq(EventType) /\ GoodEnd("ended", events \o more)
         /\ Texts(events \o more) = Texts(events)
         /\ ToSet(events \o more) = ToSet(events) \cup ToSet(more)
         /\ ToolCalls(events \o more) = ToolCalls(events)
<1> DEFINE all == events \o more
<1>1. /\ Done \in EventType /\ Sentinel \in EventType /\ StreamFailed \in EventType
      /\ {Done, Sentinel, StreamFailed} \cap ChunkEvents = {}
      /\ Done # StreamFailed /\ Sentinel # StreamFailed
      /\ \A e \in {Done, Sentinel, StreamFailed} : e.type # "tool_call"
  BY DEF Done, Sentinel, StreamFailed, EventType, Event, ChunkEvents, Verdicts
<1>2. /\ more \in Seq(EventType) /\ ToSet(more) \subseteq {Done, Sentinel, StreamFailed}
  <2>1. ASSUME more = <<Done, Sentinel>>
        PROVE  more \in Seq(EventType) /\ ToSet(more) \subseteq {Done, Sentinel, StreamFailed}
    BY <1>1, <2>1 DEF ToSet
  <2>2. ASSUME more = <<StreamFailed, Done, Sentinel>>
        PROVE  more \in Seq(EventType) /\ ToSet(more) \subseteq {Done, Sentinel, StreamFailed}
    BY <1>1, <2>2 DEF ToSet
  <2> QED
    BY <2>1, <2>2
<1>3. Silent(more)
  BY <1>1, <1>2 DEF Silent
<1>4. /\ all \in Seq(EventType) /\ Len(events) \in Nat /\ Len(all) = Len(events) + Len(more)
      /\ DOMAIN events = 1..Len(events)
      /\ \A i \in 1..Len(events) : all[i] = events[i]
      /\ \A i \in 1..Len(more) : all[Len(events) + i] = more[i]
      /\ ToSet(all) = ToSet(events) \cup ToSet(more)
  BY <1>2, Concat
<1>5. Texts(all) = Texts(events)
  BY <1>2, <1>3, TextsSkips
<1>6. ToolCalls(all) = ToolCalls(events)
  <2> HIDE DEF all
  <2> QED
    BY <1>1, <1>2, <1>4 DEF ToolCalls
<1>7. \A i \in 1..Len(events) : events[i] \notin {Done, Sentinel}
  BY <1>4 DEF GoodEnd, ToSet
<1> DEFINE m == Len(events)
<1> HIDE DEF all, m
<1>8. GoodEnd("ended", all)
  <2>1. CASE more = <<Done, Sentinel>>
    <3>1. /\ Len(more) = 2 /\ more[1] = Done /\ more[2] = Sentinel /\ 1 \in 1..2 /\ 2 \in 1..2
      BY <2>1
    <3>2. /\ Len(all) = m + 2 /\ all[m + 1] = Done /\ all[m + 2] = Sentinel
      BY <1>4, <3>1 DEF m
    <3>3. /\ m + 1 \in Nat \ {0} /\ (m + 1) + 1 = m + 2 /\ (m + 1) - 1 = m
      BY <1>4 DEF m
    <3>4. \A i \in 1..m : all[i] \notin {Done, Sentinel}
      BY <1>4, <1>7 DEF m
    <3>5. \E n \in Nat \ {0} :
            /\ Len(all) = n + 1 /\ all[n] = Done /\ all[n + 1] = Sentinel
            /\ \A i \in 1..n - 1 : all[i] \notin {Done, Sentinel}
      BY <3>2, <3>3, <3>4
    <3> QED
      BY <3>5 DEF GoodEnd
  <2>2. CASE more = <<StreamFailed, Done, Sentinel>>
    <3>1. /\ Len(more) = 3 /\ more[1] = StreamFailed /\ more[2] = Done /\ more[3] = Sentinel
          /\ 1 \in 1..3 /\ 2 \in 1..3 /\ 3 \in 1..3
      BY <2>2
    <3>2. /\ Len(all) = m + 3 /\ all[m + 1] = StreamFailed /\ all[m + 2] = Done
          /\ all[m + 3] = Sentinel
      BY <1>4, <3>1 DEF m
    <3>3. /\ m + 2 \in Nat \ {0} /\ (m + 2) + 1 = m + 3 /\ (m + 2) - 1 = m + 1
          /\ \A i \in 1..m + 1 : i \in 1..m \/ i = m + 1
      BY <1>4 DEF m
    <3>4. \A i \in 1..m + 1 : all[i] \notin {Done, Sentinel}
      BY <1>1, <1>4, <1>7, <3>2, <3>3 DEF m
    <3>5. \E n \in Nat \ {0} :
            /\ Len(all) = n + 1 /\ all[n] = Done /\ all[n + 1] = Sentinel
            /\ \A i \in 1..n - 1 : all[i] \notin {Done, Sentinel}
      BY <3>2, <3>3, <3>4
    <3> QED
      BY <3>5 DEF GoodEnd
  <2> QED
    BY <2>1, <2>2
<1> QED
  BY <1>2, <1>3, <1>4, <1>5, <1>6, <1>8 DEF all

\* A task that is over leaves the story as it is; what the journal lacks is
\* then an error's or a crash's doing.
LEMMA OverKeeps ==
  ASSUME NEW t, NEW events, NEW j, Good(t, events, j), Live(t.pc),
         NEW more \in Seq(EventType), NEW label \in {"ended", "lost"},
         Texts(more) = Texts(events), ToSet(events) \subseteq ToSet(more),
         GoodEnd(label, more), EndStory(Over(t, label), more, j)
  PROVE  Good(Over(t, label), more, j)
<1> DEFINE u == Over(t, label)
<1>1. /\ t \in TaskType /\ j \in JournalType /\ TextStory(t, events, j) /\ RowStory(t, events, j)
  BY DEF Good, GoodStory
<1>2. /\ u \in TaskType /\ u.pc = label /\ u.calls = <<>> /\ u.results = {} /\ u.rows = <<>>
      /\ label \in Labels /\ ~ Live(label)
  BY <1>1, OverType DEF Labels, Live
<1> HIDE DEF u
<1>3. GoodTask(u)
  BY <1>2 DEF GoodTask
<1>4. GoodEnd(u.pc, more)
  BY <1>2
<1>5. TextStory(u, more, j)
  BY <1>1, <1>2 DEF TextStory, Live
<1>6. RowStory(u, more, j)
  <2>1. ToSet(u.rows) = {}
    BY <1>2, EmptyHasNone
  <2> QED
    BY <1>1, <1>2, <2>1 DEF RowStory
<1>7. GoodHistory(u)
  <2>1. NumbersUp(u.calls, u.made)
    BY <1>2, EmptyHasNone DEF NumbersUp
  <2> QED
    BY <1>2, <2>1 DEF GoodHistory
<1> QED
  BY <1>1, <1>2, <1>3, <1>4, <1>5, <1>6, <1>7 DEF Good, GoodStory, u

LEMMA FailKeeps ==
  ASSUME NEW t, NEW events, NEW j, Good(t, events, j), Live(t.pc)
  PROVE  Good(Over(t, "ended"), events \o <<StreamFailed, Done, Sentinel>>, j)
<1> DEFINE end == <<StreamFailed, Done, Sentinel>>
           more == events \o end
<1>1. events \in Seq(EventType) /\ GoodEnd(t.pc, events) /\ t.pc # "ended"
  BY DEF Good, Live
<1>2. StreamFailed \in ToSet(end)
  BY DEF ToSet
<1> HIDE DEF end
<1>3. /\ more \in Seq(EventType) /\ GoodEnd("ended", more) /\ Texts(more) = Texts(events)
      /\ ToSet(more) = ToSet(events) \cup ToSet(end)
  <2>1. end \in {<<Done, Sentinel>>, <<StreamFailed, Done, Sentinel>>}
    BY DEF end
  <2> QED
    BY <1>1, <2>1, EndsOnce
<1> HIDE DEF more
<1>4. EndStory(Over(t, "ended"), more, j)
  BY <1>2, <1>3 DEF EndStory
<1>5. Good(Over(t, "ended"), more, j)
  BY <1>3, <1>4, OverKeeps
<1> QED
  BY <1>5 DEF more, end

LEMMA LoseKeeps ==
  ASSUME NEW t, NEW events, NEW j, Good(t, events, j), Live(t.pc)
  PROVE  Good(Over(t, "lost"), events, j)
<1>1. events \in Seq(EventType) /\ GoodEnd(t.pc, events) /\ t \in TaskType
  BY DEF Good
<1>2. GoodEnd("lost", events)
  BY <1>1 DEF GoodEnd, Live
<1>3. Over(t, "lost").pc = "lost"
  BY <1>1, OverType DEF Labels
<1>4. EndStory(Over(t, "lost"), events, j)
  BY <1>3 DEF EndStory
<1> QED
  BY <1>1, <1>2, <1>4, OverKeeps

\* A stream that ends well has stored what it told, unless it told no words.
LEMMA EndKeeps ==
  ASSUME NEW t, NEW events, NEW j, Good(t, events, j),
         \/ t.pc = "store_answer" /\ ~ HasWords(t.chunks)
         \/ t.pc = "store_rows" /\ t.rows = <<>>
  PROVE  Good(Over(t, "ended"), events \o <<Done, Sentinel>>, j)
<1> DEFINE end == <<Done, Sentinel>>
           more == events \o end
<1>1. /\ events \in Seq(EventType) /\ GoodEnd(t.pc, events) /\ t.pc # "ended" /\ Live(t.pc)
      /\ t \in TaskType /\ TextStory(t, events, j) /\ RowStory(t, events, j)
  BY DEF Good, Live, GoodStory
<1> HIDE DEF end
<1>2. /\ more \in Seq(EventType) /\ GoodEnd("ended", more) /\ Texts(more) = Texts(events)
      /\ ToSet(more) = ToSet(events) \cup ToSet(end) /\ ToolCalls(more) = ToolCalls(events)
  <2>1. end \in {<<Done, Sentinel>>, <<StreamFailed, Done, Sentinel>>}
    BY DEF end
  <2> QED
    BY <1>1, <2>1, EndsOnce
<1> HIDE DEF more
<1>3. j.message /\ t.chunks = Texts(events)
  BY <1>1 DEF TextStory, Live
<1>4. ASSUME HasWords(Texts(more))
      PROVE  j.answer # <<>> /\ \A e \in ToolCalls(more) : HasRow(j.rows, e)
  <2>1. t.pc = "store_rows" /\ t.rows = <<>>
    BY <1>2, <1>3, <1>4
  <2>2. ToSet(t.rows) = {}
    BY <2>1, EmptyHasNone
  <2> QED
    BY <1>1, <1>2, <2>1, <2>2 DEF TextStory, RowStory, HasRow
<1>5. EndStory(Over(t, "ended"), more, j)
  BY <1>3, <1>4 DEF EndStory
<1>6. Good(Over(t, "ended"), more, j)
  BY <1>1, <1>2, <1>5, OverKeeps
<1> QED
  BY <1>6 DEF more, end

\* For a task at work there is nothing more to it than this.
LEMMA WorkKeeps ==
  ASSUME NEW t \in TaskType, NEW events \in Seq(EventType), NEW j \in JournalType,
         Live(t.pc), t.pc # "none", ToSet(events) \cap {Done, Sentinel} = {},
         GoodTask(t), TextStory(t, events, j), RowStory(t, events, j), GoodHistory(t)
  PROVE  Good(t, events, j)
<1>1. GoodEnd(t.pc, events) /\ EndStory(t, events, j)
  BY DEF GoodEnd, EndStory, Live
<1> QED
  BY <1>1 DEF Good, GoodStory

LEMMA AtWork ==
  ASSUME NEW t, NEW events, NEW j, Good(t, events, j), Live(t.pc)
  PROVE  /\ t \in TaskType /\ events \in Seq(EventType) /\ j \in JournalType
         /\ t.pc # "ended" /\ ToSet(events) \cap {Done, Sentinel} = {}
         /\ GoodTask(t) /\ TextStory(t, events, j) /\ RowStory(t, events, j) /\ GoodHistory(t)
BY DEF Good, GoodEnd, GoodStory, Live

\* The rows are as good as they were, if none waits for its outcome.
LEMMA RowsStay ==
  ASSUME NEW t, NEW events, NEW j, RowStory(t, events, j), Live(t.pc),
         NEW u, NEW more, NEW k, u.rows = t.rows, k.rows = j.rows,
         ToSet(events) \subseteq ToSet(more), ToolCalls(more) = ToolCalls(events),
         t.pc # "tools" \/ (u.pc = t.pc /\ u.calls = t.calls /\ u.results = t.results)
  PROVE  RowStory(u, more, k)
<1>1. \A row \in ToSet(u.rows) : RowTold(u, more, row)
  BY DEF RowStory, RowTold
<1> QED
  BY <1>1 DEF RowStory

\* The steps that only lead from one place to the next.
LEMMA StepKeeps ==
  ASSUME NEW t, NEW events, NEW j, Good(t, events, j),
         NEW u \in TaskType, NEW k \in JournalType,
         u.calls = t.calls, u.results = t.results, u.chunks = t.chunks, u.rows = t.rows,
         u.made = t.made, k.rows = j.rows,
         \/ /\ t.pc = "none" /\ u.pc = "store_message" /\ k = j
         \/ /\ t.pc = "store_message" /\ u.pc = "begin" /\ k.message /\ k.answer = j.answer
         \/ /\ t.pc = "begin" /\ u.pc = "ask" /\ k = j
            /\ Opening(u.history) = u.history
            /\ \E i \in DOMAIN u.history : u.history[i] = UserMessage
         \/ /\ t.pc = "ask" /\ u.pc = "listen" /\ k = j
            /\ u.history = t.history /\ Accepts(u.history)
         \/ /\ t.pc = "store_answer" /\ u.pc = "store_rows" /\ k.message = j.message
            /\ k.answer = t.chunks /\ k.answer # <<>>
  PROVE  Good(u, events, k)
<1>1. Live(t.pc) /\ Live(u.pc) /\ u.pc # "none"
  BY DEF Live
<1>2. /\ t \in TaskType /\ events \in Seq(EventType) /\ j \in JournalType
      /\ ToSet(events) \cap {Done, Sentinel} = {}
      /\ GoodTask(t) /\ TextStory(t, events, j) /\ RowStory(t, events, j) /\ GoodHistory(t)
  BY <1>1, AtWork
<1>3. GoodTask(u)
  BY <1>2 DEF GoodTask
<1>4. TextStory(u, events, k)
  BY <1>1, <1>2 DEF TextStory
<1>5. RowStory(u, events, k)
  BY <1>1, <1>2, RowsStay
<1>6. GoodHistory(u)
  BY <1>2 DEF GoodHistory
<1> QED
  BY <1>1, <1>2, <1>3, <1>4, <1>5, <1>6, WorkKeeps

LEMMA TryKeeps ==
  ASSUME NEW t, NEW events, NEW j, Good(t, events, j), t.pc = "tools",
         NEW u \in TaskType, u.pc = t.pc, u.history = t.history, u.calls = t.calls,
         u.results = t.results, u.chunks = t.chunks, u.rows = t.rows, u.made = t.made
  PROVE  Good(u, events, j)
<1>1. Live(t.pc) /\ Live(u.pc) /\ u.pc # "none"
  BY DEF Live
<1>2. /\ t \in TaskType /\ events \in Seq(EventType) /\ j \in JournalType
      /\ ToSet(events) \cap {Done, Sentinel} = {}
      /\ GoodTask(t) /\ TextStory(t, events, j) /\ RowStory(t, events, j) /\ GoodHistory(t)
  BY <1>1, AtWork
<1>3. GoodTask(u)
  BY <1>2 DEF GoodTask
<1>4. TextStory(u, events, j)
  BY <1>1, <1>2 DEF TextStory
<1>5. RowStory(u, events, j)
  BY <1>1, <1>2, RowsStay
<1>6. GoodHistory(u)
  BY <1>2 DEF GoodHistory
<1> QED
  BY <1>1, <1>2, <1>3, <1>4, <1>5, <1>6, WorkKeeps

LEMMA ChunkKeeps ==
  ASSUME NEW t, NEW events, NEW j, Good(t, events, j), t.pc = "listen", NEW text \in Words,
         NEW u \in TaskType, u.pc = t.pc, u.history = t.history, u.calls = t.calls,
         u.results = t.results, u.chunks = Append(t.chunks, text), u.rows = t.rows,
         u.made = t.made
  PROVE  Good(u, events \o <<Event("message_chunk", text)>>, j)
<1> DEFINE x == Event("message_chunk", text)
           more == events \o <<x>>
<1>1. Live(t.pc) /\ Live(u.pc) /\ u.pc # "none"
  BY DEF Live
<1>2. /\ t \in TaskType /\ events \in Seq(EventType) /\ j \in JournalType
      /\ ToSet(events) \cap {Done, Sentinel} = {}
      /\ GoodTask(t) /\ TextStory(t, events, j) /\ RowStory(t, events, j) /\ GoodHistory(t)
  BY <1>1, AtWork
<1>3. x \in EventType /\ x.type # "tool_call" /\ x \notin {Done, Sentinel}
  BY DEF EventType, Event, Done, Sentinel
<1>4. Texts(more) = Append(Texts(events), text)
  BY <1>2, TextsLast
<1> HIDE DEF x
<1>5. more \in Seq(EventType) /\ ToSet(more) = ToSet(events) \cup {x}
  <2>1. /\ Append(events, x) = more /\ Append(events, x) \in Seq(EventType)
        /\ ToSet(Append(events, x)) = ToSet(events) \cup {x}
    BY <1>2, <1>3, Appending
  <2> HIDE DEF more
  <2> QED
    BY <2>1
<1> HIDE DEF more
<1>6. /\ ToolCalls(more) = ToolCalls(events) /\ ToSet(events) \subseteq ToSet(more)
      /\ ToSet(more) \cap {Done, Sentinel} = {}
  BY <1>2, <1>3, <1>5 DEF ToolCalls
<1>7. GoodTask(u)
  BY <1>2 DEF GoodTask
<1>8. TextStory(u, more, j)
  BY <1>1, <1>2, <1>4 DEF TextStory
<1>9. RowStory(u, more, j)
  BY <1>1, <1>2, <1>6, RowsStay
<1>10. GoodHistory(u)
  BY <1>2 DEF GoodHistory
<1>11. Good(u, more, j)
  BY <1>1, <1>2, <1>5, <1>6, <1>7, <1>8, <1>9, <1>10, WorkKeeps
<1> QED
  BY <1>11 DEF more, x

\* The number of a new call is above all others.
LEMMA NumbersGoUp ==
  ASSUME NEW calls \in Seq(CallType), NEW made \in Nat, NumbersUp(calls, made),
         NEW call \in CallType, call[1] = made + 1
  PROVE  NumbersUp(Append(calls, call), made + 1)
<1> DEFINE more == Append(calls, call)
           n == Len(calls)
<1>1. /\ more \in Seq(CallType) /\ Len(more) = n + 1 /\ n \in Nat
      /\ \A i \in 1..n : more[i] = calls[i]
      /\ more[n + 1] = call
  BY Appending
<1>2. DOMAIN more = 1..n + 1 /\ DOMAIN calls = 1..n
  BY <1>1, LenProperties
<1>3. \A i \in 1..n : calls[i][1] \in Nat /\ calls[i][1] <= made
  <2>1. \A i \in 1..n : calls[i] \in CallType
    BY <1>2, ElementOfSeq
  <2>2. \A c \in CallType : c[1] \in Nat
    BY DEF CallType
  <2> QED
    BY <1>2, <2>1, <2>2 DEF NumbersUp
<1>4. \A i, k \in 1..n : i < k => calls[i][1] < calls[k][1]
  BY <1>2 DEF NumbersUp
<1> HIDE DEF more, n
<1>5. \A i \in 1..n + 1 : i \in 1..n \/ i = n + 1
  BY <1>1
<1>6. \A i \in 1..n + 1 : more[i][1] <= made + 1
  BY <1>1, <1>3, <1>5
<1>7. ASSUME NEW i \in 1..n + 1, NEW k \in 1..n + 1, i < k
      PROVE  more[i][1] < more[k][1]
  <2>1. i \in 1..n /\ more[i] = calls[i]
    BY <1>1, <1>7
  <2>2. CASE k \in 1..n
    BY <1>1, <1>4, <1>7, <2>1, <2>2
  <2>3. CASE k = n + 1
    BY <1>1, <1>3, <2>1, <2>3
  <2> QED
    BY <1>5, <2>2, <2>3
<1>8. NumbersUp(more, made + 1)
  BY <1>2, <1>6, <1>7 DEF NumbersUp
<1> QED
  BY <1>8 DEF more

LEMMA NumbersStayUp ==
  ASSUME NEW calls \in Seq(CallType), NEW made \in Nat, NumbersUp(calls, made)
  PROVE  /\ NumbersUp(calls, made + 1)
         /\ \A i, k \in DOMAIN calls : i # k => calls[i] # calls[k]
<1>1. \A i \in DOMAIN calls : calls[i][1] \in Nat
  <2>1. DOMAIN calls = 1..Len(calls) /\ \A i \in 1..Len(calls) : calls[i] \in CallType
    BY LenProperties, ElementOfSeq
  <2>2. \A c \in CallType : c[1] \in Nat
    BY DEF CallType
  <2> QED
    BY <2>1, <2>2
<1>2. \A i \in DOMAIN calls : i \in Nat
  BY LenProperties
<1> QED
  BY <1>1, <1>2 DEF NumbersUp

LEMMA CallKeeps ==
  ASSUME NEW t, NEW events, NEW j, Good(t, events, j), t.pc = "listen",
         NEW call \in CallType, call[1] = t.made + 1,
         NEW u \in TaskType, u.pc = t.pc, u.history = t.history,
         u.calls \in {t.calls, Append(t.calls, call)},
         u.results = t.results, u.chunks = t.chunks, u.rows = t.rows, u.made = t.made + 1
  PROVE  Good(u, events, j)
<1>1. Live(t.pc) /\ Live(u.pc) /\ u.pc # "none"
  BY DEF Live
<1>2. /\ t \in TaskType /\ events \in Seq(EventType) /\ j \in JournalType
      /\ ToSet(events) \cap {Done, Sentinel} = {}
      /\ GoodTask(t) /\ TextStory(t, events, j) /\ RowStory(t, events, j) /\ GoodHistory(t)
  BY <1>1, AtWork
<1>3. GoodTask(u)
  BY <1>2 DEF GoodTask
<1>4. TextStory(u, events, j)
  BY <1>1, <1>2 DEF TextStory
<1>5. RowStory(u, events, j)
  BY <1>1, <1>2, RowsStay
<1>6. NumbersUp(u.calls, u.made)
  <2>1. t.calls \in Seq(CallType) /\ t.made \in Nat /\ NumbersUp(t.calls, t.made)
    BY <1>2, TaskFields DEF GoodHistory
  <2> QED
    BY <2>1, NumbersGoUp, NumbersStayUp
<1>7. GoodHistory(u)
  BY <1>2, <1>6 DEF GoodHistory
<1> QED
  BY <1>1, <1>2, <1>3, <1>4, <1>5, <1>7, WorkKeeps
-----------------------------------------------------------------------------
(* The steps on which answer, rows and thread depend.                      *)

LEMMA MappedAre ==
  ASSUME NEW calls \in Seq(CallType)
  PROVE  /\ Mapped(calls) \in Seq(CallType)
         /\ ToSet(Mapped(calls)) \subseteq {call \in ToSet(calls) : call[2] \in MappedTools}
<1> DEFINE S == {call \in ToSet(calls) : call[2] \in MappedTools}
<1>1. Mapped(calls) = Chosen(calls, S)
  BY DEF Mapped
<1>2. Chosen(calls, S) \in Seq(CallType \cap S) /\ ToSet(Chosen(calls, S)) \subseteq ToSet(calls) \cap S
  <2> HIDE DEF S
  <2> QED
    BY ChosenElements
<1>3. Mapped(calls) \in Seq(CallType)
  BY <1>1, <1>2, SeqMonotonic
<1> QED
  BY <1>1, <1>2, <1>3

\* The events of an answer, and its rows.
CallEvents(shown) == [i \in DOMAIN shown |-> Event("tool_call", shown[i])]
NewRows(shown) == [i \in DOMAIN shown |-> Row(shown[i], "none")]

LEMMA ShownCalls ==
  ASSUME NEW shown \in Seq(CallType)
  PROVE  LET events == CallEvents(shown)
             rows == NewRows(shown)
         IN  /\ events \in Seq(EventType)
             /\ ToSet(events) = {Event("tool_call", call) : call \in ToSet(shown)}
             /\ rows \in Seq(RowType)
             /\ ToSet(rows) = {Row(call, "none") : call \in ToSet(shown)}
             /\ ToSet(shown) \subseteq CallType
<1> DEFINE n == Len(shown)
           events == [i \in DOMAIN shown |-> Event("tool_call", shown[i])]
           rows == [i \in DOMAIN shown |-> Row(shown[i], "none")]
<1>1. /\ n \in Nat /\ DOMAIN shown = 1..n /\ \A i \in 1..n : shown[i] \in CallType
  BY LenProperties, ElementOfSeq
<1>2. ToSet(shown) = {shown[i] : i \in 1..n} /\ ToSet(shown) \subseteq CallType
  BY <1>1 DEF ToSet
<1>3. \A call \in CallType : Event("tool_call", call) \in EventType /\ Row(call, "none") \in RowType
  BY DEF EventType, RowType, Event, Row
<1>4. events \in [1..n -> EventType] /\ rows \in [1..n -> RowType]
  BY <1>1, <1>3
<1>5. \A i \in 1..n : events[i] = Event("tool_call", shown[i]) /\ rows[i] = Row(shown[i], "none")
  BY <1>1
<1> HIDE DEF events, rows, n
<1>6. events \in Seq(EventType) /\ rows \in Seq(RowType)
  BY <1>1, <1>4, FunctionIsSeq
<1>7. ToSet(events) = {Event("tool_call", shown[i]) : i \in 1..n}
  BY <1>4, <1>5 DEF ToSet
<1>8. ToSet(rows) = {Row(shown[i], "none") : i \in 1..n}
  BY <1>4, <1>5 DEF ToSet
<1>9. /\ ToSet(events) = {Event("tool_call", call) : call \in ToSet(shown)}
      /\ ToSet(rows) = {Row(call, "none") : call \in ToSet(shown)}
  BY <1>2, <1>7, <1>8
<1> QED
  BY <1>2, <1>6, <1>9 DEF events, rows, CallEvents, NewRows

LEMMA AnswerIsAMessage ==
  ASSUME NEW text \in BOOLEAN, NEW calls \in Seq(CallType)
  PROVE  AnswerMessage(text, calls) \in OwnMessages
<1>1. ToSet(calls) \subseteq CallType
  <2>1. DOMAIN calls = 1..Len(calls) /\ \A i \in 1..Len(calls) : calls[i] \in CallType
    BY LenProperties, ElementOfSeq
  <2> QED
    BY <2>1 DEF ToSet
<1> QED
  BY <1>1 DEF AnswerMessage, Message, OwnMessages

LEMMA AnswerKeeps ==
  ASSUME NEW t, NEW events, NEW j, Good(t, events, j), t.pc = "listen",
         NEW calls \in Seq(CallType), NumbersUp(calls, t.made),
         NEW u \in TaskType,
         u.history = Append(t.history, AnswerMessage(t.text, calls)),
         u.pc = IF calls = <<>> THEN "store_answer" ELSE "tools",
         u.calls = calls, u.results = t.results, u.chunks = t.chunks, u.made = t.made,
         u.rows = t.rows \o NewRows(Mapped(calls))
  PROVE  Good(u, events \o CallEvents(Mapped(calls)), j)
<1> DEFINE shown == Mapped(calls)
           new == CallEvents(shown)
           rows == NewRows(shown)
           more == events \o new
           m == AnswerMessage(t.text, calls)
<1>1. Live(t.pc) /\ Live(u.pc) /\ u.pc # "none" /\ u.pc # "store_rows" /\ u.pc # "store_message"
  BY DEF Live
<1>2. /\ t \in TaskType /\ events \in Seq(EventType) /\ j \in JournalType
      /\ ToSet(events) \cap {Done, Sentinel} = {}
      /\ GoodTask(t) /\ TextStory(t, events, j) /\ RowStory(t, events, j) /\ GoodHistory(t)
  BY <1>1, AtWork
<1>3. /\ shown \in Seq(CallType)
      /\ ToSet(shown) \subseteq {call \in ToSet(calls) : call[2] \in MappedTools}
  BY MappedAre
<1> HIDE DEF shown
<1>4. /\ new \in Seq(EventType) /\ ToSet(new) = {Event("tool_call", call) : call \in ToSet(shown)}
      /\ rows \in Seq(RowType) /\ ToSet(rows) = {Row(call, "none") : call \in ToSet(shown)}
  BY <1>3, ShownCalls
<1>5. u.rows = t.rows \o rows
  BY DEF shown
<1> HIDE DEF new, rows
<1>6. Silent(new) /\ ToSet(new) \cap {Done, Sentinel} = {}
  BY <1>4 DEF Silent, ChunkEvents, Event, Done, Sentinel
<1>7. more \in Seq(EventType) /\ ToSet(more) = ToSet(events) \cup ToSet(new)
  BY <1>2, <1>4, Concat
<1>8. Texts(more) = Texts(events)
  BY <1>2, <1>4, <1>6, TextsSkips
<1>9. ToSet(u.rows) = ToSet(t.rows) \cup ToSet(rows)
  <2> DEFINE old == t.rows
  <2>1. old \in Seq(RowType)
    BY <1>2, TaskFields
  <2>2. u.rows = old \o rows
    BY <1>5
  <2> HIDE DEF old
  <2>3. ToSet(old \o rows) = ToSet(old) \cup ToSet(rows)
    BY <1>4, <2>1, Concat
  <2> QED
    BY <2>2, <2>3 DEF old
<1> HIDE DEF more
<1>10. GoodTask(u)
  BY <1>2 DEF GoodTask
<1>11. TextStory(u, more, j)
  BY <1>1, <1>2, <1>8 DEF TextStory
<1>12. RowStory(u, more, j)
  <2>1. ASSUME NEW row \in ToSet(t.rows)
        PROVE  RowTold(u, more, row)
    <3>1. RowTold(t, events, row)
      BY <1>2, <2>1 DEF RowStory
    <3> QED
      BY <1>7, <3>1 DEF RowTold
  <2>2. ASSUME NEW row \in ToSet(rows)
        PROVE  RowTold(u, more, row)
    <3>1. PICK call \in ToSet(shown) : row = Row(call, "none")
      BY <1>4, <2>2
    <3>2. row.call = call /\ row.outcome = "none"
      BY <3>1 DEF Row
    <3>3. calls # <<>>
      BY <1>3, EmptyHasNone
    <3>4. u.pc = "tools" /\ call \in ToSet(u.calls) \ u.results
      BY <1>2, <1>3, <3>3 DEF GoodTask
    <3>5. Event("tool_call", call) \in ToSet(more)
      BY <1>4, <1>7
    <3> QED
      BY <1>3, <3>2, <3>4, <3>5 DEF RowTold
  <2>3. ASSUME NEW e \in ToolCalls(more)
        PROVE  HasRow(u.rows, e) \/ HasRow(j.rows, e)
    <3>1. CASE e \in ToSet(events)
      BY <1>1, <1>2, <1>9, <2>3, <3>1 DEF RowStory, ToolCalls, HasRow
    <3>2. CASE e \in ToSet(new)
      <4>1. PICK call \in ToSet(shown) : e = Event("tool_call", call)
        BY <1>4, <3>2
      <4>2. Row(call, "none") \in ToSet(u.rows)
        BY <1>4, <1>9
      <4>3. Row(call, "none").call = e.of
        BY <4>1 DEF Row, Event
      <4> QED
        BY <4>2, <4>3 DEF HasRow
    <3> QED
      BY <1>7, <3>1, <3>2 DEF ToolCalls
  <2> QED
    BY <1>2, <1>7, <1>9, <2>1, <2>2, <2>3 DEF RowStory
<1>13. GoodHistory(u)
  <2> DEFINE h == t.history
  <2>1. h \in Seq(Items) /\ t.text \in BOOLEAN
    BY <1>2, TaskFields
  <2>2. m \in OwnMessages /\ m \in Items /\ m # UserMessage
    BY <2>1, AnswerIsAMessage, OwnMessagesAreNotTheUsers DEF Items
  <2>3. /\ \E i \in DOMAIN h : h[i] = UserMessage
        /\ Accepts(Opening(h)) => Accepts(h)
    BY <1>2 DEF GoodHistory
  <2>4. u.history = Append(h, m)
    OBVIOUS
  <2>5. \A text \in BOOLEAN : m = AnswerMessage(text, calls) /\ Accepts(h) =>
          Checked(Append(h, m)) = [ok |-> TRUE, open |-> ToSet(calls)]
    <3> HIDE DEF h, m
    <3> QED
      BY <2>1, <2>2, AnswerWaits
  <2>6. m = AnswerMessage(t.text, calls)
    OBVIOUS
  <2> HIDE DEF m, h
  <2>7. /\ Opening(u.history) = Opening(h)
        /\ \E i \in DOMAIN u.history : u.history[i] = UserMessage
    <3> DEFINE one == <<m>>
    <3>1. Append(h, m) = h \o one /\ one \in Seq(Items) /\ ToSet(one) = {m}
      BY <2>1, <2>2, Appending
    <3> HIDE DEF one
    <3>2. UserMessage \notin ToSet(one)
      BY <2>2, <3>1
    <3>3. /\ Opening(h \o one) = Opening(h)
          /\ \E i \in DOMAIN (h \o one) : (h \o one)[i] = UserMessage
      <4>1. h \in Seq(Items) /\ one \in Seq(Items)
        BY <2>1, <3>1
      <4>2. \E i \in DOMAIN h : h[i] = UserMessage
        BY <2>3
      <4> QED
        BY <3>2, <4>1, <4>2, OpeningStays
    <3> QED
      BY <2>4, <3>1, <3>3
  <2>8. ASSUME Accepts(Opening(u.history))
        PROVE  Checked(u.history) = [ok |-> TRUE, open |-> ToSet(u.calls)]
    <3>1. Accepts(h)
      BY <2>3, <2>7, <2>8
    <3> QED
      BY <2>1, <2>4, <2>5, <2>6, <3>1
  <2>9. NumbersUp(u.calls, u.made) /\ u.pc \notin {"ask", "listen"}
    OBVIOUS
  <2> QED
    BY <2>7, <2>8, <2>9 DEF GoodHistory
<1>14. Good(u, more, j)
  <2>1. ToSet(more) \cap {Done, Sentinel} = {}
    BY <1>2, <1>6, <1>7
  <2> QED
    BY <1>1, <1>2, <1>7, <1>10, <1>11, <1>12, <1>13, <2>1, WorkKeeps
<1> QED
  BY <1>14 DEF more, new, shown

LEMMA ResultsAreMessages ==
  ASSUME NEW calls \in Seq(CallType)
  PROVE  LET results == [i \in DOMAIN calls |-> ResultMessage(calls[i])]
         IN  results \in Seq(Items) /\ UserMessage \notin ToSet(results)
<1> DEFINE n == Len(calls)
           results == [i \in DOMAIN calls |-> ResultMessage(calls[i])]
<1>1. n \in Nat /\ DOMAIN calls = 1..n /\ \A i \in 1..n : calls[i] \in CallType
  BY LenProperties, ElementOfSeq
<1>2. \A call \in CallType : ResultMessage(call) \in OwnMessages
  BY DEF OwnMessages
<1>3. results \in [1..n -> OwnMessages]
  BY <1>1, <1>2
<1> HIDE DEF results, n
<1>4. results \in Seq(OwnMessages)
  BY <1>1, <1>3, FunctionIsSeq
<1>5. results \in Seq(Items)
  <2>1. OwnMessages \subseteq Items
    BY DEF Items
  <2> QED
    BY <1>4, <2>1, SeqMonotonic
<1>6. UserMessage \notin ToSet(results)
  BY <1>3, OwnMessagesAreNotTheUsers DEF ToSet
<1> QED
  BY <1>5, <1>6 DEF results

\* Outcomes gives each row of the call its outcome and leaves the others.
LEMMA OutcomesAre ==
  ASSUME NEW rows \in Seq(RowType), NEW call \in CallType, NEW outcome \in Verdicts
  PROVE  /\ Outcomes(rows, call, outcome) \in Seq(RowType)
         /\ \A row \in ToSet(Outcomes(rows, call, outcome)) :
              \/ row = Row(call, outcome) /\ \E old \in ToSet(rows) : old.call = call
              \/ row \in ToSet(rows) /\ row.call # call
         /\ \A old \in ToSet(rows) : \E row \in ToSet(Outcomes(rows, call, outcome)) :
              row.call = old.call
<1> DEFINE n == Len(rows)
           new == Outcomes(rows, call, outcome)
<1>1. n \in Nat /\ DOMAIN rows = 1..n /\ \A i \in 1..n : rows[i] \in RowType
  BY LenProperties, ElementOfSeq
<1>2. Row(call, outcome) \in RowType /\ Row(call, outcome).call = call
  BY DEF RowType, Row
<1>3. new = [i \in 1..n |-> IF rows[i].call = call THEN Row(call, outcome) ELSE rows[i]]
  BY <1>1 DEF Outcomes
<1> HIDE DEF new, n
<1>4. new \in [1..n -> RowType]
  BY <1>1, <1>2, <1>3
<1>5. new \in Seq(RowType)
  BY <1>1, <1>4, FunctionIsSeq
<1>6. \A i \in 1..n : new[i] = IF rows[i].call = call THEN Row(call, outcome) ELSE rows[i]
  BY <1>3
<1>7. ToSet(new) = {new[i] : i \in 1..n} /\ ToSet(rows) = {rows[i] : i \in 1..n}
  BY <1>1, <1>4 DEF ToSet
<1>8. ASSUME NEW row \in ToSet(new)
      PROVE  \/ row = Row(call, outcome) /\ \E old \in ToSet(rows) : old.call = call
             \/ row \in ToSet(rows) /\ row.call # call
  <2>1. PICK i \in 1..n : row = new[i]
    BY <1>7
  <2>2. rows[i] \in ToSet(rows)
    BY <1>7
  <2> QED
    BY <1>6, <2>1, <2>2
<1>9. ASSUME NEW old \in ToSet(rows)
      PROVE  \E row \in ToSet(new) : row.call = old.call
  <2>1. PICK i \in 1..n : old = rows[i]
    BY <1>7
  <2>2. new[i] \in ToSet(new) /\ new[i].call = old.call
    BY <1>2, <1>6, <1>7, <2>1
  <2> QED
    BY <2>2
<1> QED
  BY <1>5, <1>8, <1>9 DEF new

\* A message of a tool, the last one or not.
LEMMA MessageKeeps ==
  ASSUME NEW t, NEW events, NEW j, Good(t, events, j), t.pc = "tools",
         NEW call \in CallType, call \in ToSet(t.calls) \ t.results,
         NEW outcome \in Verdicts,
         NEW u \in TaskType,
         \/ /\ t.results \cup {call} = ToSet(t.calls)
            /\ u.results = {} /\ u.calls = <<>> /\ u.pc = "ask"
            /\ u.history = ThreadWith(t.history, t.calls)
         \/ /\ t.results \cup {call} # ToSet(t.calls)
            /\ u.results = t.results \cup {call} /\ u.calls = t.calls
            /\ u.pc = t.pc /\ u.history = t.history,
         u.rows = Outcomes(t.rows, call, outcome),
         u.chunks = t.chunks, u.made = t.made,
         NEW new, new = IF call[2] \in MappedTools THEN <<Event(outcome, call)>> ELSE <<>>
  PROVE  Good(u, events \o new, j)
<1> DEFINE more == events \o new
           rows == t.rows
           x == Event(outcome, call)
           last == t.results \cup {call} = ToSet(t.calls)
<1>1. Live(t.pc) /\ Live(u.pc) /\ u.pc # "none" /\ u.pc # "store_rows" /\ u.pc # "store_message"
  BY DEF Live
<1>2. /\ t \in TaskType /\ events \in Seq(EventType) /\ j \in JournalType
      /\ ToSet(events) \cap {Done, Sentinel} = {}
      /\ GoodTask(t) /\ TextStory(t, events, j) /\ RowStory(t, events, j) /\ GoodHistory(t)
  BY <1>1, AtWork
<1>3. /\ x \in EventType /\ x.type # "tool_call" /\ x \notin {Done, Sentinel} \cup ChunkEvents
  BY DEF EventType, Event, Done, Sentinel, ChunkEvents, Verdicts
<1>4. /\ new \in Seq(EventType)
      /\ ToSet(new) = IF call[2] \in MappedTools THEN {x} ELSE {}
  <2> HIDE DEF x
  <2>1. <<x>> \in Seq(EventType) /\ ToSet(<<x>>) = {x}
    BY <1>3 DEF ToSet
  <2> QED
    BY <2>1, EmptyHasNone DEF x
<1> HIDE DEF x
<1>5. more \in Seq(EventType) /\ ToSet(more) = ToSet(events) \cup ToSet(new)
  <2>1. events \in Seq(EventType) /\ new \in Seq(EventType)
    BY <1>2, <1>4
  <2>2. (events \o new) \in Seq(EventType) /\ ToSet(events \o new) = ToSet(events) \cup ToSet(new)
    BY ONLY <2>1, Concat
  <2> QED
    BY <2>2
<1>6. Texts(more) = Texts(events)
  <2>1. Silent(new)
    BY <1>3, <1>4 DEF Silent
  <2> QED
    BY <1>2, <1>4, <2>1, TextsSkips
<1> HIDE DEF more
<1>7. ToolCalls(more) = ToolCalls(events) /\ ToSet(more) \cap {Done, Sentinel} = {}
  BY <1>2, <1>3, <1>4, <1>5 DEF ToolCalls
<1>8. GoodTask(u)
  BY <1>2 DEF GoodTask
<1>9. TextStory(u, more, j)
  BY <1>1, <1>2, <1>6 DEF TextStory
<1>10. RowStory(u, more, j)
  <2>1. /\ \A row \in ToSet(u.rows) :
             \/ row = Row(call, outcome) /\ \E old \in ToSet(rows) : old.call = call
             \/ row \in ToSet(rows) /\ row.call # call
        /\ \A old \in ToSet(rows) : \E row \in ToSet(u.rows) : row.call = old.call
    <3>1. rows \in Seq(RowType) /\ u.rows = Outcomes(rows, call, outcome)
      BY <1>2, TaskFields
    <3> HIDE DEF rows
    <3> QED
      BY <3>1, OutcomesAre
  <2>2. ASSUME NEW row \in ToSet(u.rows)
        PROVE  RowTold(u, more, row)
    <3>1. CASE row = Row(call, outcome) /\ \E old \in ToSet(rows) : old.call = call
      <4>1. PICK old \in ToSet(rows) : old.call = call
        BY <3>1
      <4>2. RowTold(t, events, old)
        BY <1>2 DEF RowStory
      <4>3. row.call = call /\ row.outcome = outcome /\ outcome # "none"
        BY <3>1 DEF Row, Verdicts
      <4>4. /\ Event("tool_call", call) \in ToSet(more) /\ call[2] \in MappedTools
            /\ Event(outcome, call) \in ToSet(more)
        BY <1>4, <1>5, <4>1, <4>2 DEF RowTold, x
      <4> QED
        BY <4>3, <4>4 DEF RowTold
    <3>2. CASE row \in ToSet(rows) /\ row.call # call
      <4>1. RowTold(t, events, row)
        BY <1>2, <3>2 DEF RowStory
      <4>2. ASSUME row.outcome = "none"
            PROVE  u.pc = "tools" /\ row.call \in ToSet(u.calls) \ u.results
        <5>1. row.call \in ToSet(t.calls) \ t.results
          BY <4>1, <4>2 DEF RowTold
        <5>2. ~ last
          BY <3>2, <5>1
        <5> QED
          BY <3>2, <5>1, <5>2
      <4> QED
        BY <1>5, <4>1, <4>2 DEF RowTold
    <3> QED
      BY <2>1, <3>1, <3>2
  <2>3. ASSUME NEW e \in ToolCalls(more)
        PROVE  HasRow(u.rows, e) \/ HasRow(j.rows, e)
    <3>1. HasRow(rows, e) \/ HasRow(j.rows, e)
      BY <1>1, <1>2, <1>7, <2>3 DEF RowStory
    <3> QED
      BY <2>1, <3>1 DEF HasRow
  <2> QED
    BY <1>2, <1>5, <2>2, <2>3 DEF RowStory
<1>11. GoodHistory(u)
  <2> DEFINE h == t.history
             calls == t.calls
             all == ThreadWith(h, calls)
             results == [i \in DOMAIN calls |-> ResultMessage(calls[i])]
  <2>1. /\ h \in Seq(Items) /\ calls \in Seq(CallType) /\ t.made \in Nat
    BY <1>2, TaskFields
  <2>2. /\ NumbersUp(calls, t.made)
        /\ \E i \in DOMAIN h : h[i] = UserMessage
        /\ Accepts(Opening(h)) => Checked(h) = [ok |-> TRUE, open |-> ToSet(calls)]
    BY <1>2 DEF GoodHistory
  <2>3. CASE ~ last
    BY <2>2, <2>3 DEF GoodHistory
  <2>4. CASE last
    <3>1. u.history = all /\ u.pc = "ask" /\ u.calls = <<>>
      BY <2>4
    <3>2. NumbersUp(u.calls, u.made)
      BY <3>1, EmptyHasNone DEF NumbersUp
    <3>3. all = h \o results
      BY DEF ThreadWith
    <3>4. results \in Seq(Items) /\ UserMessage \notin ToSet(results)
      <4> HIDE DEF calls
      <4> QED
        BY <2>1, ResultsAreMessages
    <3> HIDE DEF h, results, calls
    <3>5. Opening(all) = Opening(h) /\ \E i \in DOMAIN all : all[i] = UserMessage
      <4>1. \E i \in DOMAIN h : h[i] = UserMessage
        BY <2>2
      <4> QED
        BY <2>1, <3>3, <3>4, <4>1, OpeningStays
    <3>6. ASSUME Accepts(Opening(h))
          PROVE  Accepts(all)
      <4>1. Checked(h) = [ok |-> TRUE, open |-> ToSet(calls)]
        BY <2>2, <3>6
      <4>2. \A i, k \in DOMAIN calls : i # k => calls[i] # calls[k]
        BY <2>1, <2>2, NumbersStayUp
      <4>3. {ResultMessage(c) : c \in CallType} \subseteq Items
        BY DEF Items, OwnMessages
      <4>4. all \in Seq(Items) /\ Checked(all) = AllAnswered
        BY <2>1, <4>1, <4>2, <4>3, ResultsAnswer
      <4> HIDE DEF all
      <4> QED
        BY <4>4, AcceptsMeans DEF AllAnswered
    <3> HIDE DEF all
    <3> QED
      BY <3>1, <3>2, <3>5, <3>6 DEF GoodHistory
  <2> QED
    BY <2>3, <2>4
<1>12. Good(u, more, j)
  BY <1>1, <1>2, <1>5, <1>7, <1>8, <1>9, <1>10, <1>11, WorkKeeps
<1> QED
  BY <1>12 DEF more

\* A row that is stored is no longer the task's.
LEMMA RowKeeps ==
  ASSUME NEW t, NEW events, NEW j, Good(t, events, j), t.pc = "store_rows", t.rows # <<>>,
         NEW u \in TaskType, u.pc = t.pc, u.history = t.history, u.calls = t.calls,
         u.results = t.results, u.chunks = t.chunks, u.rows = Tail(t.rows), u.made = t.made,
         NEW k \in JournalType, k.message = j.message, k.answer = j.answer,
         k.rows = Append(j.rows, Head(t.rows))
  PROVE  Good(u, events, k)
<1> DEFINE rows == t.rows
           stored == j.rows
           row == Head(rows)
<1>1. Live(t.pc) /\ Live(u.pc) /\ u.pc # "none"
  BY DEF Live
<1>2. /\ t \in TaskType /\ events \in Seq(EventType) /\ j \in JournalType
      /\ ToSet(events) \cap {Done, Sentinel} = {}
      /\ GoodTask(t) /\ TextStory(t, events, j) /\ RowStory(t, events, j) /\ GoodHistory(t)
  BY <1>1, AtWork
<1>3. GoodTask(u)
  BY <1>2 DEF GoodTask
<1>4. TextStory(u, events, k)
  BY <1>1, <1>2 DEF TextStory
<1>5. /\ rows \in Seq(RowType) /\ rows # <<>> /\ stored \in Seq(RowType)
      /\ u.rows = Tail(rows) /\ k.rows = Append(stored, row)
  BY <1>2, TaskFields DEF JournalType
<1>6. /\ \A r \in ToSet(rows) : RowTold(t, events, r)
      /\ \A r \in ToSet(stored) :
           {Event("tool_call", r.call), Event(r.outcome, r.call)} \subseteq ToSet(events)
      /\ \A e \in ToolCalls(events) : HasRow(rows, e) \/ HasRow(stored, e)
  BY <1>1, <1>2 DEF RowStory
<1> HIDE DEF rows, stored
<1>7. row \in ToSet(rows) /\ ToSet(rows) = {row} \cup ToSet(u.rows) /\ row \in RowType
  <2>1. row \in ToSet(rows) /\ ToSet(rows) = {row} \cup ToSet(u.rows)
    <3>1. rows \in Seq(RowType) /\ rows # <<>>
      BY <1>5
    <3>2. Head(rows) \in ToSet(rows) /\ ToSet(rows) = {Head(rows)} \cup ToSet(Tail(rows))
      BY <3>1, SomeElement
    <3> QED
      BY <1>5, <3>2
  <2>2. DOMAIN rows = 1..Len(rows) /\ \A i \in 1..Len(rows) : rows[i] \in RowType
    BY <1>5, LenProperties, ElementOfSeq
  <2> QED
    BY <2>1, <2>2 DEF ToSet
<1> HIDE DEF row
<1>8. ToSet(k.rows) = ToSet(stored) \cup {row}
  <2>1. ToSet(Append(stored, row)) = ToSet(stored) \cup {row}
    <3>1. stored \in Seq(RowType) /\ row \in RowType
      BY <1>5, <1>7
    <3> QED
      BY <3>1, AppendSet
  <2> QED
    BY <1>5, <2>1
<1>9. \A r \in ToSet(u.rows) : RowTold(u, events, r)
  BY <1>6, <1>7 DEF RowTold
<1>10. {Event("tool_call", row.call), Event(row.outcome, row.call)} \subseteq ToSet(events)
  BY <1>6, <1>7 DEF RowTold
<1>11. \A e \in ToolCalls(events) : HasRow(u.rows, e) \/ HasRow(k.rows, e)
  BY <1>6, <1>7, <1>8 DEF HasRow
<1>12. RowStory(u, events, k)
  BY <1>6, <1>8, <1>9, <1>10, <1>11 DEF RowStory
<1>13. GoodHistory(u)
  BY <1>2 DEF GoodHistory
<1> QED
  BY <1>1, <1>2, <1>3, <1>4, <1>12, <1>13, WorkKeeps
-----------------------------------------------------------------------------
(* All streams: each step is a step of one, and leaves the others alone.   *)

StreamsInv ==
  /\ task \in [Streams -> TaskType] /\ told \in [Streams -> Seq(EventType)]
  /\ journal \in [Streams -> JournalType] /\ thread \in Seq(Items)
  /\ \A s \in Streams : Good(task[s], told[s], journal[s])

LEMMA Same ==
  ASSUME NEW S, NEW T, NEW f \in [S -> T], NEW s \in S
  PROVE  [f EXCEPT ![s] = f[s]] = f /\ f[s] \in T
OBVIOUS

LEMMA OneStream ==
  ASSUME StreamsInv, NEW s \in Streams, NEW u \in TaskType, NEW more \in Seq(EventType),
         NEW k \in JournalType, Good(u, more, k), thread' \in Seq(Items),
         task' = [task EXCEPT ![s] = u], told' = [told EXCEPT ![s] = more],
         journal' = [journal EXCEPT ![s] = k]
  PROVE  StreamsInv'
<1> DEFINE TT == TaskType
           ET == Seq(EventType)
           JT == JournalType
<1>1. /\ task \in [Streams -> TT] /\ told \in [Streams -> ET] /\ journal \in [Streams -> JT]
      /\ u \in TT /\ more \in ET /\ k \in JT
      /\ \A q \in Streams : Good(task[q], told[q], journal[q])
  BY DEF StreamsInv
<1> HIDE DEF TT, ET, JT
<1>2. task' \in [Streams -> TT] /\ told' \in [Streams -> ET] /\ journal' \in [Streams -> JT]
  BY <1>1
<1>3. ASSUME NEW q \in Streams
      PROVE  Good(task'[q], told'[q], journal'[q])
  <2>1. CASE q = s
    <3>1. task'[q] = u /\ told'[q] = more /\ journal'[q] = k
      BY <1>1, <2>1
    <3> QED
      BY <3>1
  <2>2. CASE q # s
    <3>1. task'[q] = task[q] /\ told'[q] = told[q] /\ journal'[q] = journal[q]
      BY <1>1, <2>2
    <3> QED
      BY <1>1, <3>1
  <2> QED
    BY <2>1, <2>2
<1> QED
  BY <1>2, <1>3 DEF StreamsInv, TT, ET, JT

LEMMA StreamParts ==
  ASSUME StreamsInv, NEW s \in Streams
  PROVE  /\ Good(task[s], told[s], journal[s])
         /\ task[s] \in TaskType /\ told[s] \in Seq(EventType) /\ journal[s] \in JournalType
         /\ [told EXCEPT ![s] = told[s]] = told /\ [journal EXCEPT ![s] = journal[s]] = journal
         /\ [task EXCEPT ![s] = task[s]] = task /\ thread \in Seq(Items)
<1>1. [told EXCEPT ![s] = told[s]] = told /\ told[s] \in Seq(EventType)
  BY Same DEF StreamsInv
<1>2. [journal EXCEPT ![s] = journal[s]] = journal /\ journal[s] \in JournalType
  BY Same DEF StreamsInv
<1>3. [task EXCEPT ![s] = task[s]] = task /\ task[s] \in TaskType
  BY Same DEF StreamsInv
<1> QED
  BY <1>1, <1>2, <1>3 DEF StreamsInv

\* A new place is all that changes in the task.
LEMMA NewPlace ==
  ASSUME NEW t \in TaskType, NEW label \in Labels
  PROVE  LET u == [t EXCEPT !.pc = label]
         IN  /\ u \in TaskType /\ u.pc = label /\ u.history = t.history /\ u.calls = t.calls
             /\ u.results = t.results /\ u.chunks = t.chunks /\ u.rows = t.rows
             /\ u.made = t.made
BY DEF TaskType

LEMMA StartStep ==
  ASSUME StreamsInv, NEW s \in Streams, Start(s)
  PROVE  StreamsInv'
<1> DEFINE t == task[s]
           u == [t EXCEPT !.pc = "store_message"]
<1>1. /\ Good(t, told[s], journal[s]) /\ t \in TaskType /\ thread \in Seq(Items)
      /\ told[s] \in Seq(EventType) /\ journal[s] \in JournalType
      /\ [told EXCEPT ![s] = told[s]] = told /\ [journal EXCEPT ![s] = journal[s]] = journal
  BY StreamParts
<1>2. /\ t.pc = "none" /\ task' = [task EXCEPT ![s] = u]
      /\ told' = told /\ journal' = journal /\ thread' = thread
  BY DEF Start, Pc
<1> HIDE DEF t
<1>3. /\ u \in TaskType /\ u.pc = "store_message" /\ u.history = t.history /\ u.calls = t.calls
      /\ u.results = t.results /\ u.chunks = t.chunks /\ u.rows = t.rows /\ u.made = t.made
  BY <1>1, NewPlace DEF Labels
<1> HIDE DEF u
<1>4. Good(u, told[s], journal[s])
  BY <1>1, <1>2, <1>3, StepKeeps
<1> QED
  BY <1>1, <1>2, <1>3, <1>4, OneStream

LEMMA StoreMessageStep ==
  ASSUME StreamsInv, NEW s \in Streams, StoreMessage(s)
  PROVE  StreamsInv'
<1> DEFINE t == task[s]
           j == journal[s]
           u == [t EXCEPT !.pc = "begin"]
           k == [j EXCEPT !.message = TRUE]
<1>1. /\ Good(t, told[s], j) /\ t \in TaskType /\ thread \in Seq(Items)
      /\ told[s] \in Seq(EventType) /\ j \in JournalType
      /\ [told EXCEPT ![s] = told[s]] = told
  BY StreamParts
<1>2. /\ t.pc = "store_message" /\ task' = [task EXCEPT ![s] = u]
      /\ told' = told /\ journal' = [journal EXCEPT ![s] = k] /\ thread' = thread
  BY DEF StoreMessage, Pc
<1> HIDE DEF t, j
<1>3. /\ u \in TaskType /\ u.pc = "begin" /\ u.history = t.history /\ u.calls = t.calls
      /\ u.results = t.results /\ u.chunks = t.chunks /\ u.rows = t.rows /\ u.made = t.made
  BY <1>1, NewPlace DEF Labels
<1>4. k \in JournalType /\ k.message /\ k.answer = j.answer /\ k.rows = j.rows
  BY <1>1 DEF JournalType
<1> HIDE DEF u, k
<1>5. Good(u, told[s], k)
  BY <1>1, <1>2, <1>3, <1>4, StepKeeps
<1> QED
  BY <1>1, <1>2, <1>3, <1>4, <1>5, OneStream

LEMMA BeginRunStep ==
  ASSUME StreamsInv, NEW s \in Streams, BeginRun(s)
  PROVE  StreamsInv'
<1> DEFINE t == task[s]
           new == Append(thread, UserMessage)
           u == [t EXCEPT !.pc = "ask", !.history = new]
<1>1. /\ Good(t, told[s], journal[s]) /\ t \in TaskType /\ thread \in Seq(Items)
      /\ told[s] \in Seq(EventType) /\ journal[s] \in JournalType
      /\ [told EXCEPT ![s] = told[s]] = told /\ [journal EXCEPT ![s] = journal[s]] = journal
  BY StreamParts
<1>2. UserMessage \in Items
  BY DEF Items
<1>3. /\ Opening(new) = new /\ \E i \in DOMAIN new : new[i] = UserMessage
      /\ new \in Seq(Items)
  BY <1>1, <1>2, OpeningOfNew, Appending
<1>4. /\ t.pc = "begin" /\ task' = [task EXCEPT ![s] = u]
      /\ told' = told /\ journal' = journal /\ thread' = new
  BY DEF BeginRun, Pc
<1> HIDE DEF t, new
<1>5. /\ u \in TaskType /\ u.pc = "ask" /\ u.history = new /\ u.calls = t.calls
      /\ u.results = t.results /\ u.chunks = t.chunks /\ u.rows = t.rows /\ u.made = t.made
  BY <1>1, <1>3 DEF TaskType, Labels
<1> HIDE DEF u
<1>6. Good(u, told[s], journal[s])
  BY <1>1, <1>3, <1>4, <1>5, StepKeeps
<1>7. /\ thread' \in Seq(Items) /\ told' = [told EXCEPT ![s] = told[s]]
      /\ journal' = [journal EXCEPT ![s] = journal[s]]
  BY <1>1, <1>3, <1>4
<1>8. task' = [task EXCEPT ![s] = u] /\ u \in TaskType /\ told[s] \in Seq(EventType)
      /\ journal[s] \in JournalType
  BY <1>1, <1>4, <1>5
<1> QED
  BY <1>6, <1>7, <1>8, OneStream

\* All failures are alike.
LEMMA FailStep ==
  ASSUME StreamsInv, NEW s \in Streams, Live(task[s].pc), Fail(s),
         UNCHANGED <<thread, journal>>
  PROVE  StreamsInv'
<1> DEFINE t == task[s]
           u == Over(t, "ended")
           end == <<StreamFailed, Done, Sentinel>>
           more == told[s] \o end
<1>1. /\ Good(t, told[s], journal[s]) /\ t \in TaskType /\ thread \in Seq(Items)
      /\ told[s] \in Seq(EventType) /\ journal[s] \in JournalType
      /\ [journal EXCEPT ![s] = journal[s]] = journal
  BY StreamParts
<1>2. /\ task' = [task EXCEPT ![s] = u] /\ told' = [told EXCEPT ![s] = more]
      /\ journal' = journal /\ thread' = thread
  BY DEF Fail, Put
<1>3. Good(u, more, journal[s])
  BY <1>1, FailKeeps
<1>4. u \in TaskType /\ more \in Seq(EventType)
  BY <1>3 DEF Good
<1> HIDE DEF u, more
<1> QED
  BY <1>1, <1>2, <1>3, <1>4, OneStream

LEMMA AskStep ==
  ASSUME StreamsInv, NEW s \in Streams, Ask(s)
  PROVE  StreamsInv'
<1> DEFINE t == task[s]
           u == [t EXCEPT !.pc = "listen"]
<1>1. /\ Good(t, told[s], journal[s]) /\ t \in TaskType /\ thread \in Seq(Items)
      /\ told[s] \in Seq(EventType) /\ journal[s] \in JournalType
      /\ [told EXCEPT ![s] = told[s]] = told /\ [journal EXCEPT ![s] = journal[s]] = journal
  BY StreamParts
<1>2. t.pc = "ask" /\ UNCHANGED <<thread, journal>>
  BY DEF Ask, Pc
<1>3. CASE Accepts(t.history)
  <2>1. task' = [task EXCEPT ![s] = u] /\ told' = told
    BY <1>3 DEF Ask
  <2> HIDE DEF t
  <2>2. /\ u \in TaskType /\ u.pc = "listen" /\ u.history = t.history /\ u.calls = t.calls
        /\ u.results = t.results /\ u.chunks = t.chunks /\ u.rows = t.rows /\ u.made = t.made
    BY <1>1, NewPlace DEF Labels
  <2> HIDE DEF u
  <2>3. Good(u, told[s], journal[s])
    BY <1>1, <1>2, <1>3, <2>2, StepKeeps
  <2> QED
    BY <1>1, <1>2, <2>1, <2>2, <2>3, OneStream
<1>4. CASE ~ Accepts(t.history)
  <2>1. Fail(s) /\ Live(t.pc)
    BY <1>2, <1>4 DEF Ask, Live
  <2> QED
    BY <1>2, <2>1, FailStep
<1> QED
  BY <1>3, <1>4

LEMMA HearTextStep ==
  ASSUME StreamsInv, NEW s \in Streams, NEW text \in Words, HearText(s, text)
  PROVE  StreamsInv'
<1> DEFINE t == task[s]
           chunks == Append(t.chunks, text)
           u == [t EXCEPT !.text = TRUE, !.chunks = chunks]
           more == told[s] \o <<Event("message_chunk", text)>>
<1>1. /\ Good(t, told[s], journal[s]) /\ t \in TaskType /\ thread \in Seq(Items)
      /\ told[s] \in Seq(EventType) /\ journal[s] \in JournalType
      /\ [journal EXCEPT ![s] = journal[s]] = journal
  BY StreamParts
<1>2. /\ t.pc = "listen" /\ task' = [task EXCEPT ![s] = u]
      /\ told' = [told EXCEPT ![s] = more] /\ journal' = journal /\ thread' = thread
  BY DEF HearText, Pc, Put
<1> HIDE DEF t
<1>3. chunks \in Seq(Words)
  <2>1. t.chunks \in Seq(Words)
    BY <1>1, TaskFields
  <2> QED
    BY <2>1, AppendProperties
<1> HIDE DEF chunks
<1>4. /\ u \in TaskType /\ u.pc = t.pc /\ u.history = t.history /\ u.calls = t.calls
      /\ u.results = t.results /\ u.chunks = chunks /\ u.rows = t.rows /\ u.made = t.made
  BY <1>1, <1>3 DEF TaskType
<1> HIDE DEF u
<1>5. Good(u, more, journal[s])
  BY <1>1, <1>2, <1>4, ChunkKeeps DEF chunks
<1>6. more \in Seq(EventType)
  BY <1>5 DEF Good
<1> HIDE DEF more
<1> QED
  BY <1>1, <1>2, <1>4, <1>5, <1>6, OneStream

LEMMA HearToolCallStep ==
  ASSUME StreamsInv, NEW s \in Streams, NEW tool, HearToolCall(s, tool)
  PROVE  /\ StreamsInv' /\ <<task[s].made + 1, tool>> \in CallType
         /\ task'[s].made = task[s].made + 1 /\ task'[s].pc = task[s].pc
         /\ task'[s].calls = task[s].calls \o ToolCallFrames(<<task[s].made + 1, tool>>)
         /\ \A q \in Streams \ {s} : task'[q] = task[q]
<1> DEFINE t == task[s]
           made == t.made + 1
           call == <<made, tool>>
           calls == t.calls \o ToolCallFrames(call)
           u == [t EXCEPT !.made = made, !.calls = calls]
<1>1. /\ Good(t, told[s], journal[s]) /\ t \in TaskType /\ thread \in Seq(Items)
      /\ told[s] \in Seq(EventType) /\ journal[s] \in JournalType
      /\ [told EXCEPT ![s] = told[s]] = told /\ [journal EXCEPT ![s] = journal[s]] = journal
  BY StreamParts
<1>2. /\ t.pc = "listen" /\ call[1] \in DOMAIN Calls[s] /\ tool \in Calls[s][call[1]]
      /\ task' = [task EXCEPT ![s] = u]
      /\ told' = told /\ journal' = journal /\ thread' = thread
  BY DEF HearToolCall, Pc
<1> HIDE DEF t
<1>3. t.calls \in Seq(CallType) /\ made \in Nat
  <2>1. t.calls \in Seq(CallType) /\ t.made \in Nat
    BY <1>1, TaskFields
  <2> QED
    BY <2>1
<1> HIDE DEF made
<1>4. call \in CallType /\ call[1] = made
  <2>1. Calls[s][made] \in Range(Calls[s])
    BY <1>2 DEF Range
  <2> QED
    BY <1>2, <1>3, <2>1 DEF CallType
<1> HIDE DEF call
<1>5. calls \in {t.calls, Append(t.calls, call)} /\ calls \in Seq(CallType)
  <2> DEFINE before == t.calls
  <2>1. before \in Seq(CallType)
    BY <1>3
  <2> HIDE DEF before
  <2>2. /\ before \o <<>> = before /\ Append(before, call) \in Seq(CallType)
        /\ Append(before, call) = before \o <<call>>
    BY <1>4, <2>1, ConcatEmptySeq, Appending
  <2>3. calls = before \o <<>> \/ calls = before \o <<call>>
    BY DEF ToolCallFrames, before
  <2> HIDE DEF calls
  <2> QED
    BY <2>1, <2>2, <2>3 DEF before
<1> HIDE DEF calls
<1>6. /\ u \in TaskType /\ u.pc = t.pc /\ u.history = t.history /\ u.calls = calls
      /\ u.results = t.results /\ u.chunks = t.chunks /\ u.rows = t.rows /\ u.made = made
  <2>1. t \in TaskType /\ made \in Nat /\ calls \in Seq(CallType)
    BY <1>1, <1>3, <1>5
  <2>2. u \in TaskType
    BY <2>1 DEF TaskType
  <2> QED
    BY <2>1, <2>2 DEF TaskType
<1> HIDE DEF u
<1>7. Good(u, told[s], journal[s])
  BY <1>1, <1>2, <1>4, <1>5, <1>6, CallKeeps DEF made
<1>8. StreamsInv'
  <2>1. told' = [told EXCEPT ![s] = told[s]] /\ journal' = [journal EXCEPT ![s] = journal[s]]
    BY <1>1, <1>2
  <2>2. thread' \in Seq(Items) /\ task' = [task EXCEPT ![s] = u] /\ u \in TaskType
    BY <1>1, <1>2, <1>6
  <2> QED
    BY <1>1, <1>7, <2>1, <2>2, OneStream
<1>9. task'[s] = u /\ \A q \in Streams \ {s} : task'[q] = task[q]
  BY <1>2 DEF StreamsInv
<1> QED
  BY <1>4, <1>6, <1>8, <1>9 DEF t, made, call, calls

LEMMA CompleteStep ==
  ASSUME StreamsInv, NEW s \in Streams, task[s].pc = "listen",
         NEW calls \in Seq(CallType), NumbersUp(calls, task[s].made),
         NEW broken \in BOOLEAN, AnswerComplete(s, calls, broken), UNCHANGED journal
  PROVE  StreamsInv'
<1> DEFINE t == task[s]
           m == AnswerMessage(t.text, calls)
           history == Append(t.history, m)
           shown == Mapped(calls)
           new == CallEvents(shown)
           more == told[s] \o new
           rows == NewRows(shown)
           allRows == t.rows \o rows
           label == IF calls = <<>> THEN "store_answer" ELSE "tools"
           tries == [i \in DOMAIN calls |-> 0]
           u == [t EXCEPT !.history = history, !.pc = label, !.calls = calls, !.tries = tries,
                          !.text = FALSE, !.broken = broken, !.rows = allRows]
<1>1. /\ Good(t, told[s], journal[s]) /\ t \in TaskType /\ thread \in Seq(Items)
      /\ told[s] \in Seq(EventType) /\ journal[s] \in JournalType
      /\ [journal EXCEPT ![s] = journal[s]] = journal
  BY StreamParts
<1>2. /\ task' = [task EXCEPT ![s] = u] /\ told' = [told EXCEPT ![s] = more]
      /\ journal' = journal /\ thread' = history
  <2>1. task' = [task EXCEPT ![s] = u]
    <3>1. task' = [task EXCEPT ![s].history = history, ![s].pc = label, ![s].calls = calls,
                               ![s].tries = tries, ![s].text = FALSE, ![s].broken = broken,
                               ![s].rows = @ \o rows]
      BY DEF AnswerComplete, NewRows
    <3> HIDE DEF history, label, tries, rows
    <3> QED
      BY <3>1
  <2>3. thread' = history
    BY DEF AnswerComplete
  <2>2. told' = [told EXCEPT ![s] = more] /\ journal' = journal
    BY DEF AnswerComplete, Put, CallEvents
  <2> QED
    BY <2>1, <2>2, <2>3
<1> HIDE DEF t
<1>3. /\ t.history \in Seq(Items) /\ t.text \in BOOLEAN /\ t.rows \in Seq(RowType)
  BY <1>1, TaskFields
<1>4. history \in Seq(Items)
  <2>1. m \in Items
    BY <1>3, AnswerIsAMessage DEF Items
  <2> HIDE DEF m
  <2> QED
    BY <1>3, <2>1, AppendProperties
<1>5. allRows \in Seq(RowType)
  <2>1. shown \in Seq(CallType)
    BY MappedAre
  <2> HIDE DEF shown
  <2>2. rows \in Seq(RowType)
    BY <2>1, ShownCalls
  <2> HIDE DEF rows
  <2> QED
    BY <1>3, <2>2, ConcatProperties
<1>6. tries \in Seq(Nat)
  <2>1. DOMAIN calls = 1..Len(calls) /\ Len(calls) \in Nat
    BY LenProperties
  <2>2. tries \in [1..Len(calls) -> Nat]
    BY <2>1
  <2> HIDE DEF tries
  <2> QED
    BY <2>1, <2>2, FunctionIsSeq
<1>7. label \in Labels
  BY DEF Labels
<1> HIDE DEF history, allRows, tries, label
<1>8. /\ u \in TaskType /\ u.pc = label /\ u.history = history /\ u.calls = calls
      /\ u.results = t.results /\ u.chunks = t.chunks /\ u.rows = allRows /\ u.made = t.made
  BY <1>1, <1>4, <1>5, <1>6, <1>7 DEF TaskType
<1> HIDE DEF u
<1>9. Good(u, more, journal[s])
  <2>1. t.pc = "listen" /\ NumbersUp(calls, t.made)
    BY DEF t
  <2> QED
    BY <1>1, <1>8, <2>1, AnswerKeeps DEF history, allRows, label
<1>10. more \in Seq(EventType)
  BY <1>9 DEF Good
<1> HIDE DEF more
<1>11. thread' \in Seq(Items) /\ journal' = [journal EXCEPT ![s] = journal[s]]
  BY <1>1, <1>2, <1>4
<1> QED
  BY <1>1, <1>2, <1>8, <1>9, <1>10, <1>11, OneStream

\* A message of a tool, whatever it says.
LEMMA ToolMessageStep ==
  ASSUME StreamsInv, NEW s \in Streams, NEW i, NEW outcome \in Verdicts,
         ToolMessage(s, i, outcome)
  PROVE  StreamsInv'
<1> DEFINE t == task[s]
           call == t.calls[i]
           last == t.results \cup {call} = ToSet(t.calls)
           results == IF last THEN {} ELSE t.results \cup {call}
           calls == IF last THEN <<>> ELSE t.calls
           tries == IF last THEN <<>> ELSE t.tries
           history == IF last THEN ThreadWith(t.history, t.calls) ELSE t.history
           label == IF last THEN "ask" ELSE t.pc
           rows == Outcomes(t.rows, call, outcome)
           new == IF call[2] \in MappedTools THEN <<Event(outcome, call)>> ELSE <<>>
           more == told[s] \o new
           u == [t EXCEPT !.results = results, !.calls = calls, !.tries = tries,
                          !.history = history, !.pc = label, !.rows = rows]
<1>1. /\ Good(t, told[s], journal[s]) /\ t \in TaskType /\ thread \in Seq(Items)
      /\ told[s] \in Seq(EventType) /\ journal[s] \in JournalType
      /\ [journal EXCEPT ![s] = journal[s]] = journal
  BY StreamParts
<1>2. /\ t.pc = "tools" /\ i \in DOMAIN t.calls /\ call \notin t.results
      /\ told' = [told EXCEPT ![s] = more] /\ journal' = journal
      /\ thread' = IF last THEN history ELSE thread
  BY DEF ToolMessage, Pc, Put, Unanswered
<1>3. task' = [task EXCEPT ![s] = u]
  BY DEF ToolMessage
<1> HIDE DEF t
<1>4. /\ t.history \in Seq(Items) /\ t.calls \in Seq(CallType) /\ t.rows \in Seq(RowType)
      /\ t.tries \in Seq(Nat) /\ t.results \subseteq CallType /\ t.pc \in Labels
  BY <1>1, TaskFields
<1>5. call \in CallType /\ call \in ToSet(t.calls) \ t.results
  <2>1. DOMAIN t.calls = 1..Len(t.calls) /\ \A k \in 1..Len(t.calls) : t.calls[k] \in CallType
    BY <1>4, LenProperties, ElementOfSeq
  <2> QED
    BY <1>2, <2>1 DEF ToSet
<1> HIDE DEF call
<1>6. rows \in Seq(RowType)
  BY <1>4, <1>5, OutcomesAre
<1>7. history \in Seq(Items)
  <2> DEFINE h == t.history
             cs == t.calls
             rs == [k \in DOMAIN cs |-> ResultMessage(cs[k])]
  <2>1. h \in Seq(Items) /\ cs \in Seq(CallType) /\ ThreadWith(h, cs) = h \o rs
    BY <1>4 DEF ThreadWith
  <2> HIDE DEF h, cs
  <2>2. rs \in Seq(Items)
    BY <2>1, ResultsAreMessages
  <2> HIDE DEF rs
  <2>3. ThreadWith(h, cs) \in Seq(Items)
    BY <2>1, <2>2, ConcatProperties
  <2> QED
    BY <1>4, <2>3 DEF h, cs
<1>8. /\ results \in SUBSET CallType /\ calls \in Seq(CallType) /\ tries \in Seq(Nat)
      /\ label \in Labels
  BY <1>4, <1>5, EmptyHasNone DEF Labels
<1> HIDE DEF last
<1>10. /\ \/ /\ t.results \cup {call} = ToSet(t.calls)
             /\ results = {} /\ calls = <<>> /\ label = "ask"
             /\ history = ThreadWith(t.history, t.calls)
          \/ /\ t.results \cup {call} # ToSet(t.calls)
             /\ results = t.results \cup {call} /\ calls = t.calls
             /\ label = t.pc /\ history = t.history
       /\ rows = Outcomes(t.rows, call, outcome)
       /\ new = IF call[2] \in MappedTools THEN <<Event(outcome, call)>> ELSE <<>>
  BY DEF last
<1> HIDE DEF results, calls, tries, history, label, rows
<1>11. /\ u \in TaskType /\ u.pc = label /\ u.history = history /\ u.calls = calls
       /\ u.results = results /\ u.chunks = t.chunks /\ u.rows = rows /\ u.made = t.made
  BY <1>1, <1>6, <1>7, <1>8 DEF TaskType
<1> HIDE DEF u, new
<1>12. Good(u, more, journal[s])
  BY <1>1, <1>2, <1>5, <1>10, <1>11, MessageKeeps
<1>13. more \in Seq(EventType)
  BY <1>12 DEF Good
<1> HIDE DEF more
<1>14. thread' \in Seq(Items) /\ journal' = [journal EXCEPT ![s] = journal[s]]
  BY <1>1, <1>2, <1>7
<1> QED
  BY <1>1, <1>2, <1>3, <1>11, <1>12, <1>13, <1>14, OneStream

LEMMA ToolTimesOutStep ==
  ASSUME StreamsInv, NEW s \in Streams, NEW i, ToolTimesOut(s, i)
  PROVE  StreamsInv'
<1> DEFINE t == task[s]
           tries == [t.tries EXCEPT ![i] = @ + 1]
           u == [t EXCEPT !.tries = tries]
<1>1. /\ Good(t, told[s], journal[s]) /\ t \in TaskType /\ thread \in Seq(Items)
      /\ told[s] \in Seq(EventType) /\ journal[s] \in JournalType
      /\ [told EXCEPT ![s] = told[s]] = told /\ [journal EXCEPT ![s] = journal[s]] = journal
  BY StreamParts
<1>2. /\ t.pc = "tools" /\ task' = [task EXCEPT ![s] = u]
      /\ told' = told /\ journal' = journal /\ thread' = thread
  BY DEF ToolTimesOut, Pc
<1> HIDE DEF t
<1>3. tries \in Seq(Nat)
  <2> DEFINE old == t.tries
             n == Len(old)
  <2>1. old \in Seq(Nat)
    BY <1>1, TaskFields
  <2> HIDE DEF old
  <2>2. n \in Nat /\ DOMAIN old = 1..n /\ \A k \in 1..n : old[k] \in Nat
    BY <2>1, LenProperties, ElementOfSeq
  <2>3. old \in [1..n -> Nat]
    BY <2>1, <2>2, SeqDef
  <2> HIDE DEF n
  <2> DEFINE more == old[i] + 1
             new == [old EXCEPT ![i] = more]
  <2>4. i \in 1..n => more \in Nat
    BY <2>2
  <2>5. tries = new
    BY DEF old
  <2> HIDE DEF more
  <2>6. new \in [1..n -> Nat]
    BY <2>3, <2>4
  <2> HIDE DEF new, tries
  <2> QED
    BY <2>2, <2>5, <2>6, FunctionIsSeq
<1> HIDE DEF tries
<1>4. /\ u \in TaskType /\ u.pc = t.pc /\ u.history = t.history /\ u.calls = t.calls
      /\ u.results = t.results /\ u.chunks = t.chunks /\ u.rows = t.rows /\ u.made = t.made
  <2>1. t \in TaskType
    BY <1>1
  <2> QED
    BY <1>3, <2>1 DEF TaskType
<1> HIDE DEF u
<1>5. Good(u, told[s], journal[s])
  BY <1>1, <1>2, <1>4, TryKeeps
<1>6. told' = [told EXCEPT ![s] = told[s]] /\ journal' = [journal EXCEPT ![s] = journal[s]]
  BY <1>1, <1>2
<1>7. thread' \in Seq(Items) /\ task' = [task EXCEPT ![s] = u] /\ u \in TaskType
  BY <1>1, <1>2, <1>4
<1> QED
  BY <1>1, <1>5, <1>6, <1>7, OneStream

LEMMA StoreAnswerStep ==
  ASSUME StreamsInv, NEW s \in Streams, StoreAnswer(s)
  PROVE  StreamsInv'
<1> DEFINE t == task[s]
           j == journal[s]
           chunks == t.chunks
           u == [t EXCEPT !.pc = "store_rows"]
           k == [j EXCEPT !.answer = chunks]
<1>1. /\ Good(t, told[s], j) /\ t \in TaskType /\ thread \in Seq(Items)
      /\ told[s] \in Seq(EventType) /\ j \in JournalType
      /\ [told EXCEPT ![s] = told[s]] = told
  BY StreamParts
<1>2. /\ t.pc = "store_answer" /\ HasWords(chunks) /\ task' = [task EXCEPT ![s] = u]
      /\ told' = told /\ journal' = [journal EXCEPT ![s] = k] /\ thread' = thread
  BY DEF StoreAnswer, Pc
<1> HIDE DEF t, j
<1>3. /\ u \in TaskType /\ u.pc = "store_rows" /\ u.history = t.history /\ u.calls = t.calls
      /\ u.results = t.results /\ u.chunks = t.chunks /\ u.rows = t.rows /\ u.made = t.made
  BY <1>1, NewPlace DEF Labels
<1>4. chunks \in Seq(Words) /\ chunks # <<>> /\ chunks = t.chunks
  BY <1>1, <1>2, TaskFields, EmptyHasNone DEF HasWords
<1> HIDE DEF chunks
<1>5. k \in JournalType /\ k.message = j.message /\ k.answer = chunks /\ k.rows = j.rows
  BY <1>1, <1>4 DEF JournalType
<1> HIDE DEF u, k
<1>6. Good(u, told[s], k)
  BY <1>1, <1>2, <1>3, <1>4, <1>5, StepKeeps
<1> QED
  BY <1>1, <1>2, <1>3, <1>5, <1>6, OneStream

LEMMA StoreRowStep ==
  ASSUME StreamsInv, NEW s \in Streams, StoreRow(s)
  PROVE  StreamsInv'
<1> DEFINE t == task[s]
           j == journal[s]
           rest == Tail(t.rows)
           stored == Append(j.rows, Head(t.rows))
           u == [t EXCEPT !.rows = rest]
           k == [j EXCEPT !.rows = stored]
<1>1. /\ Good(t, told[s], j) /\ t \in TaskType /\ thread \in Seq(Items)
      /\ told[s] \in Seq(EventType) /\ j \in JournalType
      /\ [told EXCEPT ![s] = told[s]] = told
  BY StreamParts
<1>2. /\ t.pc = "store_rows" /\ t.rows # <<>> /\ task' = [task EXCEPT ![s] = u]
      /\ told' = told /\ journal' = [journal EXCEPT ![s] = k] /\ thread' = thread
  BY DEF StoreRow, Pc
<1> HIDE DEF t, j
<1>3. rest \in Seq(RowType) /\ stored \in Seq(RowType)
  <2>1. t.rows \in Seq(RowType) /\ j.rows \in Seq(RowType)
    BY <1>1, TaskFields DEF JournalType
  <2>2. Head(t.rows) \in RowType /\ rest \in Seq(RowType)
    BY <1>2, <2>1, HeadTailProperties
  <2> QED
    BY <2>1, <2>2, AppendProperties
<1> HIDE DEF rest, stored
<1>4. /\ u \in TaskType /\ u.pc = t.pc /\ u.history = t.history /\ u.calls = t.calls
      /\ u.results = t.results /\ u.chunks = t.chunks /\ u.rows = rest /\ u.made = t.made
  BY <1>1, <1>3 DEF TaskType
<1>5. k \in JournalType /\ k.message = j.message /\ k.answer = j.answer /\ k.rows = stored
  BY <1>1, <1>3 DEF JournalType
<1> HIDE DEF u, k
<1>6. Good(u, told[s], k)
  BY <1>1, <1>2, <1>4, <1>5, RowKeeps DEF rest, stored
<1> QED
  BY <1>1, <1>2, <1>4, <1>5, <1>6, OneStream

LEMMA EndStep ==
  ASSUME StreamsInv, NEW s \in Streams, NothingToStore(s) \/ AllStored(s)
  PROVE  StreamsInv'
<1> DEFINE t == task[s]
           u == Over(t, "ended")
           end == <<Done, Sentinel>>
           more == told[s] \o end
<1>1. /\ Good(t, told[s], journal[s]) /\ t \in TaskType /\ thread \in Seq(Items)
      /\ told[s] \in Seq(EventType) /\ journal[s] \in JournalType
      /\ [journal EXCEPT ![s] = journal[s]] = journal
  BY StreamParts
<1>2. /\ task' = [task EXCEPT ![s] = u] /\ told' = [told EXCEPT ![s] = more]
      /\ journal' = journal /\ thread' = thread
      /\ \/ t.pc = "store_answer" /\ ~ HasWords(t.chunks)
         \/ t.pc = "store_rows" /\ t.rows = <<>>
  BY DEF NothingToStore, AllStored, End, Put, Pc
<1>3. Good(u, more, journal[s])
  BY <1>1, <1>2, EndKeeps
<1>4. u \in TaskType /\ more \in Seq(EventType)
  BY <1>3 DEF Good
<1> HIDE DEF u, more
<1> QED
  BY <1>1, <1>2, <1>3, <1>4, OneStream

LEMMA CrashStep ==
  ASSUME StreamsInv, Crash
  PROVE  StreamsInv'
<1> DEFINE u(s) == IF Working(s) THEN Over(task[s], "lost") ELSE task[s]
<1>1. /\ task' = [s \in Streams |-> u(s)] /\ told' = told /\ journal' = journal
      /\ thread' = thread
  BY DEF Crash
<1>2. ASSUME NEW s \in Streams
      PROVE  Good(u(s), told[s], journal[s]) /\ u(s) \in TaskType
  <2>1. Good(task[s], told[s], journal[s])
    BY DEF StreamsInv
  <2>2. CASE Working(s)
    <3>1. Live(task[s].pc)
      BY <2>2 DEF Working, Live
    <3>2. Good(Over(task[s], "lost"), told[s], journal[s])
      BY <2>1, <3>1, LoseKeeps
    <3>3. u(s) = Over(task[s], "lost")
      BY <2>2
    <3> QED
      BY <3>2, <3>3 DEF Good
  <2>3. CASE ~ Working(s)
    <3>1. u(s) = task[s]
      BY <2>3
    <3> QED
      BY <2>1, <3>1 DEF Good
  <2> QED
    BY <2>2, <2>3
<1> HIDE DEF u
<1>3. /\ task' \in [Streams -> TaskType]
      /\ \A s \in Streams : task'[s] = u(s)
  BY <1>1, <1>2
<1>4. \A s \in Streams : Good(task'[s], told'[s], journal'[s])
  BY <1>1, <1>2, <1>3
<1> QED
  BY <1>1, <1>3, <1>4 DEF StreamsInv
-----------------------------------------------------------------------------
(* The model provider: one request of each caller, and who has a permit.   *)

RequestType ==
  [at : {"none", "queued", "calling", "streaming"}, attempt : 1..MaxAttempts,
   pending : Seq(CallType)]

\* A request is open only while its task listens.  Calls wait at the provider
\* with OpenAI only, and then the task has none.
GoodRequest(t, q, client) ==
  /\ NumbersUp(q.pending, t.made)
  /\ t.pc # "listen" => q.at = "none"
  /\ q.pending # <<>> => client = "openai" /\ q.at = "streaming"
  /\ client = "openai" /\ t.pc = "listen" => t.calls = <<>>

RequestsInv ==
  /\ provider \in {"anthropic", "openai"} /\ request \in [Callers -> RequestType]
  /\ \A s \in Streams : GoodRequest(task[s], request[s], provider)

Holders == {c \in Callers : HasPermit(c)}

PermitInv ==
  /\ free \in Nat /\ IsFiniteSet(Holders)
  /\ free + Cardinality(Holders) = MaxConcurrent

Holds(q, client) == q.at = "calling" \/ (q.at = "streaming" /\ client = "anthropic")

\* What a step does to the request of one caller; the permits add up.
Turn(c, q) ==
  /\ request' = [request EXCEPT ![c] = q] /\ provider' = provider
  /\ CASE Holds(q, provider) <=> Holds(request[c], provider) -> free' = free
       [] Holds(q, provider) /\ ~ Holds(request[c], provider) -> free > 0 /\ free' = free - 1
       [] OTHER -> free' = free + 1

LEMMA NoTurn ==
  ASSUME RequestsInv, NEW c \in Callers, UNCHANGED providerVars
  PROVE  Turn(c, request[c]) /\ request[c] \in RequestType
<1>1. request[c] \in RequestType /\ [request EXCEPT ![c] = request[c]] = request
  BY Same DEF RequestsInv
<1>2. request' = request /\ provider' = provider /\ free' = free
  BY DEF providerVars
<1> QED
  BY <1>1, <1>2 DEF Turn

LEMMA NoRequestType == NoRequest \in RequestType /\ NoRequest.at = "none" /\ NoRequest.pending = <<>>
BY ProviderAssumption, EmptyHasNone DEF RequestType, NoRequest

LEMMA QueueTurn ==
  ASSUME RequestsInv, NEW c \in Callers, Queue(c)
  PROVE  LET q == [request[c] EXCEPT !.at = "queued"]
         IN  Turn(c, q) /\ q \in RequestType /\ q.pending = request[c].pending /\ q.at = "queued"
<1> DEFINE p == request[c]
           q == [p EXCEPT !.at = "queued"]
<1>1. p \in RequestType
  BY DEF RequestsInv
<1>2. request' = [request EXCEPT ![c] = q] /\ provider' = provider /\ free' = free /\ p.at = "none"
  BY DEF Queue, At
<1> HIDE DEF p
<1>3. q \in RequestType /\ q.at = "queued" /\ q.pending = p.pending
  BY <1>1 DEF RequestType
<1> HIDE DEF q
<1>4. Turn(c, q)
  BY <1>2, <1>3 DEF Turn, Holds, p
<1> QED
  BY <1>3, <1>4 DEF p, q

LEMMA AcquireTurn ==
  ASSUME RequestsInv, PermitInv, NEW c \in Callers, Acquire(c)
  PROVE  LET q == [request[c] EXCEPT !.at = "calling"]
         IN  /\ Turn(c, q) /\ q \in RequestType /\ q.pending = request[c].pending
             /\ q.at = "calling" /\ request[c].at = "queued"
<1> DEFINE p == request[c]
           q == [p EXCEPT !.at = "calling"]
<1>1. p \in RequestType
  BY DEF RequestsInv
<1>2. /\ request' = [request EXCEPT ![c] = q] /\ provider' = provider
      /\ free > 0 /\ free' = free - 1 /\ p.at = "queued"
  BY DEF Acquire, At
<1> HIDE DEF p
<1>3. q \in RequestType /\ q.at = "calling" /\ q.pending = p.pending
  BY <1>1 DEF RequestType
<1> HIDE DEF q
<1>4. Turn(c, q)
  BY <1>2, <1>3 DEF Turn, Holds, p
<1> QED
  BY <1>2, <1>3, <1>4 DEF p, q

LEMMA ReleaseTurn ==
  ASSUME RequestsInv, NEW c \in Callers, Release(c)
  PROVE  Turn(c, NoRequest)
<1>1. ~ Holds(NoRequest, provider)
  BY NoRequestType DEF Holds
<1>2. HasPermit(c) <=> Holds(request[c], provider)
  BY DEF HasPermit, Holds, At, KeepsPermit
<1> QED
  BY <1>1, <1>2 DEF Turn, Release

LEMMA RateLimitedTurn ==
  ASSUME RequestsInv, NEW c \in Callers, NEW stream, RateLimited(c, stream)
  PROVE  LET q == [request[c] EXCEPT !.attempt = @ + 1]
         IN  /\ Turn(c, q) /\ q \in RequestType /\ q.pending = request[c].pending
             /\ q.at = request[c].at
<1> DEFINE p == request[c]
           attempt == p.attempt + 1
           q == [p EXCEPT !.attempt = attempt]
<1>1. p \in RequestType
  BY DEF RequestsInv
<1>2. /\ request' = [request EXCEPT ![c] = q] /\ provider' = provider /\ free' = free
      /\ p.attempt < MaxAttempts
  BY DEF RateLimited, Repeats
<1> HIDE DEF p
<1>3. attempt \in 1..MaxAttempts
  BY <1>1, <1>2, ProviderAssumption DEF RequestType
<1> HIDE DEF attempt
<1>4. q \in RequestType /\ q.at = p.at /\ q.pending = p.pending
  BY <1>1, <1>3 DEF RequestType
<1> HIDE DEF q
<1>5. Turn(c, q)
  BY <1>2, <1>4 DEF Turn, Holds, p
<1> QED
  BY <1>4, <1>5 DEF p, q, attempt

LEMMA OpenedTurn ==
  ASSUME RequestsInv, NEW c \in Callers, Opened(c)
  PROVE  LET q == [request[c] EXCEPT !.at = "streaming"]
         IN  /\ Turn(c, q) /\ q \in RequestType /\ q.pending = request[c].pending
             /\ q.at = "streaming" /\ request[c].at = "calling"
<1> DEFINE p == request[c]
           q == [p EXCEPT !.at = "streaming"]
<1>1. p \in RequestType
  BY DEF RequestsInv
<1>2. /\ request' = [request EXCEPT ![c] = q] /\ provider' = provider /\ p.at = "calling"
      /\ free' = IF provider = "anthropic" THEN free ELSE free + 1
  BY DEF Opened, At, KeepsPermit
<1> HIDE DEF p
<1>3. q \in RequestType /\ q.at = "streaming" /\ q.pending = p.pending
  BY <1>1 DEF RequestType
<1> HIDE DEF q
<1>4. Turn(c, q)
  BY <1>2, <1>3 DEF Turn, Holds, p
<1> QED
  BY <1>2, <1>3, <1>4 DEF p, q

LEMMA CollectTurn ==
  ASSUME RequestsInv, NEW c \in Callers, NEW call \in CallType, CollectToolCall(c, call)
  PROVE  \E q \in RequestType :
           /\ Turn(c, q) /\ q.at = "streaming" /\ request[c].at = "streaming"
           /\ q.pending = IF provider = "openai" THEN Append(request[c].pending, call)
                                                 ELSE request[c].pending
<1> DEFINE p == request[c]
           pending == IF provider = "openai" THEN Append(p.pending, call) ELSE p.pending
           q == [p EXCEPT !.pending = pending]
<1>1. p \in RequestType
  BY DEF RequestsInv
<1>2. request' = [request EXCEPT ![c] = q] /\ provider' = provider /\ free' = free
      /\ p.at = "streaming"
  <2>1. CASE provider = "openai"
    BY <2>1 DEF CollectToolCall, At
  <2>2. CASE provider # "openai"
    <3>1. q = p
      BY <1>1, <2>2 DEF RequestType
    <3>2. [request EXCEPT ![c] = p] = request
      BY Same DEF RequestsInv
    <3> QED
      BY <2>2, <3>1, <3>2 DEF CollectToolCall, At
  <2> QED
    BY <2>1, <2>2
<1> HIDE DEF p
<1>3. pending \in Seq(CallType)
  <2>1. p.pending \in Seq(CallType)
    BY <1>1 DEF RequestType
  <2> QED
    BY <2>1, AppendProperties
<1> HIDE DEF pending
<1>4. q \in RequestType /\ q.at = p.at /\ q.pending = pending
  BY <1>1, <1>3 DEF RequestType
<1> HIDE DEF q
<1>5. Turn(c, q)
  BY <1>2, <1>4 DEF Turn, Holds, p
<1> QED
  BY <1>2, <1>4, <1>5 DEF p, pending

LEMMA PermitsKept ==
  ASSUME RequestsInv, PermitInv, NEW c \in Callers, NEW q \in RequestType, Turn(c, q)
  PROVE  PermitInv'
<1> DEFINE H == Holders
           after == Holders'
           had == Holds(request[c], provider)
           has == Holds(q, provider)
<1>1. \A d \in Callers : HasPermit(d) <=> Holds(request[d], provider)
  BY DEF HasPermit, Holds, At, KeepsPermit
<1>2. \A d \in Callers : HasPermit(d)' <=> Holds(request'[d], provider')
  BY DEF HasPermit, Holds, At, KeepsPermit
<1>3. /\ provider' = provider
      /\ \A d \in Callers : request'[d] = IF d = c THEN q ELSE request[d]
  BY DEF RequestsInv, Turn
<1>4. H = {d \in Callers : Holds(request[d], provider)}
  BY <1>1 DEF Holders
<1>5. after = {d \in Callers : Holds(request'[d], provider)}
  BY <1>2, <1>3 DEF Holders
<1>6. after = IF has THEN H \cup {c} ELSE H \ {c}
  BY <1>3, <1>4, <1>5
<1>7. c \in H <=> had
  BY <1>4
<1>8. IsFiniteSet(H) /\ free \in Nat /\ free + Cardinality(H) = MaxConcurrent
  BY DEF PermitInv
<1>9. /\ IsFiniteSet(after)
      /\ Cardinality(after) = IF has THEN (IF had THEN Cardinality(H) ELSE Cardinality(H) + 1)
                                     ELSE (IF had THEN Cardinality(H) - 1 ELSE Cardinality(H))
  <2>1. CASE has
    <3>1. after = H \cup {c}
      BY <1>6, <2>1
    <3> HIDE DEF H, after, has, had
    <3> QED
      BY <1>7, <1>8, <2>1, <3>1, FS_AddElement
  <2>2. CASE ~ has
    <3>1. after = H \ {c}
      BY <1>6, <2>2
    <3> HIDE DEF H, after, has, had
    <3> QED
      BY <1>7, <1>8, <2>2, <3>1, FS_RemoveElement
  <2> QED
    BY <2>1, <2>2
<1>10. free' = IF has THEN (IF had THEN free ELSE free - 1) ELSE (IF had THEN free + 1 ELSE free)
  BY DEF Turn
<1>11. has /\ ~ had => free > 0
  BY DEF Turn
<1>12. Cardinality(H) \in Nat
  BY <1>8, FS_CardinalityType
<1> HIDE DEF H, after, has, had
<1>13. free' \in Nat /\ free' + Cardinality(after) = MaxConcurrent
  BY <1>8, <1>9, <1>10, <1>11, <1>12
<1> QED
  BY <1>9, <1>13 DEF PermitInv, after

LEMMA RequestsKept ==
  ASSUME RequestsInv, NEW c \in Callers, NEW q \in RequestType, Turn(c, q),
         c \in Streams => GoodRequest(task'[c], q, provider),
         \A s \in Streams \ {c} : task'[s] = task[s]
  PROVE  RequestsInv'
<1> DEFINE RT == RequestType
<1>1. /\ provider' = provider /\ request \in [Callers -> RT] /\ q \in RT
      /\ request' = [request EXCEPT ![c] = q] /\ provider \in {"anthropic", "openai"}
      /\ \A s \in Streams : GoodRequest(task[s], request[s], provider)
  BY DEF RequestsInv, Turn
<1> HIDE DEF RT
<1>2. request' \in [Callers -> RT] /\ request'[c] = q /\ \A d \in Callers \ {c} : request'[d] = request[d]
  BY <1>1
<1>3. ASSUME NEW s \in Streams
      PROVE  GoodRequest(task'[s], request'[s], provider')
  <2>1. s \in Callers
    BY ChatAssumption
  <2>2. CASE s = c
    BY <1>1, <1>2, <2>2
  <2>3. CASE s # c
    <3>1. task'[s] = task[s] /\ request'[s] = request[s]
      BY <1>2, <2>1, <2>3
    <3> QED
      BY <1>1, <3>1
  <2> QED
    BY <2>2, <2>3
<1> QED
  BY <1>1, <1>2, <1>3 DEF RequestsInv, RT

\* What a step of a stream does at the provider.
StreamTurn(s) ==
  \E q \in RequestType : Turn(s, q) /\ GoodRequest(task'[s], q, provider)

LEMMA IdleTurn ==
  ASSUME RequestsInv, NEW s \in Streams, task[s].pc # "listen", task'[s].pc # "listen",
         UNCHANGED providerVars
  PROVE  StreamTurn(s)
<1> DEFINE q == request[s]
<1>1. s \in Callers
  BY ChatAssumption
<1>2. Turn(s, q) /\ q \in RequestType
  BY <1>1, NoTurn
<1>3. q.at = "none" /\ q.pending = <<>>
  BY DEF RequestsInv, GoodRequest
<1> HIDE DEF q
<1>4. GoodRequest(task'[s], q, provider)
  BY <1>3, EmptyHasNone DEF GoodRequest, NumbersUp
<1> QED
  BY <1>2, <1>4 DEF StreamTurn

LEMMA ReleasedTurn ==
  ASSUME RequestsInv, NEW s \in Streams, task'[s].pc # "listen", Release(s)
  PROVE  StreamTurn(s)
<1>1. s \in Callers
  BY ChatAssumption
<1>2. Turn(s, NoRequest) /\ NoRequest \in RequestType
  BY <1>1, ReleaseTurn, NoRequestType
<1>3. GoodRequest(task'[s], NoRequest, provider)
  BY NoRequestType, EmptyHasNone DEF GoodRequest, NumbersUp
<1> QED
  BY <1>2, <1>3 DEF StreamTurn

LEMMA AskTurn ==
  ASSUME StreamsInv, RequestsInv, NEW s \in Streams, Ask(s)
  PROVE  StreamTurn(s)
<1> DEFINE q == [request[s] EXCEPT !.at = "queued"]
<1>1. s \in Callers
  BY ChatAssumption
<1>2. CASE Accepts(task[s].history)
  <2>1. task[s].pc = "ask" /\ Queue(s) /\ task' = [task EXCEPT ![s].pc = "listen"]
    BY <1>2 DEF Ask, Pc
  <2>2. task'[s].calls = task[s].calls /\ task'[s].made = task[s].made
    BY <2>1 DEF StreamsInv, TaskType
  <2>3. task[s].calls = <<>>
    BY <2>1 DEF StreamsInv, Good, GoodTask
  <2>4. Turn(s, q) /\ q \in RequestType /\ q.pending = request[s].pending /\ q.at = "queued"
    BY <1>1, <2>1, QueueTurn
  <2>5. request[s].pending = <<>>
    BY <2>1 DEF RequestsInv, GoodRequest
  <2> HIDE DEF q
  <2>6. GoodRequest(task'[s], q, provider)
    <3>1. task'[s].pc = "listen"
      BY <2>1 DEF StreamsInv, TaskType
    <3> QED
      BY <2>2, <2>3, <2>4, <2>5, <3>1, EmptyHasNone DEF GoodRequest, NumbersUp
  <2> QED
    BY <2>4, <2>6 DEF StreamTurn
<1>3. CASE ~ Accepts(task[s].history)
  <2>1. UNCHANGED providerVars /\ task[s].pc = "ask" /\ task' = [task EXCEPT ![s] = Over(task[s], "ended")]
    BY <1>3 DEF Ask, Pc, Fail
  <2>2. task'[s].pc = "ended"
    BY <2>1, OverType DEF StreamsInv, Labels
  <2> QED
    BY <2>1, <2>2, IdleTurn
<1> QED
  BY <1>2, <1>3

\* Turns at which the task stays as it is.
LEMMA WaitingTurn ==
  ASSUME RequestsInv, NEW s \in Streams, task' = task,
         NEW q \in RequestType, Turn(s, q), q.pending = request[s].pending,
         \/ q.at = request[s].at
         \/ request[s].at \in {"queued", "calling"}
  PROVE  StreamTurn(s)
<1>1. GoodRequest(task[s], request[s], provider)
  BY DEF RequestsInv
<1>2. GoodRequest(task'[s], q, provider)
  BY <1>1 DEF GoodRequest
<1> QED
  BY <1>2 DEF StreamTurn

LEMMA HearTextTurn ==
  ASSUME StreamsInv, RequestsInv, NEW s \in Streams, NEW text, HearText(s, text)
  PROVE  StreamTurn(s)
<1>1. s \in Callers
  BY ChatAssumption
<1>2. Turn(s, request[s]) /\ request[s] \in RequestType
  <2>1. UNCHANGED providerVars
    BY DEF HearText, TextDelta
  <2> QED
    BY <1>1, <2>1, NoTurn
<1>3. /\ task'[s].pc = task[s].pc /\ task'[s].calls = task[s].calls /\ task'[s].made = task[s].made
  BY DEF HearText, StreamsInv, TaskType
<1>4. GoodRequest(task[s], request[s], provider)
  BY DEF RequestsInv
<1>5. GoodRequest(task'[s], request[s], provider)
  BY <1>3, <1>4 DEF GoodRequest
<1> QED
  BY <1>2, <1>5 DEF StreamTurn

LEMMA HearToolCallTurn ==
  ASSUME StreamsInv, RequestsInv, NEW s \in Streams, NEW tool, HearToolCall(s, tool)
  PROVE  StreamTurn(s)
<1> DEFINE t == task[s]
           u == task'[s]
           p == request[s]
           call == <<t.made + 1, tool>>
<1>1. s \in Callers
  BY ChatAssumption
<1>2. /\ call \in CallType /\ u.made = t.made + 1 /\ u.pc = t.pc
      /\ u.calls = t.calls \o ToolCallFrames(call)
  BY HearToolCallStep
<1>3. t.pc = "listen" /\ t.made \in Nat /\ CollectToolCall(s, call)
  BY TaskFields DEF HearToolCall, Pc, StreamsInv
<1>4. GoodRequest(t, p, provider) /\ p \in RequestType /\ p.pending \in Seq(CallType)
  BY <1>1 DEF RequestsInv, RequestType
<1>5. call[1] = t.made + 1
  OBVIOUS
<1> HIDE DEF call, u, t
<1>6. PICK q \in RequestType :
        /\ Turn(s, q) /\ q.at = "streaming" /\ p.at = "streaming"
        /\ q.pending = IF provider = "openai" THEN Append(p.pending, call) ELSE p.pending
  BY <1>1, <1>2, <1>3, CollectTurn
<1> HIDE DEF p
<1>7. CASE provider = "openai"
  <2>1. NumbersUp(q.pending, u.made)
    <3>1. NumbersUp(p.pending, t.made)
      BY <1>4 DEF GoodRequest
    <3> QED
      BY <1>2, <1>3, <1>4, <1>5, <1>6, <1>7, <3>1, NumbersGoUp
  <2>2. u.calls = <<>>
    <3>1. t.calls = <<>> /\ ToolCallFrames(call) = <<>>
      BY <1>3, <1>4, <1>7 DEF GoodRequest, ToolCallFrames
    <3>2. <<>> \o <<>> = <<>>
      BY ConcatEmptySeq, EmptyHasNone
    <3> QED
      BY <1>2, <3>1, <3>2
  <2>3. GoodRequest(u, q, provider)
    BY <1>2, <1>3, <1>6, <1>7, <2>1, <2>2 DEF GoodRequest
  <2> QED
    BY <1>6, <2>3 DEF StreamTurn, u
<1>8. CASE provider # "openai"
  <2>1. p.pending = <<>> /\ q.pending = <<>>
    BY <1>4, <1>6, <1>8 DEF GoodRequest
  <2>2. GoodRequest(u, q, provider)
    BY <1>2, <1>3, <1>6, <1>8, <2>1, EmptyHasNone DEF GoodRequest, NumbersUp
  <2> QED
    BY <1>6, <2>2 DEF StreamTurn, u
<1> QED
  BY <1>7, <1>8
-----------------------------------------------------------------------------
(* The steps of a stream, all together.                                    *)

\* Nothing happens to the other tasks.
OthersStay(s) == \A o \in Streams \ {s} : task'[o] = task[o]

\* What a step of s keeps, and what it asks of the provider.
Kept(s) == StreamsInv' /\ StreamTurn(s) /\ OthersStay(s)

LEMMA FailKept ==
  ASSUME StreamsInv, RequestsInv, NEW s \in Streams, Live(task[s].pc), Fail(s),
         UNCHANGED <<thread, journal>>,
         Release(s) \/ (UNCHANGED providerVars /\ task[s].pc # "listen")
  PROVE  Kept(s)
<1>1. StreamsInv'
  BY FailStep
<1>2. task' = [task EXCEPT ![s] = Over(task[s], "ended")] /\ task \in [Streams -> TaskType]
  BY DEF Fail, StreamsInv
<1>3. task'[s].pc = "ended" /\ OthersStay(s)
  <2>1. task'[s] = Over(task[s], "ended") /\ OthersStay(s)
    BY <1>2 DEF OthersStay
  <2> QED
    BY <1>2, <2>1, OverType DEF Labels
<1>4. StreamTurn(s)
  BY <1>3, IdleTurn, ReleasedTurn
<1> QED
  BY <1>1, <1>3, <1>4 DEF Kept

LEMMA CompleteKept ==
  ASSUME StreamsInv, RequestsInv, NEW s \in Streams, task[s].pc = "listen",
         NEW calls \in Seq(CallType), NumbersUp(calls, task[s].made),
         NEW broken \in BOOLEAN, AnswerComplete(s, calls, broken), UNCHANGED journal, Release(s)
  PROVE  Kept(s)
<1>1. StreamsInv'
  BY CompleteStep
<1>2. task'[s].pc # "listen" /\ OthersStay(s)
  <2>1. task \in [Streams -> TaskType]
    BY DEF StreamsInv
  <2>2. task'[s].pc \in {"store_answer", "tools"}
    <3>1. task[s] \in TaskType
      BY <2>1
    <3>2. task'[s].pc = IF calls = <<>> THEN "store_answer" ELSE "tools"
      BY <2>1, <3>1 DEF AnswerComplete, TaskType
    <3> QED
      BY <3>2
  <2>3. OthersStay(s)
    BY <2>1 DEF AnswerComplete, OthersStay
  <2> QED
    BY <2>2, <2>3
<1>3. StreamTurn(s)
  BY <1>2, ReleasedTurn
<1> QED
  BY <1>1, <1>2, <1>3 DEF Kept

LEMMA AnswerKept ==
  ASSUME StreamsInv, RequestsInv, NEW s \in Streams,
         AnswerFinishes(s) \/ AnswerBreaks(s) \/ AnswerStops(s) \/ ConnectionLost(s)
  PROVE  Kept(s)
<1> DEFINE t == task[s]
           p == request[s]
<1>1. /\ t \in TaskType /\ t.calls \in Seq(CallType) /\ t.broken \in BOOLEAN /\ t.made \in Nat
      /\ NumbersUp(t.calls, t.made)
  BY TaskFields DEF StreamsInv, Good, GoodHistory
<1>2. t.pc = "listen" /\ Live(t.pc) /\ UNCHANGED journal /\ Release(s)
  BY DEF AnswerFinishes, AnswerBreaks, AnswerStops, ConnectionLost, Pc, Live,
         Finish, StreamError, EndUnfinished
<1>3. CASE AnswerFinishes(s)
  <2> DEFINE calls == t.calls \o p.pending
  <2>1. AnswerComplete(s, calls, t.broken)
    BY <1>3 DEF AnswerFinishes, FinishFrames
  <2>2. /\ p.pending \in Seq(CallType) /\ GoodRequest(t, p, provider)
    BY ChatAssumption DEF RequestsInv, RequestType
  <2>3. calls \in {t.calls, p.pending}
    <3> DEFINE a == t.calls
               b == p.pending
    <3>1. a \in Seq(CallType) /\ b \in Seq(CallType) /\ (a = <<>> \/ b = <<>>)
      BY <1>1, <1>2, <2>2 DEF GoodRequest
    <3> HIDE DEF a, b
    <3>2. a \o b \in {a, b}
      BY <3>1, ConcatEmptySeq
    <3> QED
      BY <3>2 DEF a, b
  <2>4. calls \in Seq(CallType) /\ NumbersUp(calls, t.made)
    <3>1. NumbersUp(p.pending, t.made)
      BY <2>2 DEF GoodRequest
    <3> HIDE DEF calls, t, p
    <3> QED
      BY <1>1, <2>2, <2>3, <3>1
  <2> HIDE DEF calls
  <2> QED
    BY <1>1, <1>2, <2>1, <2>4, CompleteKept
<1>4. CASE AnswerBreaks(s)
  <2>1. CASE Yielded(s)
    BY <1>1, <1>2, <1>4, <2>1, CompleteKept DEF AnswerBreaks
  <2>2. CASE ~ Yielded(s)
    BY <1>2, <1>4, <2>2, FailKept DEF AnswerBreaks
  <2> QED
    BY <2>1, <2>2
<1>5. CASE AnswerStops(s)
  <2>1. CASE Yielded(s)
    BY <1>1, <1>2, <1>5, <2>1, CompleteKept DEF AnswerStops
  <2>2. CASE ~ Yielded(s)
    BY <1>2, <1>5, <2>2, FailKept DEF AnswerStops
  <2> QED
    BY <2>1, <2>2
<1>6. CASE ConnectionLost(s)
  BY <1>2, <1>6, FailKept DEF ConnectionLost
<1> QED
  BY <1>3, <1>4, <1>5, <1>6

\* The steps that the provider does not see.
LEMMA QuietKept ==
  ASSUME StreamsInv, RequestsInv, NEW s \in Streams,
         \/ Start(s) \/ StoreMessage(s) \/ BeginRun(s) \/ StoreAnswer(s) \/ StoreRow(s)
         \/ NothingToStore(s) \/ AllStored(s)
  PROVE  Kept(s)
<1>1. StreamsInv'
  BY StartStep, StoreMessageStep, BeginRunStep, StoreAnswerStep, StoreRowStep, EndStep
<1>2. task \in [Streams -> TaskType] /\ task[s] \in TaskType
  BY DEF StreamsInv
<1>3. UNCHANGED providerVars /\ task[s].pc # "listen"
  BY DEF Start, StoreMessage, BeginRun, StoreAnswer, StoreRow, NothingToStore, AllStored, Pc
<1>4. OthersStay(s) /\ task'[s].pc # "listen"
  <2>1. CASE Start(s)
    BY <1>2, <2>1 DEF Start, OthersStay, TaskType
  <2>2. CASE StoreMessage(s)
    BY <1>2, <2>2 DEF StoreMessage, OthersStay, TaskType
  <2>3. CASE BeginRun(s)
    BY <1>2, <2>3 DEF BeginRun, OthersStay, TaskType
  <2>4. CASE StoreAnswer(s)
    BY <1>2, <2>4 DEF StoreAnswer, OthersStay, TaskType
  <2>5. CASE StoreRow(s)
    BY <1>2, <2>5 DEF StoreRow, OthersStay, TaskType, Pc
  <2>6. CASE NothingToStore(s) \/ AllStored(s)
    <3>1. task' = [task EXCEPT ![s] = Over(task[s], "ended")]
      BY <2>6 DEF NothingToStore, AllStored, End
    <3>2. task'[s] = Over(task[s], "ended") /\ OthersStay(s)
      BY <1>2, <3>1 DEF OthersStay
    <3> QED
      BY <1>2, <3>2, OverType DEF Labels
  <2> QED
    BY <2>1, <2>2, <2>3, <2>4, <2>5, <2>6
<1>5. StreamTurn(s)
  BY <1>3, <1>4, IdleTurn
<1> QED
  BY <1>1, <1>4, <1>5 DEF Kept

LEMMA ToolKept ==
  ASSUME StreamsInv, RequestsInv, NEW s \in Streams, NEW i,
         \/ ToolReturns(s, i) \/ ArgumentsRefused(s, i) \/ ToolTimesOut(s, i)
         \/ ToolRaises(s, i)
  PROVE  Kept(s)
<1>1. task \in [Streams -> TaskType] /\ task[s] \in TaskType
  BY DEF StreamsInv
<1>2. CASE \E outcome \in Verdicts : ToolMessage(s, i, outcome)
  <2>1. PICK outcome \in Verdicts : ToolMessage(s, i, outcome)
    BY <1>2
  <2>2. StreamsInv'
    BY <2>1, ToolMessageStep
  <2>3. UNCHANGED providerVars /\ task[s].pc = "tools"
    BY <2>1 DEF ToolMessage, Pc
  <2>4. OthersStay(s)
    BY <1>1, <2>1 DEF ToolMessage, OthersStay
  <2>5. task'[s].pc # "listen"
    BY <1>1, <2>1, <2>3 DEF ToolMessage, TaskType
  <2>6. StreamTurn(s)
    BY <2>3, <2>5, IdleTurn
  <2> QED
    BY <2>2, <2>4, <2>6 DEF Kept
<1>3. CASE ToolTimesOut(s, i)
  <2>1. StreamsInv'
    BY <1>3, ToolTimesOutStep
  <2>2. UNCHANGED providerVars /\ task[s].pc = "tools" /\ task'[s].pc = "tools" /\ OthersStay(s)
    BY <1>1, <1>3 DEF ToolTimesOut, Pc, OthersStay, TaskType
  <2>3. StreamTurn(s)
    BY <2>2, IdleTurn
  <2> QED
    BY <2>1, <2>2, <2>3 DEF Kept
<1>4. CASE ToolRaises(s, i)
  <2>1. /\ Fail(s) /\ UNCHANGED <<thread, journal>> /\ UNCHANGED providerVars
        /\ task[s].pc = "tools" /\ Live(task[s].pc)
    BY <1>4 DEF ToolRaises, Pc, Live
  <2> QED
    BY <2>1, FailKept
<1> QED
  BY <1>2, <1>3, <1>4 DEF ToolReturns, ArgumentsRefused, Verdicts

LEMMA ProviderKept ==
  ASSUME StreamsInv, RequestsInv, NEW s \in Streams,
         \/ Ask(s) \/ StreamOpens(s) \/ StreamRateLimited(s)
         \/ \E text \in {"word", "blank"} : HearText(s, text)
         \/ \E tool \in UNION Range(Calls[s]) : HearToolCall(s, tool)
         \/ StoreFails(s)
  PROVE  Kept(s)
<1>1. task \in [Streams -> TaskType] /\ task[s] \in TaskType /\ s \in Callers
  BY ChatAssumption DEF StreamsInv
<1>2. CASE Ask(s)
  <2>1. OthersStay(s)
    BY <1>1, <1>2 DEF Ask, Fail, OthersStay
  <2> QED
    BY <1>2, <2>1, AskStep, AskTurn DEF Kept
<1>3. CASE StreamOpens(s) \/ StreamRateLimited(s)
  <2>1. task' = task /\ told' = told /\ journal' = journal /\ thread' = thread
    BY <1>3 DEF StreamOpens, StreamRateLimited, chatVars
  <2>2. StreamsInv' /\ OthersStay(s)
    BY <2>1 DEF StreamsInv, OthersStay
  <2>3. CASE StreamOpens(s)
    <3> DEFINE q == [request[s] EXCEPT !.at = "streaming"]
    <3>1. Turn(s, q) /\ q \in RequestType /\ q.pending = request[s].pending
          /\ request[s].at = "calling"
      BY <1>1, <2>3, OpenedTurn DEF StreamOpens
    <3> HIDE DEF q
    <3>2. StreamTurn(s)
      BY <2>1, <3>1, WaitingTurn
    <3> QED
      BY <2>2, <3>2 DEF Kept
  <2>4. CASE StreamRateLimited(s)
    <3> DEFINE q == [request[s] EXCEPT !.attempt = @ + 1]
    <3>1. Turn(s, q) /\ q \in RequestType /\ q.pending = request[s].pending
          /\ q.at = request[s].at
      BY <1>1, <2>4, RateLimitedTurn DEF StreamRateLimited
    <3> HIDE DEF q
    <3>2. StreamTurn(s)
      BY <2>1, <3>1, WaitingTurn
    <3> QED
      BY <2>2, <3>2 DEF Kept
  <2> QED
    BY <1>3, <2>3, <2>4
<1>4. ASSUME NEW text \in Words, HearText(s, text)
      PROVE  Kept(s)
  <2>1. OthersStay(s)
    BY <1>1, <1>4 DEF HearText, OthersStay
  <2> QED
    BY <1>4, <2>1, HearTextStep, HearTextTurn DEF Kept
<1>5. ASSUME NEW tool, HearToolCall(s, tool)
      PROVE  Kept(s)
  <2>1. OthersStay(s) /\ StreamsInv'
    BY <1>5, HearToolCallStep DEF OthersStay
  <2> QED
    BY <1>5, <2>1, HearToolCallTurn DEF Kept
<1>6. CASE StoreFails(s)
  <2>1. /\ Fail(s) /\ UNCHANGED <<thread, journal>> /\ UNCHANGED providerVars
        /\ task[s].pc # "listen" /\ Live(task[s].pc)
    BY <1>6 DEF StoreFails, Live
  <2> QED
    BY <2>1, FailKept
<1> QED
  BY <1>2, <1>3, <1>4, <1>5, <1>6 DEF Words

LEMMA StepKept ==
  ASSUME StreamsInv, RequestsInv, NEW s \in Streams, Step(s)
  PROVE  Kept(s)
<1>1. \/ /\ \/ Start(s) \/ StoreMessage(s) \/ BeginRun(s) \/ StoreAnswer(s) \/ StoreRow(s)
            \/ NothingToStore(s) \/ AllStored(s)
      \/ \E i : \/ ToolReturns(s, i) \/ ArgumentsRefused(s, i) \/ ToolTimesOut(s, i)
                \/ ToolRaises(s, i)
      \/ AnswerFinishes(s) \/ AnswerBreaks(s) \/ AnswerStops(s) \/ ConnectionLost(s)
      \/ Ask(s) \/ StreamOpens(s) \/ StreamRateLimited(s)
      \/ \E text \in {"word", "blank"} : HearText(s, text)
      \/ \E tool \in UNION Range(Calls[s]) : HearToolCall(s, tool)
      \/ StoreFails(s)
  BY DEF Step, Proceed
<1> QED
  BY <1>1, QuietKept, ToolKept, AnswerKept, ProviderKept
-----------------------------------------------------------------------------
(* Every step.                                                             *)

ChatInv == StreamsInv /\ RequestsInv /\ PermitInv

LEMMA StreamKeepsAll ==
  ASSUME ChatInv, NEW s \in Streams, Step(s)
  PROVE  ChatInv'
<1>1. Kept(s) /\ s \in Callers
  BY StepKept, ChatAssumption DEF ChatInv
<1>2. PICK q \in RequestType : Turn(s, q) /\ GoodRequest(task'[s], q, provider)
  BY <1>1 DEF Kept, StreamTurn
<1>3. RequestsInv'
  BY <1>1, <1>2, RequestsKept DEF ChatInv, Kept, OthersStay
<1>4. PermitInv'
  BY <1>1, <1>2, PermitsKept DEF ChatInv
<1> QED
  BY <1>1, <1>3, <1>4 DEF ChatInv, Kept

\* A turn of a caller that nobody else takes part in.
LEMMA CallerKeepsAll ==
  ASSUME ChatInv, NEW c \in Callers, NEW q \in RequestType, Turn(c, q), UNCHANGED chatVars,
         c \in Streams => GoodRequest(task[c], q, provider)
  PROVE  ChatInv'
<1>1. task' = task /\ told' = told /\ journal' = journal /\ thread' = thread
  BY DEF chatVars
<1>2. StreamsInv'
  BY <1>1 DEF ChatInv, StreamsInv
<1>3. RequestsInv'
  BY <1>1, RequestsKept DEF ChatInv
<1>4. PermitInv'
  BY PermitsKept DEF ChatInv
<1> QED
  BY <1>2, <1>3, <1>4 DEF ChatInv

LEMMA AcquireKeepsAll ==
  ASSUME ChatInv, NEW c \in Callers, GetsPermit(c)
  PROVE  ChatInv'
<1> DEFINE q == [request[c] EXCEPT !.at = "calling"]
<1>1. /\ Turn(c, q) /\ q \in RequestType /\ q.pending = request[c].pending
      /\ q.at = "calling" /\ request[c].at = "queued"
  BY AcquireTurn DEF GetsPermit, ChatInv
<1> HIDE DEF q
<1>2. ASSUME c \in Streams
      PROVE  GoodRequest(task[c], q, provider)
  <2>1. GoodRequest(task[c], request[c], provider)
    BY <1>2 DEF ChatInv, RequestsInv
  <2> QED
    BY <1>1, <2>1 DEF GoodRequest
<1> QED
  BY <1>1, <1>2, CallerKeepsAll DEF GetsPermit

LEMMA JobKeepsAll ==
  ASSUME ChatInv, NEW j \in Jobs, JobAsks(j) \/ JobRateLimited(j) \/ JobAnswered(j)
  PROVE  ChatInv'
<1>1. j \in Callers /\ j \notin Streams /\ UNCHANGED chatVars
  BY ChatAssumption DEF JobAsks, JobRateLimited, JobAnswered
<1>2. \E q \in RequestType : Turn(j, q)
  <2>1. CASE JobAsks(j)
    BY <1>1, <2>1, QueueTurn DEF JobAsks, ChatInv
  <2>2. CASE JobRateLimited(j)
    <3>1. RateLimited(j, FALSE)
      BY <2>2 DEF JobRateLimited
    <3> QED
      BY <1>1, <3>1, RateLimitedTurn DEF ChatInv
  <2>3. CASE JobAnswered(j)
    <3>1. Release(j)
      BY <2>3 DEF JobAnswered, AnswerWhole
    <3> QED
      BY <1>1, <3>1, ReleaseTurn, NoRequestType DEF ChatInv
  <2> QED
    BY <2>1, <2>2, <2>3
<1> QED
  BY <1>1, <1>2, CallerKeepsAll

\* What the readers do concerns neither tasks nor requests.
LEMMA ReaderKeepsAll ==
  ASSUME ChatInv,
         UNCHANGED vars \/ \E r \in Readers : Read(r) \/ Disconnect(r) \/ \E s \in Watched : Open(r, s)
  PROVE  ChatInv'
<1>1. UNCHANGED <<providerVars, task, told, journal, thread>>
  BY DEF vars, chatVars, Read, Disconnect, Open
<1>2. /\ provider' = provider /\ free' = free /\ request' = request
      /\ task' = task /\ told' = told /\ journal' = journal /\ thread' = thread
  BY <1>1 DEF providerVars
<1>3. Holders' = Holders
  BY <1>2 DEF Holders, HasPermit, At, KeepsPermit
<1> QED
  BY <1>2, <1>3 DEF ChatInv, StreamsInv, RequestsInv, PermitInv

\* The tasks that a crash takes away hold no permit any more.
LEMMA CrashKeepsAll ==
  ASSUME ChatInv, Crash
  PROVE  ChatInv'
<1>1. StreamsInv'
  BY CrashStep DEF ChatInv
<1>2. Streams \subseteq Callers
  BY ChatAssumption
<1>3. /\ task \in [Streams -> TaskType] /\ request \in [Callers -> RequestType]
      /\ \A s \in Streams : GoodRequest(task[s], request[s], provider)
      /\ provider \in {"anthropic", "openai"}
  BY DEF ChatInv, StreamsInv, RequestsInv
<1>4. /\ provider' = provider
      /\ request' = [c \in Callers |-> IF c \in Streams THEN NoRequest ELSE request[c]]
      /\ task' = [s \in Streams |-> IF Working(s) THEN Over(task[s], "lost") ELSE task[s]]
      /\ free' = free + Cardinality({s \in Streams : HasPermit(s)})
  BY DEF Crash
<1>5. RequestsInv'
  <2>1. request' \in [Callers -> RequestType]
    BY <1>3, <1>4, NoRequestType
  <2>2. ASSUME NEW s \in Streams
        PROVE  GoodRequest(task'[s], request'[s], provider')
    <3>1. request'[s] = NoRequest
      BY <1>2, <1>4
    <3>2. task'[s].pc # "listen"
      <4>1. CASE Working(s)
        BY <1>3, <1>4, <4>1, OverType DEF Labels
      <4>2. CASE ~ Working(s)
        <5>1. task'[s] = task[s] /\ task[s].pc \in {"none", "ended", "lost"}
          BY <1>4, <4>2 DEF Working
        <5> QED
          BY <5>1
      <4> QED
        BY <4>1, <4>2
    <3> QED
      BY <3>1, <3>2, NoRequestType, EmptyHasNone DEF GoodRequest, NumbersUp
  <2> QED
    BY <1>3, <1>4, <2>1, <2>2 DEF RequestsInv
<1>6. PermitInv'
  <2> DEFINE S == {s \in Streams : HasPermit(s)}
             H == Holders
             after == Holders'
  <2>1. free \in Nat /\ IsFiniteSet(H) /\ free + Cardinality(H) = MaxConcurrent
    BY DEF ChatInv, PermitInv
  <2>2. after = {c \in Callers : request'[c].at = "calling" \/ (request'[c].at = "streaming" /\ provider = "anthropic")}
    BY <1>4 DEF Holders, HasPermit, At, KeepsPermit
  <2>3. \A c \in Callers : request'[c] = IF c \in Streams THEN NoRequest ELSE request[c]
    BY <1>4
  <2>4. after = H \ S
    BY <2>2, <2>3, NoRequestType DEF Holders, HasPermit, At, KeepsPermit
  <2>5. S \subseteq H
    BY <1>2 DEF Holders
  <2> HIDE DEF S, H, after
  <2>6. IsFiniteSet(S) /\ IsFiniteSet(after)
    BY <2>1, <2>4, <2>5, FS_Subset
  <2>7. Cardinality(S \cup after) = Cardinality(S) + Cardinality(after) - Cardinality(S \cap after)
    BY <2>6, FS_Union
  <2>8. S \cup after = H /\ S \cap after = {}
    BY <2>4, <2>5
  <2>9. Cardinality(S) \in Nat /\ Cardinality(after) \in Nat /\ Cardinality({}) = 0
    BY <2>6, FS_CardinalityType, FS_EmptySet
  <2>10. free' = free + Cardinality(S)
    BY <1>4 DEF S
  <2>11. free' \in Nat /\ free' + Cardinality(after) = MaxConcurrent
    <3>1. Cardinality(H) = Cardinality(S) + Cardinality(after)
      <4>1. Cardinality(H) = Cardinality(S) + Cardinality(after) - Cardinality({})
        BY <2>7, <2>8
      <4> QED
        BY <2>9, <4>1
    <3> QED
      BY <2>1, <2>9, <2>10, <3>1
  <2> QED
    BY <2>6, <2>11 DEF PermitInv, after
<1> QED
  BY <1>1, <1>5, <1>6 DEF ChatInv

LEMMA ChatStep ==
  ASSUME ChatInv, [Next]_vars
  PROVE  ChatInv'
BY StreamKeepsAll, AcquireKeepsAll, JobKeepsAll, ReaderKeepsAll, CrashKeepsAll DEF Next

LEMMA ChatInit == Init => ChatInv
<1> SUFFICES ASSUME Init
             PROVE  ChatInv
  OBVIOUS
<1>1. /\ provider \in {"anthropic", "openai"} /\ free = MaxConcurrent
      /\ request = [c \in Callers |-> NoRequest]
      /\ thread \in Threads /\ told = [s \in Streams |-> <<>>] /\ task = [s \in Streams |-> NoTask]
      /\ journal = [s \in Streams |-> [message |-> FALSE, answer |-> <<>>, rows |-> <<>>]]
  BY DEF Init, ProviderInit
<1> DEFINE none == <<>>
           j == [message |-> FALSE, answer |-> none, rows |-> none]
<1>2. /\ none \in Seq(Items) /\ none \in Seq(CallType) /\ none \in Seq(Nat) /\ none \in Seq(Words)
      /\ none \in Seq(RowType) /\ none \in Seq(EventType)
      /\ ToSet(none) = {} /\ DOMAIN none = {}
  BY EmptyHasNone
<1>3. /\ NoTask = [pc |-> "none", history |-> none, text |-> FALSE, calls |-> none, tries |-> none,
                   results |-> {}, chunks |-> none, rows |-> none, made |-> 0, broken |-> FALSE]
  BY DEF NoTask
<1>4. Texts(none) = none
  <2>1. Chosen(<<>>, ChunkEvents) = <<>>
    <3>1. Len(<<>>) = 0
      BY EmptySeq
    <3> QED
      BY <3>1, ChoosingSteps
  <2>2. Texts(<<>>) = [i \in DOMAIN <<>> |-> <<>>[i].of]
    BY <2>1 DEF Texts, ChunkEvents, Words
  <2>3. Texts(<<>>) \in Seq(Words) /\ Len(Texts(<<>>)) = 0
    <3>1. Len(<<>>) = 0 /\ <<>> \in Seq(EventType)
      BY EmptySeq
    <3> QED
      BY <2>1, <3>1, TextsAre
  <2> QED
    BY <2>3, EmptySeq
<1> HIDE DEF none
<1>5. NoTask \in TaskType /\ j \in JournalType
  BY <1>2, <1>3 DEF TaskType, JournalType, Labels
<1>6. Good(NoTask, none, j)
  <2>1. /\ NoTask.pc = "none" /\ NoTask.calls = none /\ NoTask.results = {} /\ NoTask.chunks = none
        /\ NoTask.rows = none /\ j.answer = none /\ j.rows = none
    BY <1>3
  <2>2. GoodTask(NoTask)
    BY <2>1 DEF GoodTask, none
  <2>3. GoodEnd("none", none)
    BY <1>2 DEF GoodEnd, none
  <2>4. TextStory(NoTask, none, j)
    BY <1>4, <2>1 DEF TextStory, none
  <2>5. RowStory(NoTask, none, j) /\ EndStory(NoTask, none, j)
    BY <1>2, <2>1 DEF RowStory, EndStory, ToolCalls
  <2>6. GoodHistory(NoTask)
    BY <1>2, <2>1 DEF GoodHistory, NumbersUp
  <2> HIDE DEF j
  <2> QED
    BY <1>2, <1>5, <2>1, <2>2, <2>3, <2>4, <2>5, <2>6 DEF Good, GoodStory
<1>7. thread \in Seq(Items)
  <2>1. thread \in Seq(Range(thread)) /\ Range(thread) \subseteq Items
    BY <1>1, ChatAssumption DEF Items
  <2> QED
    BY <2>1, SeqMonotonic
<1>8. StreamsInv
  <2> HIDE DEF j
  <2>1. told = [s \in Streams |-> none] /\ journal = [s \in Streams |-> j]
    BY <1>1 DEF none, j
  <2> QED
    BY <1>1, <1>2, <1>5, <1>6, <1>7, <2>1 DEF StreamsInv
<1>9. RequestsInv
  <2>1. request \in [Callers -> RequestType]
    BY <1>1, NoRequestType
  <2>2. ASSUME NEW s \in Streams
        PROVE  GoodRequest(task[s], request[s], provider)
    <3>1. request[s] = NoRequest /\ task[s] = NoTask
      BY <1>1, ChatAssumption
    <3>2. NoTask.pc = "none"
      BY DEF NoTask
    <3> QED
      BY <3>1, <3>2, NoRequestType, EmptyHasNone DEF GoodRequest, NumbersUp
  <2> QED
    BY <1>1, <2>1, <2>2 DEF RequestsInv
<1>10. PermitInv
  <2>1. Holders = {}
    BY <1>1, NoRequestType DEF Holders, HasPermit, At
  <2> QED
    BY <1>1, <2>1, FS_EmptySet, ProviderAssumption DEF PermitInv
<1> QED
  BY <1>8, <1>9, <1>10 DEF ChatInv

LEMMA ChatInvariant == Spec => []ChatInv
<1>1. ChatInv /\ [Next]_vars => ChatInv'
  BY ChatStep
<1> QED
  BY <1>1, ChatInit, PTL DEF Spec
-----------------------------------------------------------------------------
(* The theorems on streams.                                                *)

\* What the journal holds was told, text and outcome of each tool; and a
\* stream that ended without an error has stored all that it told, unless it
\* told no words (chat_service.py, _produce_journal_stream).
THEOREM StoryIsStored == Spec => []StoredAsTold
<1>1. ASSUME ChatInv
      PROVE  StoredAsTold
  <2> SUFFICES ASSUME NEW s \in Streams
               PROVE  /\ journal[s].answer # <<>> => journal[s].answer = Texts(told[s])
                      /\ \A i \in DOMAIN journal[s].rows :
                           /\ Told(s, "tool_call", journal[s].rows[i].call)
                           /\ Told(s, journal[s].rows[i].outcome, journal[s].rows[i].call)
                      /\ Pc(s, "ended") /\ StreamFailed \notin ToSet(told[s]) =>
                           /\ journal[s].message
                           /\ HasWords(Texts(told[s])) =>
                                /\ journal[s].answer # <<>>
                                /\ \A e \in ToSet(told[s]) : e.type = "tool_call" =>
                                     \E i \in DOMAIN journal[s].rows :
                                       journal[s].rows[i].call = e.of
    BY DEF StoredAsTold
  <2> DEFINE j == journal[s]
             events == told[s]
  <2>1. GoodStory(task[s], events, j)
    BY <1>1 DEF ChatInv, StreamsInv, Good
  <2>2. Pc(s, "ended") <=> task[s].pc = "ended"
    BY DEF Pc
  <2> HIDE DEF j, events
  <2>3. j.answer # <<>> => j.answer = Texts(events)
    BY <2>1 DEF GoodStory, TextStory
  <2>4. ASSUME NEW i \in DOMAIN j.rows
        PROVE  /\ Event("tool_call", j.rows[i].call) \in ToSet(events)
               /\ Event(j.rows[i].outcome, j.rows[i].call) \in ToSet(events)
    <3>1. j.rows[i] \in ToSet(j.rows)
      BY DEF ToSet
    <3> QED
      BY <2>1, <3>1 DEF GoodStory, RowStory
  <2>5. ASSUME Pc(s, "ended"), StreamFailed \notin ToSet(events)
        PROVE  /\ j.message
               /\ HasWords(Texts(events)) =>
                    /\ j.answer # <<>>
                    /\ \A e \in ToSet(events) : e.type = "tool_call" =>
                         \E i \in DOMAIN j.rows : j.rows[i].call = e.of
    BY <2>1, <2>2, <2>5 DEF GoodStory, EndStory, ToolCalls, HasRow, ToSet
  <2> QED
    BY <2>3, <2>4, <2>5 DEF j, events, Told
<1> QED
  BY <1>1, ChatInvariant, PTL

\* A run that found the day's thread in order hands the provider a history
\* that it accepts, however its answers ended and in whatever order its tools
\* came back (validators.py, validate_tool_call_sequence).
THEOREM HistoryStaysInOrder == Spec => []RunKeepsHistoryInOrder
<1>1. ChatInv => RunKeepsHistoryInOrder
  BY DEF ChatInv, StreamsInv, Good, GoodHistory, RunKeepsHistoryInOrder, Pc
<1> QED
  BY <1>1, ChatInvariant, PTL
-----------------------------------------------------------------------------
(* Readers.                                                                *)

\* A step of a stream adds to what it has told, and the task has begun.
Grows(s) ==
  /\ \E more \in Seq(EventType) : told' = [told EXCEPT ![s] = @ \o more]
  /\ task'[s].pc # "none"

LEMMA ToldNothing ==
  ASSUME StreamsInv, NEW s \in Streams, told' = told
  PROVE  \E more \in Seq(EventType) : told' = [told EXCEPT ![s] = @ \o more]
<1> DEFINE events == told[s]
<1>1. events \in Seq(EventType) /\ [told EXCEPT ![s] = events] = told
  BY StreamParts
<1>2. events \o <<>> = events /\ <<>> \in Seq(EventType)
  <2> HIDE DEF events
  <2> QED
    BY <1>1, ConcatEmptySeq, EmptyHasNone
<1>3. [told EXCEPT ![s] = events \o <<>>] = told
  BY <1>1, <1>2
<1> QED
  BY <1>2, <1>3

LEMMA EndEvents ==
  /\ <<StreamFailed, Done, Sentinel>> \in Seq(EventType)
  /\ <<Done, Sentinel>> \in Seq(EventType)
<1>1. Done \in EventType /\ Sentinel \in EventType /\ StreamFailed \in EventType
  BY DEF Done, Sentinel, StreamFailed, EventType, Event, Verdicts
<1> QED
  BY <1>1

LEMMA FailGrows ==
  ASSUME StreamsInv, NEW s \in Streams, Fail(s)
  PROVE  Grows(s)
<1>1. task'[s] = Over(task[s], "ended") /\ task[s] \in TaskType
  BY DEF Fail, StreamsInv
<1>2. task'[s].pc # "none"
  BY <1>1, OverType DEF Labels
<1>3. told' = [told EXCEPT ![s] = @ \o <<StreamFailed, Done, Sentinel>>]
  BY DEF Fail, Put
<1> QED
  BY <1>2, <1>3, EndEvents DEF Grows

LEMMA CompleteGrows ==
  ASSUME StreamsInv, NEW s \in Streams, NEW calls \in Seq(CallType), NEW broken,
         AnswerComplete(s, calls, broken)
  PROVE  Grows(s)
<1>1. task'[s].pc # "none"
  <2>1. task \in [Streams -> TaskType] /\ task[s] \in TaskType
    BY DEF StreamsInv
  <2> QED
    BY <2>1 DEF AnswerComplete, TaskType
<1> DEFINE shown == Mapped(calls)
           more == CallEvents(shown)
<1>2. told' = [told EXCEPT ![s] = @ \o more]
  BY DEF AnswerComplete, Put, CallEvents
<1>3. more \in Seq(EventType)
  <2>1. shown \in Seq(CallType)
    BY MappedAre
  <2> HIDE DEF shown
  <2> QED
    BY <2>1, ShownCalls
<1> HIDE DEF more
<1> QED
  BY <1>1, <1>2, <1>3 DEF Grows

LEMMA MessageGrows ==
  ASSUME StreamsInv, NEW s \in Streams, NEW i, NEW outcome \in Verdicts,
         ToolMessage(s, i, outcome)
  PROVE  Grows(s)
<1> DEFINE call == task[s].calls[i]
           more == IF call[2] \in MappedTools THEN <<Event(outcome, call)>> ELSE <<>>
<1>1. task'[s].pc # "none"
  <2>1. task \in [Streams -> TaskType] /\ task[s] \in TaskType
    BY DEF StreamsInv
  <2>2. task[s].pc = "tools"
    BY DEF ToolMessage, Pc
  <2> QED
    BY <2>1, <2>2 DEF ToolMessage, TaskType
<1>2. told' = [told EXCEPT ![s] = @ \o more]
  BY DEF ToolMessage, Put
<1>3. call \in CallType
  <2>1. task[s].calls \in Seq(CallType) /\ i \in DOMAIN task[s].calls
    BY TaskFields DEF StreamsInv, ToolMessage, Unanswered
  <2> QED
    BY <2>1, LenProperties, ElementOfSeq
<1> HIDE DEF call
<1>4. more \in Seq(EventType)
  <2> DEFINE x == Event(outcome, call)
  <2>1. x \in EventType
    BY <1>3 DEF EventType, Event
  <2> HIDE DEF x
  <2>2. <<x>> \in Seq(EventType)
    BY <2>1
  <2> QED
    BY <2>2, EmptyHasNone DEF x
<1> HIDE DEF more
<1> QED
  BY <1>1, <1>2, <1>4 DEF Grows

LEMMA QuietGrows ==
  ASSUME StreamsInv, NEW s \in Streams,
         \/ Start(s) \/ StoreMessage(s) \/ BeginRun(s) \/ StoreAnswer(s) \/ StoreRow(s)
         \/ StreamOpens(s) \/ StreamRateLimited(s)
         \/ \E i : ToolTimesOut(s, i)
         \/ \E tool : HearToolCall(s, tool)
  PROVE  Grows(s)
<1>1. task \in [Streams -> TaskType] /\ task[s] \in TaskType
  BY DEF StreamsInv
<1>2. told' = told
  BY DEF Start, StoreMessage, BeginRun, StoreAnswer, StoreRow, StreamOpens, StreamRateLimited,
         ToolTimesOut, HearToolCall, chatVars
<1>3. task'[s].pc # "none"
  <2>1. CASE Start(s) \/ StoreMessage(s) \/ BeginRun(s) \/ StoreAnswer(s)
    BY <1>1, <2>1 DEF Start, StoreMessage, BeginRun, StoreAnswer, TaskType
  <2>2. CASE StoreRow(s)
    BY <1>1, <2>2 DEF StoreRow, Pc, TaskType
  <2>3. CASE StreamOpens(s) \/ StreamRateLimited(s)
    BY <1>1, <2>3 DEF StreamOpens, StreamRateLimited, Pc, chatVars
  <2>4. ASSUME NEW i, ToolTimesOut(s, i)
        PROVE  task'[s].pc # "none"
    BY <1>1, <2>4 DEF ToolTimesOut, Pc, TaskType
  <2>5. ASSUME NEW tool, HearToolCall(s, tool)
        PROVE  task'[s].pc # "none"
    BY <1>1, <2>5 DEF HearToolCall, Pc, TaskType
  <2> QED
    BY <2>1, <2>2, <2>3, <2>4, <2>5
<1> QED
  BY <1>2, <1>3, ToldNothing DEF Grows

LEMMA AnswerGrows ==
  ASSUME StreamsInv, RequestsInv, NEW s \in Streams,
         AnswerFinishes(s) \/ AnswerBreaks(s) \/ AnswerStops(s) \/ ConnectionLost(s)
  PROVE  Grows(s)
<1> DEFINE a == task[s].calls
           b == request[s].pending
<1>1. a \in Seq(CallType) /\ b \in Seq(CallType)
  BY TaskFields, ChatAssumption DEF StreamsInv, RequestsInv, RequestType
<1>2. CASE AnswerFinishes(s)
  <2>1. AnswerComplete(s, a \o b, task[s].broken)
    BY <1>2 DEF AnswerFinishes, FinishFrames
  <2>2. a \o b \in Seq(CallType)
    <3> HIDE DEF a, b
    <3> QED
      BY <1>1, ConcatProperties
  <2> DEFINE calls == a \o b
  <2> HIDE DEF calls
  <2>3. AnswerComplete(s, calls, task[s].broken) /\ calls \in Seq(CallType)
    BY <2>1, <2>2 DEF calls
  <2> QED
    BY <2>3, CompleteGrows
<1>3. CASE AnswerBreaks(s)
  BY <1>1, <1>3, CompleteGrows, FailGrows DEF AnswerBreaks
<1>4. CASE AnswerStops(s)
  BY <1>1, <1>4, CompleteGrows, FailGrows DEF AnswerStops
<1>5. CASE ConnectionLost(s)
  BY <1>5, FailGrows DEF ConnectionLost
<1> QED
  BY <1>2, <1>3, <1>4, <1>5

LEMMA StepGrows ==
  ASSUME StreamsInv, RequestsInv, NEW s \in Streams, Step(s)
  PROVE  Grows(s)
<1>1. task \in [Streams -> TaskType] /\ task[s] \in TaskType
  BY DEF StreamsInv
<1>2. ASSUME \/ Start(s) \/ StoreMessage(s) \/ BeginRun(s) \/ StoreAnswer(s) \/ StoreRow(s)
             \/ StreamOpens(s) \/ StreamRateLimited(s)
             \/ \E i : ToolTimesOut(s, i)
             \/ \E tool : HearToolCall(s, tool)
      PROVE  Grows(s)
  BY <1>2, QuietGrows
<1>3. ASSUME AnswerFinishes(s) \/ AnswerBreaks(s) \/ AnswerStops(s) \/ ConnectionLost(s)
      PROVE  Grows(s)
  BY <1>3, AnswerGrows
<1>4. ASSUME NothingToStore(s) \/ AllStored(s)
      PROVE  Grows(s)
  <2>1. /\ task' = [task EXCEPT ![s] = Over(task[s], "ended")]
        /\ told' = [told EXCEPT ![s] = @ \o <<Done, Sentinel>>]
    BY <1>4 DEF NothingToStore, AllStored, End, Put
  <2>2. task'[s].pc # "none"
    BY <1>1, <2>1, OverType DEF Labels
  <2> QED
    BY <2>1, <2>2, EndEvents DEF Grows
<1>5. ASSUME \E i : ToolReturns(s, i) \/ ArgumentsRefused(s, i) \/ ToolRaises(s, i)
      PROVE  Grows(s)
  BY <1>5, MessageGrows, FailGrows DEF ToolReturns, ArgumentsRefused, ToolRaises, Verdicts
<1>6. ASSUME Ask(s)
      PROVE  Grows(s)
  <2>1. CASE Accepts(task[s].history)
    <3>1. told' = told /\ task'[s].pc # "none"
      BY <1>1, <1>6, <2>1 DEF Ask, TaskType
    <3> QED
      BY <3>1, ToldNothing DEF Grows
  <2>2. CASE ~ Accepts(task[s].history)
    BY <1>6, <2>2, FailGrows DEF Ask
  <2> QED
    BY <2>1, <2>2
<1>7. ASSUME NEW text \in Words, HearText(s, text)
      PROVE  Grows(s)
  <2> DEFINE x == Event("message_chunk", text)
  <2>1. x \in EventType
    BY DEF EventType, Event
  <2>2. told' = [told EXCEPT ![s] = @ \o <<x>>] /\ task'[s].pc # "none"
    BY <1>1, <1>7 DEF HearText, Put, Pc, TaskType
  <2> HIDE DEF x
  <2>3. <<x>> \in Seq(EventType)
    BY <2>1
  <2> QED
    BY <2>2, <2>3 DEF Grows
<1>8. ASSUME StoreFails(s)
      PROVE  Grows(s)
  BY <1>8, FailGrows DEF StoreFails
<1>9. \/ \/ Start(s) \/ StoreMessage(s) \/ BeginRun(s) \/ StoreAnswer(s) \/ StoreRow(s)
         \/ StreamOpens(s) \/ StreamRateLimited(s)
         \/ \E i : ToolTimesOut(s, i)
         \/ \E tool : HearToolCall(s, tool)
      \/ AnswerFinishes(s) \/ AnswerBreaks(s) \/ AnswerStops(s) \/ ConnectionLost(s)
      \/ NothingToStore(s) \/ AllStored(s)
      \/ \E i : ToolReturns(s, i) \/ ArgumentsRefused(s, i) \/ ToolRaises(s, i)
      \/ Ask(s)
      \/ \E text \in Words : HearText(s, text)
      \/ StoreFails(s)
  BY DEF Step, Proceed, Words
<1> QED
  BY <1>2, <1>3, <1>4, <1>5, <1>6, <1>7, <1>8, <1>9

\* What a stream's steps leave alone.
LEMMA StepLeaves ==
  ASSUME NEW s \in Streams, Step(s)
  PROVE  /\ taken' = taken /\ reader' = reader
         /\ known' = known \/ (known' = known \cup {s} /\ task[s].pc = "none")
         /\ faults' = faults \/ Fault
<1>1. CASE Start(s) \/ StoreMessage(s) \/ BeginRun(s) \/ StoreAnswer(s) \/ StoreRow(s)
  BY <1>1 DEF Start, StoreMessage, BeginRun, StoreAnswer, StoreRow, Pc
<1>2. CASE StreamOpens(s) \/ StreamRateLimited(s) \/ NothingToStore(s) \/ AllStored(s) \/ Ask(s)
  BY <1>2 DEF StreamOpens, StreamRateLimited, NothingToStore, AllStored, Ask, chatVars
<1>3. CASE AnswerFinishes(s) \/ AnswerBreaks(s) \/ AnswerStops(s) \/ ConnectionLost(s)
  BY <1>3 DEF AnswerFinishes, AnswerBreaks, AnswerStops, ConnectionLost
<1>4. CASE \E i : ToolReturns(s, i) \/ ArgumentsRefused(s, i) \/ ToolRaises(s, i) \/ ToolTimesOut(s, i)
  <2>1. ASSUME NEW i, NEW outcome, ToolMessage(s, i, outcome)
        PROVE  UNCHANGED <<taken, reader, known, faults>>
    BY <2>1 DEF ToolMessage
  <2>2. ASSUME NEW i, ToolReturns(s, i) \/ ArgumentsRefused(s, i)
        PROVE  UNCHANGED <<taken, reader, known, faults>>
    BY <2>1, <2>2 DEF ToolReturns, ArgumentsRefused
  <2>3. ASSUME NEW i, ToolRaises(s, i)
        PROVE  UNCHANGED <<taken, reader, known>> /\ Fault
    BY <2>3 DEF ToolRaises
  <2>4. ASSUME NEW i, ToolTimesOut(s, i)
        PROVE  UNCHANGED <<taken, reader, known, faults>>
    BY <2>4 DEF ToolTimesOut
  <2> QED
    BY <1>4, <2>2, <2>3, <2>4
<1>5. CASE StoreFails(s) \/ (\E text : HearText(s, text)) \/ (\E tool : HearToolCall(s, tool))
  BY <1>5 DEF StoreFails, HearText, HearToolCall
<1> QED
  BY <1>1, <1>2, <1>3, <1>4, <1>5 DEF Step, Proceed
-----------------------------------------------------------------------------
(* What a reader has got.                                                  *)

SeenType == EventType \cup {UnknownStream}

ReaderType ==
  [of : {0} \cup Streams, got : Seq(SeenType),
   at : {"none", "reading", "closed", "gone", "cut"}]

Begins(got, events) ==
  Len(got) <= Len(events) /\ \A i \in 1..Len(got) : got[i] = events[i]

Whole(got) == got # <<>> /\ \A i \in 1..Len(got) : got[i] = Done <=> i = Len(got)

\* A reader of events, of which n have been taken out; K are the streams
\* whose queue can be found.
Heard(rd, events, n, K) ==
  \/ rd.got = <<UnknownStream>> /\ rd.of \notin K /\ rd.at = "closed"
  \/ /\ Begins(rd.got, events)
     /\ rd.at = "reading" => Len(rd.got) = n
     /\ rd.at = "closed" => Whole(rd.got)

GoodReader(r) ==
  LET rd == reader[r] IN
  /\ rd.at = "none" <=> rd.of = 0
  /\ rd.of # 0 => task[rd.of].pc # "none"
  /\ rd.at \in {"reading", "closed", "cut"} /\ Alone(r) =>
       Heard(rd, told[rd.of], taken[rd.of], known)

ReadersInv ==
  /\ known \subseteq Streams /\ faults \in 0..MaxFaults
  /\ taken \in [Streams -> Nat] /\ reader \in [Readers -> ReaderType]
  /\ \A s \in Streams :
       /\ taken[s] <= Len(told[s])
       /\ taken[s] > 0 => \E r \in Readers : reader[r].of = s
  /\ \A r \in Readers : GoodReader(r)

LEMMA NoStreamIsZero == 0 \notin Streams
BY ChatAssumption

\* More is told, and queues are taken away.
LEMMA HeardMore ==
  ASSUME NEW rd \in ReaderType, NEW events \in Seq(EventType), NEW more \in Seq(EventType),
         NEW n \in Nat, NEW K, NEW L, rd.of \notin K => rd.of \notin L,
         Heard(rd, events, n, K)
  PROVE  Heard(rd, events \o more, n, L)
<1> DEFINE all == events \o more
<1>1. /\ Len(all) = Len(events) + Len(more) /\ Len(events) \in Nat /\ Len(more) \in Nat
      /\ \A i \in 1..Len(events) : all[i] = events[i]
  BY Concat
<1>2. Len(rd.got) \in Nat
  BY LenProperties DEF ReaderType
<1> HIDE DEF all
<1>3. ASSUME Begins(rd.got, events)
      PROVE  Begins(rd.got, all)
  BY <1>1, <1>2, <1>3 DEF Begins
<1> QED
  BY <1>3 DEF Heard, all

\* The server is gone: the connection is cut.
LEMMA HeardCut ==
  ASSUME NEW rd \in ReaderType, NEW events, NEW n, NEW K, Heard(rd, events, n, K),
         NEW cut, cut = IF rd.at = "reading" THEN [rd EXCEPT !.at = "cut"] ELSE rd
  PROVE  Heard(cut, events, n, {})
<1>1. cut.got = rd.got /\ cut.of = rd.of /\ cut.at # "reading"
      /\ (cut.at = "closed" <=> rd.at = "closed")
  BY DEF ReaderType
<1> QED
  BY <1>1 DEF Heard

LEMMA HeardNext ==
  ASSUME NEW rd \in ReaderType, NEW events \in Seq(EventType), NEW n \in Nat, NEW K,
         rd.at = "reading", Heard(rd, events, n, K), n < Len(events)
  PROVE  LET next == [rd EXCEPT !.got = Append(@, events[n + 1])]
         IN  next \in ReaderType /\ next.of = rd.of /\ next.at = "reading"
             /\ Heard(next, events, n + 1, K)
<1> DEFINE x == events[n + 1]
           got == rd.got
           after == Append(got, x)
           next == [rd EXCEPT !.got = after]
<1>1. Begins(got, events) /\ Len(got) = n
  BY DEF Heard
<1>2. got \in Seq(SeenType)
  BY DEF ReaderType
<1>3. x \in SeenType
  <2>1. n + 1 \in 1..Len(events)
    BY LenProperties
  <2> QED
    BY <2>1, ElementOfSeq DEF SeenType
<1> HIDE DEF x
<1>4. /\ after \in Seq(SeenType) /\ Len(after) = n + 1
      /\ \A i \in 1..n : after[i] = got[i]
      /\ after[n + 1] = x
  <2> HIDE DEF got
  <2> QED
    BY <1>1, <1>2, <1>3, Appending
<1> HIDE DEF after
<1>5. next \in ReaderType /\ next.of = rd.of /\ next.at = "reading" /\ next.got = after
  BY <1>4 DEF ReaderType
<1>6. Begins(after, events)
  <2>1. Len(after) <= Len(events)
    BY <1>4, LenProperties
  <2>2. ASSUME NEW i \in 1..n + 1
        PROVE  after[i] = events[i]
    <3>1. CASE i = n + 1
      BY <1>4, <3>1 DEF x
    <3>2. CASE i # n + 1
      <4>1. i \in 1..n
        BY <3>2
      <4> QED
        BY <1>1, <1>4, <4>1 DEF Begins
    <3> QED
      BY <3>1, <3>2
  <2> QED
    BY <1>4, <2>1, <2>2 DEF Begins
<1> HIDE DEF next
<1>7. Heard(next, events, n + 1, K)
  BY <1>4, <1>5, <1>6 DEF Heard
<1> QED
  BY <1>5, <1>7 DEF next, after, x, got

LEMMA HeardEnd ==
  ASSUME NEW rd \in ReaderType, NEW events \in Seq(EventType), NEW n \in Nat, NEW K, NEW L,
         NEW pc, GoodEnd(pc, events),
         rd.at = "reading", Heard(rd, events, n, K), n < Len(events), events[n + 1] = Sentinel
  PROVE  Heard([rd EXCEPT !.at = "closed"], events, n + 1, L)
<1> DEFINE got == rd.got
           over == [rd EXCEPT !.at = "closed"]
<1>1. over.got = got /\ over.at = "closed"
  BY DEF ReaderType
<1>2. Begins(got, events) /\ Len(got) = n
  BY DEF Heard
<1>3. n + 1 \in DOMAIN events /\ n + 1 \in 1..Len(events) /\ Len(events) \in Nat
  BY LenProperties
<1>4. pc = "ended"
  BY <1>3 DEF GoodEnd, ToSet
<1>5. PICK m \in Nat \ {0} :
        /\ Len(events) = m + 1 /\ events[m] = Done /\ events[m + 1] = Sentinel
        /\ \A i \in 1..m - 1 : events[i] \notin {Done, Sentinel}
  BY <1>4 DEF GoodEnd
<1>6. Done # Sentinel
  BY DEF Done, Sentinel, Event
<1>7. n = m
  <2>1. n + 1 \notin 1..m - 1 /\ n + 1 # m
    BY <1>5, <1>6
  <2> QED
    BY <1>3, <1>5, <2>1
<1> HIDE DEF got, over
<1>8. ASSUME NEW i \in 1..n
      PROVE  got[i] = Done <=> i = n
  <2>1. got[i] = events[i]
    BY <1>2 DEF Begins
  <2> QED
    BY <1>5, <1>7, <2>1
<1>9. got # <<>>
  <2>1. Len(<<>>) = 0
    BY EmptySeq
  <2> QED
    BY <1>2, <1>5, <1>7, <2>1
<1> QED
  BY <1>1, <1>2, <1>8, <1>9 DEF Heard, Whole, over
-----------------------------------------------------------------------------
(* Steps that are no reader's.                                             *)

LEMMA StreamKeepsReaders ==
  ASSUME ChatInv, ReadersInv, NEW s \in Streams, Step(s)
  PROVE  ReadersInv'
<1>1. /\ taken' = taken /\ reader' = reader
      /\ known' = known \/ (known' = known \cup {s} /\ task[s].pc = "none")
      /\ faults' = faults \/ Fault
  BY StepLeaves
<1>2. Grows(s) /\ OthersStay(s)
  BY StepGrows, StepKept DEF ChatInv, Kept
<1>3. PICK more \in Seq(EventType) : told' = [told EXCEPT ![s] = @ \o more]
  BY <1>2 DEF Grows
<1>4. /\ known \subseteq Streams /\ faults \in 0..MaxFaults
      /\ taken \in [Streams -> Nat] /\ reader \in [Readers -> ReaderType]
      /\ told \in [Streams -> Seq(EventType)]
  BY DEF ReadersInv, ChatInv, StreamsInv
<1>5. faults' \in 0..MaxFaults
  BY <1>1, <1>4, ChatAssumption DEF Fault
<1>6. \A t \in Streams : told'[t] = IF t = s THEN told[t] \o more ELSE told[t]
  <2> DEFINE ET == Seq(EventType)
             events == told[s] \o more
  <2>1. told \in [Streams -> ET] /\ told' = [told EXCEPT ![s] = events]
    BY <1>3, <1>4
  <2> HIDE DEF ET
  <2> QED
    BY <2>1
<1>7. ASSUME NEW t \in Streams
      PROVE  /\ taken'[t] <= Len(told'[t])
             /\ taken'[t] > 0 => \E r \in Readers : reader'[r].of = t
  <2>1. taken[t] <= Len(told[t]) /\ (taken[t] > 0 => \E r \in Readers : reader[r].of = t)
    BY DEF ReadersInv
  <2>2. Len(told'[t]) >= Len(told[t])
    <3> DEFINE events == told[t]
               all == events \o more
    <3>1. events \in Seq(EventType)
      BY <1>4
    <3> HIDE DEF events
    <3>2. Len(all) = Len(events) + Len(more) /\ Len(events) \in Nat /\ Len(more) \in Nat
      BY <3>1, Concat
    <3>3. told'[t] = events \/ told'[t] = all
      BY <1>6 DEF events
    <3> HIDE DEF all
    <3> QED
      BY <3>2, <3>3 DEF events
  <2>3. taken[t] \in Nat /\ Len(told[t]) \in Nat /\ Len(told'[t]) \in Nat
    <3> DEFINE events == told[t]
               later == told'[t]
               all == events \o more
    <3>1. events \in Seq(EventType)
      BY <1>4
    <3>2. all \in Seq(EventType)
      BY <3>1, ConcatProperties
    <3>3. later \in {events, all}
      BY <1>6
    <3> HIDE DEF events, later, all
    <3>4. Len(events) \in Nat /\ Len(later) \in Nat
      BY <3>1, <3>2, <3>3, LenProperties
    <3> QED
      BY <1>4, <3>4 DEF events, later
  <2> QED
    BY <1>1, <2>1, <2>2, <2>3
<1>8. ASSUME NEW r \in Readers
      PROVE  GoodReader(r)'
  <2> DEFINE rd == reader[r]
  <2>1. rd \in ReaderType /\ rd.of \in {0} \cup Streams
    BY <1>4 DEF ReaderType
  <2>2. reader'[r] = rd /\ GoodReader(r) /\ (Alone(r)' <=> Alone(r))
    BY <1>1 DEF ReadersInv, Alone
  <2>3. rd.of # 0 => task'[rd.of].pc # "none"
    BY <1>2, <2>1, <2>2 DEF Grows, OthersStay, GoodReader
  <2>4. ASSUME rd.at \in {"reading", "closed", "cut"}, Alone(r)
        PROVE  Heard(rd, told'[rd.of], taken'[rd.of], known')
    <3> DEFINE t == rd.of
               events == told[t]
               later == told'[t]
               n == taken[t]
    <3>1. t \in Streams /\ task[t].pc # "none" /\ Heard(rd, events, n, known)
      BY <2>1, <2>2, <2>4 DEF GoodReader
    <3>2. t \notin known => t \notin known'
      BY <1>1, <3>1
    <3>3. events \in Seq(EventType) /\ n \in Nat /\ taken'[t] = n
      BY <1>1, <1>4, <3>1
    <3> DEFINE none == <<>>
    <3>4. events \o none = events /\ none \in Seq(EventType)
      <4> HIDE DEF events
      <4> QED
        BY <3>3, ConcatEmptySeq, EmptyHasNone
    <3>5. later = events \o more \/ later = events \o none
      BY <1>6, <3>1, <3>4
    <3> HIDE DEF events, later, n, none
    <3>6. Heard(rd, events \o more, n, known') /\ Heard(rd, events \o none, n, known')
      BY <2>1, <3>1, <3>2, <3>3, <3>4, HeardMore
    <3>7. Heard(rd, later, n, known')
      BY <3>5, <3>6
    <3> QED
      BY <3>3, <3>7 DEF later
  <2> QED
    BY <2>2, <2>3, <2>4 DEF GoodReader
<1>9. known' \subseteq Streams
  BY <1>1, <1>4
<1> QED
  BY <1>1, <1>4, <1>5, <1>7, <1>8, <1>9 DEF ReadersInv

LEMMA CrashKeepsReaders ==
  ASSUME ChatInv, ReadersInv, Crash
  PROVE  ReadersInv'
<1>1. /\ known' = {} /\ told' = told /\ taken' = taken /\ Fault
      /\ task' = [s \in Streams |-> IF Working(s) THEN Over(task[s], "lost") ELSE task[s]]
      /\ reader' = [r \in Readers |-> IF reader[r].at = "reading"
                                      THEN [reader[r] EXCEPT !.at = "cut"] ELSE reader[r]]
  BY DEF Crash
<1>2. /\ faults \in 0..MaxFaults /\ task \in [Streams -> TaskType]
      /\ taken \in [Streams -> Nat] /\ reader \in [Readers -> ReaderType]
  BY DEF ReadersInv, ChatInv, StreamsInv
<1>3. faults' \in 0..MaxFaults
  BY <1>1, <1>2, ChatAssumption DEF Fault
<1>4. ASSUME NEW r \in Readers
      PROVE  /\ reader'[r] \in ReaderType /\ reader'[r].of = reader[r].of
             /\ reader'[r].at = "none" <=> reader[r].at = "none"
  <2>1. reader[r] \in ReaderType
    BY <1>2
  <2>2. reader'[r] = IF reader[r].at = "reading" THEN [reader[r] EXCEPT !.at = "cut"] ELSE reader[r]
    BY <1>1
  <2> DEFINE before == reader[r]
             after == reader'[r]
  <2> HIDE DEF before, after
  <2>3. before \in ReaderType
        /\ after = IF before.at = "reading" THEN [before EXCEPT !.at = "cut"] ELSE before
    BY <2>1, <2>2 DEF before, after
  <2>4. after \in ReaderType /\ after.of = before.of /\ (after.at = "none" <=> before.at = "none")
    BY <2>3 DEF ReaderType
  <2> QED
    BY <2>4 DEF before, after
<1>5. reader' \in [Readers -> ReaderType]
  <2> DEFINE RT == ReaderType
  <2>1. \A r \in Readers : reader'[r] \in RT
    BY <1>4
  <2>2. reader' = [r \in Readers |-> reader'[r]]
    BY <1>1
  <2> HIDE DEF RT
  <2>3. reader' \in [Readers -> RT]
    BY <2>1, <2>2
  <2> QED
    BY <2>3 DEF RT
<1>6. ASSUME NEW t \in Streams
      PROVE  /\ taken'[t] <= Len(told'[t])
             /\ taken'[t] > 0 => \E r \in Readers : reader'[r].of = t
  <2>1. taken[t] <= Len(told[t]) /\ (taken[t] > 0 => \E r \in Readers : reader[r].of = t)
    BY DEF ReadersInv
  <2> QED
    BY <1>1, <1>4, <2>1
<1>7. ASSUME NEW r \in Readers
      PROVE  GoodReader(r)'
  <2> DEFINE rd == reader[r]
             cut == reader'[r]
  <2>1. rd \in ReaderType /\ rd.of \in {0} \cup Streams
    BY <1>2 DEF ReaderType
  <2>2. cut = IF rd.at = "reading" THEN [rd EXCEPT !.at = "cut"] ELSE rd
    BY <1>1
  <2>3. GoodReader(r) /\ (Alone(r)' <=> Alone(r)) /\ cut.of = rd.of
        /\ (cut.at = "none" <=> rd.at = "none")
    BY <1>4 DEF ReadersInv, Alone
  <2>4. rd.of # 0 => task'[rd.of].pc # "none"
    <3> SUFFICES ASSUME rd.of # 0
                 PROVE  task'[rd.of].pc # "none"
      OBVIOUS
    <3> DEFINE t == rd.of
    <3>1. t \in Streams /\ task[t].pc # "none"
      BY <2>1, <2>3 DEF GoodReader
    <3> HIDE DEF t
    <3>2. task'[t] = IF Working(t) THEN Over(task[t], "lost") ELSE task[t]
      BY <1>1, <3>1
    <3>3. Over(task[t], "lost").pc = "lost"
      BY <1>2, <3>1, OverType DEF Labels
    <3> QED
      BY <3>1, <3>2, <3>3 DEF t
  <2>5. ASSUME cut.at \in {"reading", "closed", "cut"}, Alone(r)
        PROVE  Heard(cut, told[rd.of], taken[rd.of], {})
    <3>1. rd.at \in {"reading", "closed", "cut"}
      BY <2>1, <2>2, <2>5 DEF ReaderType
    <3>2. Heard(rd, told[rd.of], taken[rd.of], known)
      BY <2>3, <2>5, <3>1 DEF GoodReader
    <3> HIDE DEF rd, cut
    <3> QED
      BY <2>1, <2>2, <3>2, HeardCut
  <2> QED
    BY <1>1, <2>3, <2>4, <2>5 DEF GoodReader
<1> QED
  BY <1>1, <1>2, <1>3, <1>5, <1>6, <1>7 DEF ReadersInv
LEMMA OthersKeepReaders ==
  ASSUME ReadersInv,
         UNCHANGED vars
         \/ (\E c \in Callers : GetsPermit(c))
         \/ (\E j \in Jobs : JobAsks(j) \/ JobRateLimited(j) \/ JobAnswered(j))
  PROVE  ReadersInv'
<1>1. UNCHANGED <<known, told, taken, task, reader, faults>>
  BY DEF vars, chatVars, GetsPermit, JobAsks, JobRateLimited, JobAnswered
<1>2. \A r \in Readers : GoodReader(r)' <=> GoodReader(r)
  BY <1>1 DEF GoodReader, Alone
<1> QED
  BY <1>1, <1>2 DEF ReadersInv
-----------------------------------------------------------------------------
(* The steps of the readers.                                               *)

\* A reader's step that changes only what it has got and how it stands.
LEMMA ReaderMoves ==
  ASSUME ReadersInv, NEW r \in Readers, NEW next \in ReaderType,
         next.of = reader[r].of, reader[r].at # "none", next.at # "none",
         reader' = [reader EXCEPT ![r] = next], UNCHANGED <<told, task, faults>>,
         known' \subseteq known, taken' \in [Streams -> Nat],
         \A t \in Streams : taken'[t] <= Len(told[t]) /\ (t # next.of => taken'[t] = taken[t]),
         next.at \in {"reading", "closed", "cut"} /\ Alone(r) =>
           Heard(next, told[next.of], taken'[next.of], known')
  PROVE  ReadersInv'
<1>1. /\ known \subseteq Streams /\ faults \in 0..MaxFaults
      /\ taken \in [Streams -> Nat] /\ reader \in [Readers -> ReaderType]
  BY DEF ReadersInv
<1>2. /\ reader' \in [Readers -> ReaderType]
      /\ \A q \in Readers : reader'[q] = IF q = r THEN next ELSE reader[q]
  <2> DEFINE RT == ReaderType
  <2>1. reader \in [Readers -> RT] /\ next \in RT
    BY <1>1
  <2> HIDE DEF RT
  <2>2. /\ reader' \in [Readers -> RT]
        /\ \A q \in Readers : reader'[q] = IF q = r THEN next ELSE reader[q]
    BY <2>1
  <2> QED
    BY <2>2 DEF RT
<1>3. \A q \in Readers : reader'[q].of = reader[q].of
  BY <1>2
<1>4. ASSUME NEW t \in Streams, taken'[t] > 0
      PROVE  \E q \in Readers : reader'[q].of = t
  <2>1. CASE t = next.of
    BY <1>3, <2>1
  <2>2. CASE t # next.of
    <3>1. taken[t] > 0
      BY <1>4, <2>2
    <3> QED
      BY <1>3, <3>1 DEF ReadersInv
  <2> QED
    BY <2>1, <2>2
<1>5. ASSUME NEW q \in Readers
      PROVE  GoodReader(q)'
  <2>1. GoodReader(q) /\ (Alone(q)' <=> Alone(q))
    BY <1>3 DEF ReadersInv, Alone
  <2>2. CASE q = r
    <3>1. reader'[q] = next
      BY <1>2, <2>2
    <3>2. next.of # 0 /\ task[next.of].pc # "none"
      BY <2>1, <2>2 DEF GoodReader
    <3> QED
      BY <2>1, <2>2, <3>1, <3>2 DEF GoodReader
  <2>3. CASE q # r
    <3> DEFINE rd == reader[q]
    <3>1. reader'[q] = rd
      BY <1>2, <2>3
    <3>2. ASSUME rd.at \in {"reading", "closed", "cut"}, Alone(q)
          PROVE  Heard(rd, told[rd.of], taken'[rd.of], known')
      <4>1. Heard(rd, told[rd.of], taken[rd.of], known)
        BY <2>1, <3>2 DEF GoodReader
      <4>2. rd.of # next.of
        BY <2>3, <3>2 DEF Alone
      <4>3. rd.of \in Streams
        BY <1>1, <2>1, <3>2 DEF GoodReader, ReaderType
      <4>4. taken'[rd.of] = taken[rd.of]
        BY <4>2, <4>3
      <4> QED
        BY <4>1, <4>4 DEF Heard
    <3> QED
      BY <2>1, <3>1, <3>2 DEF GoodReader
  <2> QED
    BY <2>2, <2>3
<1> QED
  BY <1>1, <1>2, <1>4, <1>5 DEF ReadersInv

\* What there is to take out of the queue of an open reader.
LEMMA Position ==
  ASSUME ChatInv, ReadersInv, NEW r \in Readers, reader[r].at = "reading"
  PROVE  LET s == reader[r].of
         IN  /\ s \in Streams /\ reader[r] \in ReaderType
             /\ told[s] \in Seq(EventType) /\ Len(told[s]) \in Nat /\ GoodEnd(task[s].pc, told[s])
             /\ taken[s] \in Nat /\ taken[s] <= Len(told[s])
             /\ taken \in [Streams -> Nat]
             /\ Alone(r) => Heard(reader[r], told[s], taken[s], known)
<1> DEFINE s == reader[r].of
<1>1. reader[r] \in ReaderType /\ GoodReader(r) /\ taken \in [Streams -> Nat]
  BY DEF ReadersInv
<1>2. s \in Streams /\ (Alone(r) => Heard(reader[r], told[s], taken[s], known))
  BY <1>1 DEF GoodReader, ReaderType
<1> HIDE DEF s
<1>3. told[s] \in Seq(EventType) /\ GoodEnd(task[s].pc, told[s]) /\ taken[s] <= Len(told[s])
  BY <1>2 DEF ChatInv, StreamsInv, Good, ReadersInv
<1>4. Len(told[s]) \in Nat
  <2> DEFINE events == told[s]
  <2>1. events \in Seq(EventType)
    BY <1>3
  <2> HIDE DEF events
  <2> QED
    BY <2>1, LenProperties DEF events
<1> QED
  BY <1>1, <1>2, <1>3, <1>4 DEF s

LEMMA ReadKeepsReaders ==
  ASSUME ChatInv, ReadersInv, NEW r \in Readers, Read(r)
  PROVE  ReadersInv'
<1> DEFINE rd == reader[r]
           s == rd.of
           events == told[s]
           n == taken[s]
           x == events[n + 1]
           next == AfterEvent(r, x)
<1>1. /\ rd.at = "reading" /\ n < Len(events) /\ taken' = [taken EXCEPT ![s] = n + 1]
      /\ reader' = [reader EXCEPT ![r] = next]
      /\ known' = IF x = Sentinel THEN known \ {s} ELSE known
      /\ UNCHANGED <<told, task, faults>>
  BY DEF Read, Waiting
<1>2. /\ s \in Streams /\ rd \in ReaderType /\ events \in Seq(EventType) /\ Len(events) \in Nat
      /\ GoodEnd(task[s].pc, events) /\ n \in Nat /\ taken \in [Streams -> Nat]
      /\ Alone(r) => Heard(rd, events, n, known)
  BY <1>1, Position
<1>3. next = IF x = Sentinel THEN [rd EXCEPT !.at = "closed"]
             ELSE IF Alone(r) THEN [rd EXCEPT !.got = Append(@, x)] ELSE rd
  BY DEF AfterEvent, Receive
<1>4. /\ taken' \in [Streams -> Nat] /\ taken'[s] = n + 1
      /\ \A t \in Streams : t # s => taken'[t] = taken[t]
  BY <1>1, <1>2
<1>5. ASSUME NEW t \in Streams
      PROVE  taken'[t] <= Len(told[t])
  <2>1. CASE t = s
    BY <1>1, <1>2, <1>4, <2>1
  <2>2. CASE t # s
    BY <1>4, <2>2 DEF ReadersInv
  <2> QED
    BY <2>1, <2>2
<1> HIDE DEF events, n, next
<1>6. /\ next \in ReaderType /\ next.of = s /\ next.at \in {"reading", "closed"}
      /\ Alone(r) => Heard(next, events, n + 1, known')
  <2> HIDE DEF rd, s
  <2>1. CASE x = Sentinel
    <3>1. next = [rd EXCEPT !.at = "closed"]
      BY <1>3, <2>1
    <3>2. next \in ReaderType /\ next.of = rd.of /\ next.at = "closed"
      BY <1>2, <3>1 DEF ReaderType
    <3>3. ASSUME Alone(r)
          PROVE  Heard(next, events, n + 1, known')
      BY <1>1, <1>2, <2>1, <3>1, <3>3, HeardEnd
    <3> QED
      BY <3>2, <3>3 DEF s
  <2>2. CASE x # Sentinel /\ Alone(r)
    <3>1. next = [rd EXCEPT !.got = Append(@, x)] /\ known' = known
      BY <1>1, <1>3, <2>2
    <3>2. next \in ReaderType /\ next.of = rd.of /\ next.at = "reading"
          /\ Heard(next, events, n + 1, known)
      BY <1>1, <1>2, <2>2, <3>1, HeardNext
    <3> QED
      BY <3>1, <3>2 DEF s
  <2>3. CASE x # Sentinel /\ ~ Alone(r)
    BY <1>1, <1>2, <1>3, <2>3 DEF s
  <2> QED
    BY <2>1, <2>2, <2>3
<1>7. known' \subseteq known
  BY <1>1
<1>8. next.at \in {"reading", "closed", "cut"} /\ Alone(r) =>
        Heard(next, told[next.of], taken'[next.of], known')
  BY <1>4, <1>6 DEF events
<1>9. /\ next \in ReaderType /\ next.of = reader[r].of /\ reader[r].at # "none"
      /\ next.at # "none" /\ reader' = [reader EXCEPT ![r] = next]
      /\ UNCHANGED <<told, task, faults>>
  BY <1>1, <1>6
<1>10. \A t \in Streams : taken'[t] <= Len(told[t]) /\ (t # next.of => taken'[t] = taken[t])
  BY <1>4, <1>5, <1>6
<1> HIDE DEF x, rd, s
<1> QED
  BY <1>4, <1>7, <1>8, <1>9, <1>10, ReaderMoves

LEMMA DisconnectKeepsReaders ==
  ASSUME ChatInv, ReadersInv, NEW r \in Readers, Disconnect(r)
  PROVE  ReadersInv'
<1> DEFINE rd == reader[r]
           s == rd.of
           none == <<>>
           next == [rd EXCEPT !.at = "gone", !.got = none]
<1>1. /\ rd.at = "reading" /\ known' = known /\ UNCHANGED <<told, task, faults>>
      /\ \/ taken' = taken
         \/ Waiting(s) /\ taken' = [taken EXCEPT ![s] = @ + 1]
  BY DEF Disconnect
<1>2. reader' = [reader EXCEPT ![r] = next]
  BY DEF Disconnect
<1>3. /\ s \in Streams /\ rd \in ReaderType /\ Len(told[s]) \in Nat
      /\ taken[s] \in Nat /\ taken \in [Streams -> Nat]
  BY <1>1, Position
<1>4. /\ taken' \in [Streams -> Nat]
      /\ \A t \in Streams : t # s => taken'[t] = taken[t]
  BY <1>1, <1>3
<1>5. ASSUME NEW t \in Streams
      PROVE  taken'[t] <= Len(told[t])
  <2>1. taken[t] <= Len(told[t])
    BY DEF ReadersInv
  <2>2. CASE t = s
    BY <1>1, <1>3, <2>1, <2>2 DEF Waiting
  <2>3. CASE t # s
    BY <1>4, <2>1, <2>3
  <2> QED
    BY <2>2, <2>3
<1>6. next \in ReaderType /\ next.of = s /\ next.at = "gone"
  <2>1. none \in Seq(SeenType)
    BY EmptyHasNone
  <2> HIDE DEF none, rd
  <2> QED
    BY <1>3, <2>1 DEF ReaderType
<1> HIDE DEF next
<1> QED
  BY <1>1, <1>2, <1>4, <1>5, <1>6, ReaderMoves

LEMMA OpenKeepsReaders ==
  ASSUME ChatInv, ReadersInv, NEW r \in Readers, NEW s \in Watched, Open(r, s)
  PROVE  ReadersInv'
<1> DEFINE others == {q \in Readers : reader[q].of = s}
           none == <<>>
           got == IF s \in known THEN none ELSE <<UnknownStream>>
           at == IF s \in known THEN "reading" ELSE "closed"
           new == [of |-> s, got |-> got, at |-> at]
<1>1. /\ reader[r].at = "none" /\ task[s].pc # "none"
      /\ UNCHANGED <<known, told, taken, task, faults>>
      /\ reader' = [q \in Readers |->
           CASE q = r -> new
             [] q \in others -> [reader[q] EXCEPT !.got = none]
             [] OTHER -> reader[q]]
  BY DEF Open, Pc
<1>2. /\ known \subseteq Streams /\ faults \in 0..MaxFaults
      /\ taken \in [Streams -> Nat] /\ reader \in [Readers -> ReaderType]
      /\ s \in Streams /\ s # 0
  BY ChatAssumption DEF ReadersInv
<1>3. reader[r].of = 0 /\ r \notin others
  BY <1>1, <1>2 DEF ReadersInv, GoodReader
<1>4. none \in Seq(SeenType) /\ got \in Seq(SeenType)
  <2>1. UnknownStream \in SeenType
    BY DEF SeenType
  <2>2. <<UnknownStream>> \in Seq(SeenType)
    BY <2>1
  <2> QED
    BY <2>2, EmptyHasNone
<1>5. new \in ReaderType
  <2> HIDE DEF got
  <2> QED
    BY <1>2, <1>4 DEF ReaderType
<1>6. new.of = s /\ new.got = got /\ new.at = at /\ at \in {"reading", "closed"}
  OBVIOUS
<1> HIDE DEF none, got, at, new
<1>7. /\ reader'[r] = new
      /\ \A q \in Readers \ {r} :
           reader'[q] = IF q \in others THEN [reader[q] EXCEPT !.got = none] ELSE reader[q]
  <2> HIDE DEF others
  <2> DEFINE place(q) == CASE q = r -> new
                           [] q \in others -> [reader[q] EXCEPT !.got = none]
                           [] OTHER -> reader[q]
  <2>1. reader' = [q \in Readers |-> place(q)]
    BY <1>1
  <2>2. \A q \in Readers : reader'[q] = place(q)
    <3> HIDE DEF place
    <3> QED
      BY <2>1
  <2>3. place(r) = new
    BY <1>3
  <2>4. ASSUME NEW q \in Readers \ {r}
        PROVE  place(q) = IF q \in others THEN [reader[q] EXCEPT !.got = none] ELSE reader[q]
    <3>1. CASE q \in others
      BY <3>1
    <3>2. CASE q \notin others
      BY <3>2
    <3> QED
      BY <3>1, <3>2
  <2> HIDE DEF place
  <2> QED
    BY <2>2, <2>3, <2>4
<1>8. ASSUME NEW q \in Readers, q # r
      PROVE  /\ reader'[q] \in ReaderType /\ reader'[q].of = reader[q].of
             /\ reader'[q].at = reader[q].at
             /\ q \notin others => reader'[q] = reader[q]
  <2> DEFINE before == reader[q]
             after == reader'[q]
  <2>1. before \in ReaderType /\ (after = before \/ after = [before EXCEPT !.got = none])
        /\ (q \notin others => after = before)
    BY <1>2, <1>7, <1>8
  <2> HIDE DEF before, after, others
  <2>2. after \in ReaderType /\ after.of = before.of /\ after.at = before.at
    BY <1>4, <2>1 DEF ReaderType
  <2> QED
    BY <2>1, <2>2 DEF before, after
<1>9. reader' \in [Readers -> ReaderType]
  <2> DEFINE RT == ReaderType
  <2>1. \A q \in Readers : reader'[q] \in RT
    BY <1>5, <1>7, <1>8
  <2>2. reader' = [q \in Readers |-> reader'[q]]
    BY <1>1
  <2> HIDE DEF RT
  <2>3. reader' \in [Readers -> RT]
    BY <2>1, <2>2
  <2> QED
    BY <2>3 DEF RT
<1>10. ASSUME NEW t \in Streams
       PROVE  /\ taken'[t] <= Len(told'[t])
              /\ taken'[t] > 0 => \E q \in Readers : reader'[q].of = t
  <2>1. taken[t] <= Len(told[t]) /\ (taken[t] > 0 => \E q \in Readers : reader[q].of = t)
    BY DEF ReadersInv
  <2>2. ASSUME NEW q \in Readers, reader[q].of = t
        PROVE  reader'[q].of = t
    <3>1. t # 0
      BY NoStreamIsZero
    <3> QED
      BY <1>3, <1>8, <2>2, <3>1
  <2> QED
    BY <1>1, <2>1, <2>2
<1>11. GoodReader(r)'
  <2>1. reader'[r] = new /\ told' = told /\ taken' = taken /\ known' = known /\ task' = task
    BY <1>1, <1>7
  <2>2. ASSUME Alone(r)'
        PROVE  Heard(new, told[s], taken[s], known)
    <3>1. CASE s \in known
      <4>1. taken[s] = 0
        <5>1. \A q \in Readers \ {r} : reader[q].of # s
          BY <1>6, <1>8, <2>1, <2>2 DEF Alone
        <5>2. ~ (taken[s] > 0)
          BY <1>2, <1>3, <5>1 DEF ReadersInv
        <5> QED
          BY <1>2, <5>2
      <4>2. got = none /\ at = "reading"
        BY <3>1 DEF got, at
      <4>3. Len(none) = 0
        BY EmptySeq DEF none
      <4>4. taken[s] <= Len(told[s])
        BY <1>2 DEF ReadersInv
      <4> QED
        BY <1>6, <4>1, <4>2, <4>3, <4>4 DEF Heard, Begins
    <3>2. CASE s \notin known
      BY <1>6, <3>2 DEF Heard, got, at
    <3> QED
      BY <3>1, <3>2
  <2> QED
    BY <1>1, <1>2, <1>6, <2>1, <2>2 DEF GoodReader
<1>12. ASSUME NEW q \in Readers, q # r
       PROVE  GoodReader(q)'
  <2> DEFINE rd == reader[q]
  <2>1. GoodReader(q) /\ reader'[q].of = rd.of /\ reader'[q].at = rd.at
        /\ (q \notin others => reader'[q] = rd)
    BY <1>8, <1>12 DEF ReadersInv
  <2>2. ASSUME Alone(q)', rd.of # 0
        PROVE  Alone(q) /\ q \notin others
    <3>1. rd.of # s
      BY <1>6, <1>7, <1>12, <2>1, <2>2 DEF Alone
    <3>2. \A p \in Readers \ {q} : reader[p].of # rd.of
      <4> SUFFICES ASSUME NEW p \in Readers \ {q}
                   PROVE  reader[p].of # rd.of
        OBVIOUS
      <4>1. CASE p = r
        BY <1>3, <2>2, <4>1
      <4>2. CASE p # r
        <5>1. reader'[p].of = reader[p].of /\ reader'[p].of # reader'[q].of
          BY <1>8, <2>2, <4>2 DEF Alone
        <5> QED
          BY <2>1, <5>1
      <4> QED
        BY <4>1, <4>2
    <3> QED
      BY <3>1, <3>2 DEF Alone
  <2>3. ASSUME rd.at \in {"reading", "closed", "cut"}, Alone(q)'
        PROVE  reader'[q] = rd /\ Heard(rd, told[rd.of], taken[rd.of], known)
    <3>1. rd.of # 0
      BY <2>1, <2>3 DEF GoodReader
    <3>2. Alone(q) /\ q \notin others
      BY <2>2, <2>3, <3>1
    <3> QED
      BY <2>1, <2>3, <3>2 DEF GoodReader
  <2> QED
    BY <1>1, <2>1, <2>3 DEF GoodReader
<1> QED
  BY <1>1, <1>2, <1>9, <1>10, <1>11, <1>12 DEF ReadersInv

LEMMA ReadersStep ==
  ASSUME ChatInv, ReadersInv, [Next]_vars
  PROVE  ReadersInv'
BY StreamKeepsReaders, CrashKeepsReaders, OthersKeepReaders, ReadKeepsReaders,
   DisconnectKeepsReaders, OpenKeepsReaders DEF Next

LEMMA ReadersInit == Init => ReadersInv
<1> SUFFICES ASSUME Init
             PROVE  ReadersInv
  OBVIOUS
<1> DEFINE none == <<>>
<1>1. /\ known = {} /\ faults = 0 /\ told = [s \in Streams |-> none]
      /\ taken = [s \in Streams |-> 0]
      /\ reader = [r \in Readers |-> [of |-> 0, got |-> none, at |-> "none"]]
  BY DEF Init
<1>2. none \in Seq(SeenType) /\ Len(none) = 0
  BY EmptyHasNone, EmptySeq
<1> HIDE DEF none
<1>3. reader \in [Readers -> ReaderType]
  BY <1>1, <1>2 DEF ReaderType
<1>4. \A r \in Readers : GoodReader(r)
  BY <1>1 DEF GoodReader
<1> QED
  BY <1>1, <1>2, <1>3, <1>4, ChatAssumption DEF ReadersInv

LEMMA ReadersInvariant == Spec => [](ChatInv /\ ReadersInv)
<1>1. ChatInv /\ ReadersInv /\ [Next]_vars => (ChatInv /\ ReadersInv)'
  BY ChatStep, ReadersStep
<1>2. Init => ChatInv /\ ReadersInv
  BY ChatInit, ReadersInit
<1> QED
  BY <1>1, <1>2, PTL DEF Spec
-----------------------------------------------------------------------------
(* The theorems on readers and permits.                                    *)

\* Tasks, requests and readers are only ever where the code can be, no more
\* is taken from a queue than was put in it, and the permits of the model
\* provider's semaphore, with those that are held, are always as many as it
\* was made with, for any mix of streaming and other callers.
THEOREM ChatTypes == Spec => []TypeOK
<1>1. ASSUME ChatInv, ReadersInv
      PROVE  TypeOK
  <2>1. ProviderTypeOK
    <3>1. /\ provider \in {"anthropic", "openai"} /\ request \in [Callers -> RequestType]
          /\ free \in Nat /\ IsFiniteSet(Holders) /\ free + Cardinality(Holders) = MaxConcurrent
      BY <1>1 DEF ChatInv, RequestsInv, PermitInv
    <3>2. Cardinality(Holders) \in Nat
      BY <3>1, FS_CardinalityType
    <3>3. free \in 0..MaxConcurrent
      BY <3>1, <3>2, ProviderAssumption
    <3>4. ASSUME NEW c \in Callers
          PROVE  /\ request[c].at \in {"none", "queued", "calling", "streaming"}
                 /\ request[c].attempt \in 1..MaxAttempts
      BY <3>1 DEF RequestType
    <3> QED
      BY <3>1, <3>3, <3>4 DEF ProviderTypeOK, Holders
  <2>2. ASSUME NEW s \in Streams
        PROVE  /\ task[s].pc \in Labels
               /\ ~ Pc(s, "listen") => At(s, "none")
               /\ taken[s] \in 0..Len(told[s])
    <3>1. task[s] \in TaskType /\ GoodRequest(task[s], request[s], provider)
      BY <1>1 DEF ChatInv, StreamsInv, RequestsInv
    <3>2. told[s] \in Seq(EventType) /\ taken[s] \in Nat /\ taken[s] <= Len(told[s])
      BY <1>1 DEF ChatInv, StreamsInv, ReadersInv
    <3> DEFINE events == told[s]
    <3> HIDE DEF events
    <3>3. events \in Seq(EventType)
      BY <3>2 DEF events
    <3>4. Len(events) \in Nat
      BY <3>3, LenProperties
    <3>5. taken[s] \in 0..Len(told[s])
      BY <3>2, <3>4 DEF events
    <3>6. task[s].pc \in Labels
      BY <3>1 DEF TaskType
    <3>7. ~ Pc(s, "listen") => At(s, "none")
      BY <3>1 DEF GoodRequest, Pc, At
    <3> QED
      BY <3>5, <3>6, <3>7
  <2>3. ASSUME NEW r \in Readers
        PROVE  reader[r].at \in {"none", "reading", "closed", "gone", "cut"}
    BY <1>1 DEF ReadersInv, ReaderType
  <2>4. known \subseteq Streams /\ faults \in 0..MaxFaults
    BY <1>1 DEF ReadersInv
  <2> QED
    BY <2>1, <2>2, <2>3, <2>4 DEF TypeOK, Labels
<1> QED
  BY <1>1, ReadersInvariant, PTL

LEMMA BeginIsPrefix ==
  ASSUME NEW events \in Seq(EventType), NEW got \in Seq(SeenType), Begins(got, events)
  PROVE  IsPrefix(got, events)
<1>1. Len(got) \in Nat /\ Len(events) \in Nat
  BY LenProperties
<1>2. events \in Seq(SeenType)
  BY SeqMonotonic DEF SeenType
<1> DEFINE first == SubSeq(events, 1, Len(got))
           whole == SubSeq(got, 1, Len(got))
<1>3. \A i \in 1..Len(got) : events[i] \in SeenType
  BY <1>1, <1>2, ElementOfSeq DEF Begins
<1>4. /\ first \in Seq(SeenType) /\ Len(first) = Len(got)
      /\ \A i \in 1..Len(got) : first[i] = events[i]
  <2>1. /\ first \in Seq(SeenType) /\ Len(first) = IF 1 <= Len(got) THEN Len(got) - 1 + 1 ELSE 0
        /\ \A i \in 1..Len(got) - 1 + 1 : first[i] = events[1 + i - 1]
    BY <1>1, <1>3, SubSeqProperties
  <2> HIDE DEF first
  <2> QED
    BY <1>1, <2>1
<1>5. whole = got
  BY SubSeqFull
<1> HIDE DEF first, whole
<1>6. \A i \in 1..Len(got) : first[i] = got[i]
  BY <1>4 DEF Begins
<1>7. first = got
  BY <1>4, <1>6, SeqEqual
<1> QED
  BY <1>5, <1>7 DEF IsPrefix, Begins, first, whole

\* A reader that shares its stream with no other has got what was put, in
\* order, nothing missing and nothing twice; when the server closes it, "done"
\* came last and once; and whoever asks for a stream that is gone is told so
\* (chat_service.py, stream_events).
THEOREM SoleReaderGetsTheStream == Spec => []SoleReaderSeesAll
<1>1. ASSUME ChatInv, ReadersInv
      PROVE  SoleReaderSeesAll
  <2> SUFFICES ASSUME NEW r \in Readers,
                      reader[r].at \in {"reading", "closed", "cut"}, Alone(r)
               PROVE  LET got == reader[r].got
                          s == reader[r].of
                      IN  \/ got = <<UnknownStream>> /\ s \notin known
                          \/ /\ IsPrefix(got, told[s])
                             /\ reader[r].at = "reading" => Len(got) = taken[s]
                             /\ reader[r].at = "closed" =>
                                  got # <<>> /\ \A i \in DOMAIN got : got[i] = Done <=> i = Len(got)
    BY DEF SoleReaderSeesAll
  <2> DEFINE rd == reader[r]
             got == rd.got
             s == rd.of
             events == told[s]
  <2>1. rd \in ReaderType /\ GoodReader(r)
    BY <1>1 DEF ReadersInv
  <2>2. s \in Streams /\ Heard(rd, events, taken[s], known)
    BY <2>1 DEF GoodReader, ReaderType
  <2>3. events \in Seq(EventType) /\ got \in Seq(SeenType)
    BY <1>1, <2>1, <2>2 DEF ChatInv, StreamsInv, ReaderType
  <2>4. DOMAIN got = 1..Len(got)
    <3> HIDE DEF got
    <3> QED
      BY <2>3, LenProperties
  <2>5. CASE got = <<UnknownStream>> /\ s \notin known
    BY <2>5
  <2>6. CASE /\ Begins(got, events)
             /\ rd.at = "reading" => Len(got) = taken[s]
             /\ rd.at = "closed" => Whole(got)
    <3>1. IsPrefix(got, events)
      <4> HIDE DEF got, events
      <4> QED
        BY <2>3, <2>6, BeginIsPrefix
    <3> QED
      BY <2>4, <2>6, <3>1 DEF Whole
  <2> QED
    BY <2>2, <2>5, <2>6 DEF Heard
<1> QED
  BY <1>1, ReadersInvariant, PTL
=============================================================================
