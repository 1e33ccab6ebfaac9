----------------------------- MODULE AnswerProofs -----------------------------
(***************************************************************************)
(* Proofs about the front ends that put DeepSeek's answer in their own     *)
(* words: TranslatedAnswer, for every conversation of the backend, every   *)
(* set of requests and any bounds, and ResponsesStream, for every answer   *)
(* of the upstream, every cut of its text, every end of an attempt and     *)
(* every policy of the request.  Last, what is proved of each of the five  *)
(* front ends holds where they stand in one specification.                 *)
(***************************************************************************)
EXTENDS MCFrontEnds, FrontEndProofs

\* Short sequences put one after the other.
LEMMA PairOf ==
    ASSUME NEW S, NEW a \in S, NEW b \in S
    PROVE  <<a>> \o <<b>> = <<a, b>> /\ <<>> \o <<b>> = <<b>> /\ <<a, b>> \in Seq(S)
  <1>. DEFINE s == <<a>> \o <<b>>
              t == <<a, b>>
  <1>1. <<a>> \in Seq(S) /\ <<b>> \in Seq(S) /\ t \in Seq(S) /\ Len(<<a>>) = 1 /\ Len(<<b>>) = 1 /\ Len(t) = 2
    OBVIOUS
  <1>2. s \in Seq(S) /\ Len(s) = 1 + 1 /\ \A i \in 1..1 + 1 : s[i] = IF i <= 1 THEN <<a>>[i] ELSE <<b>>[i - 1]
    BY <1>1, ConcatProperties
  <1>3. s[1] = t[1] /\ s[2] = t[2]
    BY <1>2
  <1>. HIDE DEF s, t
  <1>4. Len(s) = Len(t) /\ \A i \in 1..Len(s) : s[i] = t[i]
    <2>1. \A i \in 1..Len(s) : i = 1 \/ i = 2
      BY <1>2
    <2>. QED BY <1>1, <1>2, <1>3, <2>1
  <1>5. s = t
    BY <1>1, <1>2, <1>4, SeqEqual
  <1>6. <<>> \o <<b>> = <<b>>
    BY <1>1, ConcatEmptySeq
  <1>. QED BY <1>1, <1>5, <1>6 DEF s, t

LEMMA TripleOf ==
    ASSUME NEW S, NEW a \in S, NEW b \in S
    PROVE  <<a>> \o <<b, b>> = <<a, b, b>> /\ <<a, b, b>> \in Seq(S)
  <1>. DEFINE s == <<a>> \o <<b, b>>
              t == <<a, b, b>>
  <1>1. <<a>> \in Seq(S) /\ <<b, b>> \in Seq(S) /\ t \in Seq(S) /\ Len(<<a>>) = 1 /\ Len(<<b, b>>) = 2 /\ Len(t) = 3
    OBVIOUS
  <1>2. s \in Seq(S) /\ Len(s) = 1 + 2 /\ \A i \in 1..1 + 2 : s[i] = IF i <= 1 THEN <<a>>[i] ELSE <<b, b>>[i - 1]
    BY <1>1, ConcatProperties
  <1>3. s[1] = t[1] /\ s[2] = t[2] /\ s[3] = t[3]
    BY <1>2
  <1>. HIDE DEF s, t
  <1>4. Len(s) = Len(t) /\ \A i \in 1..Len(s) : s[i] = t[i]
    <2>1. \A i \in 1..Len(s) : i = 1 \/ i = 2 \/ i = 3
      BY <1>2
    <2>. QED BY <1>1, <1>2, <1>3, <2>1
  <1>5. s = t
    BY <1>1, <1>2, <1>4, SeqEqual
  <1>. QED BY <1>1, <1>5 DEF s, t

LEMMA QuadrupleOf ==
    ASSUME NEW S, NEW a \in S, NEW b \in S, NEW c \in S
    PROVE  <<a, b>> \o <<c, c>> = <<a, b, c, c>> /\ <<a, b, c, c>> \in Seq(S)
  <1>. DEFINE s == <<a, b>> \o <<c, c>>
              t == <<a, b, c, c>>
  <1>1. <<a, b>> \in Seq(S) /\ <<c, c>> \in Seq(S) /\ t \in Seq(S) /\ Len(<<a, b>>) = 2 /\ Len(<<c, c>>) = 2 /\ Len(t) = 4
    OBVIOUS
  <1>2. s \in Seq(S) /\ Len(s) = 2 + 2 /\ \A i \in 1..2 + 2 : s[i] = IF i <= 2 THEN <<a, b>>[i] ELSE <<c, c>>[i - 2]
    BY <1>1, ConcatProperties
  <1>3. s[1] = t[1] /\ s[2] = t[2] /\ s[3] = t[3] /\ s[4] = t[4]
    BY <1>2
  <1>. HIDE DEF s, t
  <1>4. Len(s) = Len(t) /\ \A i \in 1..Len(s) : s[i] = t[i]
    <2>1. \A i \in 1..Len(s) : i = 1 \/ i = 2 \/ i = 3 \/ i = 4
      BY <1>2
    <2>. QED BY <1>1, <1>2, <1>3, <2>1
  <1>5. s = t
    BY <1>1, <1>2, <1>4, SeqEqual
  <1>. QED BY <1>1, <1>5 DEF s, t

-----------------------------------------------------------------------------
\* TranslatedAnswer: lines and what is made of them

Tok == [is : {"data:", "nl", "comment", "payload", "body", "opening", "chunk", "whole"},
        kind : {"", "done", "error", "thinking", "text"}, usage : BOOLEAN]

LEMMA TokensTyped ==
    /\ DataPrefix \in Tok /\ NewLine \in Tok /\ KeepAlive \in Tok /\ Done \in Tok /\ ErrorBody \in Tok
    /\ LinePayloads \subseteq Tok
  <1>1. DataPrefix \in Tok /\ NewLine \in Tok
    BY DEF Tok, Token, DataPrefix, NewLine
  <1>2. KeepAlive \in Tok /\ Done \in Tok /\ ErrorBody \in Tok
    BY DEF Tok, Token, KeepAlive, Done, ErrorBody
  <1>3. ASSUME NEW p \in LinePayloads PROVE p \in Tok
    <2>1. PICK kind \in {"thinking", "text"}, usage \in BOOLEAN : p = Token("payload", kind, usage)
      BY DEF LinePayloads
    <2>. QED BY <2>1 DEF Tok, Token
  <1>. QED BY <1>1, <1>2, <1>3

\* The tokens are told apart.
LEMMA TokensDiffer ==
    /\ DataPrefix # NewLine /\ KeepAlive # NewLine /\ Done # NewLine /\ ErrorBody # Done /\ KeepAlive # DataPrefix
    /\ ErrorBody # KeepAlive /\ Done # KeepAlive
    /\ \A p \in LinePayloads : p # NewLine /\ p # KeepAlive /\ p # Done /\ p # ErrorBody
  <1>1. DataPrefix.is = "data:" /\ NewLine.is = "nl" /\ KeepAlive.is = "comment" /\ Done.is = "payload"
        /\ ErrorBody.is = "body" /\ Done.kind = "done"
    BY DEF Token, DataPrefix, NewLine, KeepAlive, Done, ErrorBody
  <1>2. \A p \in LinePayloads : p.is = "payload" /\ p.kind \in {"thinking", "text"}
    BY DEF Token, LinePayloads
  <1>. QED BY <1>1, <1>2

\* Nothing is read of what holds no whole line.
LEMMA ReadsNothing ==
    ASSUME NEW b \in Seq(Tok), NEW format, LineEnds(b) = {}
    PROVE  Reads(b, format) = [param |-> writer.param, out |-> <<>>] /\ RestOf(b) = b
  <1>. DEFINE n == Len(b)
              s == [param |-> writer.param, out |-> <<>>]
              Rec(g) == g = [i \in 0..n |->
                               CASE i = 0 -> s
                                 [] i > 0 /\ b[i] = NewLine -> OnLine(g[i - 1], format, LineUpTo(b, i))
                                 [] OTHER -> g[i - 1]]
  <1>1. n \in Nat /\ \A i \in 1..n : b[i] # NewLine
    BY LenProperties DEF LineEnds
  <1>. HIDE DEF s
  <1>2. Rec([i \in 0..n |-> s])
    BY <1>1
  <1>3. PICK h : Rec(h) /\ Reads(b, format) = h[n]
    BY <1>2 DEF Reads, s
  <1>4. h[0] = s /\ \A i \in 1..n : h[i] = h[i - 1]
    BY <1>1, <1>3
  <1>. DEFINE T == {s}
              F == [p \in (1..n) \X T |-> s]
  <1>5. \A i \in 0..n : h[i] \in T
    <2>1. F \in [(1..n) \X T -> T]
      OBVIOUS
    <2>2. Follows(T, s, F, n, h)
      BY <1>4 DEF Follows
    <2>3. s \in T
      OBVIOUS
    <2>. HIDE DEF F, T, n
    <2>. QED BY <1>1, <2>1, <2>2, <2>3, RunsTyped
  <1>6. h[n] = s
    BY <1>1, <1>5
  <1>7. RestOf(b) = b
    <2>1. LastEnd(b) = 0
      BY DEF LastEnd
    <2>. QED BY <2>1, SubSeqFull DEF RestOf
  <1>. QED BY <1>3, <1>6, <1>7 DEF s

\* A line and a blank one are read as that line, and nothing is left of them.
LEMMA ReadsOneLine ==
    ASSUME NEW line \in Seq(Tok), NEW format, LineEnds(line) = {}, line # <<>>
    PROVE  /\ Reads(line \o <<NewLine, NewLine>>, format) = OnLine([param |-> writer.param, out |-> <<>>], format, line)
           /\ RestOf(line \o <<NewLine, NewLine>>) = <<>>
  <1>. DEFINE m == Len(line)
              b == line \o <<NewLine, NewLine>>
              n == Len(b)
              s == [param |-> writer.param, out |-> <<>>]
              t == OnLine(s, format, line)
              Rec(g) == g = [i \in 0..n |->
                               CASE i = 0 -> s
                                 [] i > 0 /\ b[i] = NewLine -> OnLine(g[i - 1], format, LineUpTo(b, i))
                                 [] OTHER -> g[i - 1]]
  <1>1. m \in Nat /\ m > 0 /\ \A i \in 1..m : line[i] # NewLine
    BY LenProperties, EmptySeq DEF LineEnds
  <1>2. <<NewLine, NewLine>> \in Seq(Tok) /\ Len(<<NewLine, NewLine>>) = 2
    BY TokensTyped
  <1>3. /\ b \in Seq(Tok) /\ n = m + 2 /\ DOMAIN b = 1..n
        /\ \A i \in 1..m : b[i] = line[i] /\ b[i] # NewLine
        /\ b[m + 1] = NewLine /\ b[m + 2] = NewLine
    <2>1. /\ b \in Seq(Tok) /\ n = m + 2
          /\ \A i \in 1..m + 2 : b[i] = IF i <= m THEN line[i] ELSE <<NewLine, NewLine>>[i - m]
      BY <1>2, ConcatProperties
    <2>2. m + 1 \in 1..m + 2 /\ m + 2 \in 1..m + 2 /\ ~(m + 1 <= m) /\ ~(m + 2 <= m)
          /\ (m + 1) - m = 1 /\ (m + 2) - m = 2
      BY <1>1
    <2>3. b[m + 1] = NewLine /\ b[m + 2] = NewLine
      BY <2>1, <2>2
    <2>4. \A i \in 1..m : i \in 1..m + 2 /\ i <= m
      BY <1>1
    <2>5. DOMAIN b = 1..n
      BY <2>1, LenProperties
    <2>6. \A i \in 1..m : b[i] = line[i]
      BY <2>1, <2>4
    <2>. HIDE DEF b, n, m
    <2>. QED BY <1>1, <2>1, <2>3, <2>5, <2>6
  <1>. HIDE DEF b, s
  <1>4. LineUpTo(b, m + 1) = line
    <2>1. (m + 1) - 1 = m
      BY <1>1
    <2>2. SubSeq(b, 1, m) \in Seq(Tok) /\ Len(SubSeq(b, 1, m)) = m /\ \A i \in 1..m : SubSeq(b, 1, m)[i] = line[i]
      <3>1. \A i \in 1..m : b[i] \in Tok
        BY <1>1, <1>3, ElementOfSeq
      <3>2. /\ SubSeq(b, 1, m) \in Seq(Tok) /\ Len(SubSeq(b, 1, m)) = IF 1 <= m THEN m - 1 + 1 ELSE 0
            /\ \A i \in 1..m - 1 + 1 : SubSeq(b, 1, m)[i] = b[1 + i - 1]
        <4>. HIDE DEF m
        <4>. QED BY <1>1, <3>1, SubSeqProperties
      <3>. HIDE DEF m
      <3>. QED BY <1>1, <1>3, <3>2
    <2>3. SubSeq(b, 1, m) = line
      BY <2>2, SeqEqual
    <2>4. LastEnd(line) = 0
      BY DEF LastEnd
    <2>. HIDE DEF m
    <2>5. LineUpTo(b, m + 1) = SubSeq(b, LastEnd(SubSeq(b, 1, m)) + 1, m)
      BY <2>1 DEF LineUpTo
    <2>6. LastEnd(SubSeq(b, 1, m)) = 0
      BY <2>3, <2>4
    <2>7. LineUpTo(b, m + 1) = SubSeq(b, 0 + 1, m)
      BY <2>5, <2>6
    <2>8. 0 + 1 = 1
      OBVIOUS
    <2>. QED BY <2>3, <2>7, <2>8
  <1>. HIDE DEF m
  <1>5. LineUpTo(b, m + 2) = <<>>
    <2>. DEFINE c == SubSeq(b, 1, m + 1)
    <2>1. (m + 2) - 1 = m + 1
      BY <1>1
    <2>2. c \in Seq(Tok) /\ Len(c) = m + 1 /\ \A i \in 1..m + 1 : c[i] = b[i]
      <3>1. \A i \in 1..m + 1 : i \in 1..n
        BY <1>1, <1>3
      <3>2. \A i \in 1..m + 1 : b[i] \in Tok
        BY <1>3, <3>1, ElementOfSeq
      <3>3. /\ c \in Seq(Tok) /\ Len(c) = IF 1 <= m + 1 THEN (m + 1) - 1 + 1 ELSE 0
            /\ \A i \in 1..(m + 1) - 1 + 1 : c[i] = b[1 + i - 1]
        BY <1>1, <3>2, SubSeqProperties
      <3>. HIDE DEF c
      <3>. QED BY <1>1, <3>3
    <2>. HIDE DEF c
    <2>3. LineEnds(c) = {m + 1}
      <3>1. DOMAIN c = 1..m + 1
        BY <2>2, LenProperties
      <3>2. \A i \in 1..m + 1 : i = m + 1 \/ i \in 1..m
        BY <1>1
      <3>3. m + 1 \in 1..m + 1
        BY <1>1
      <3>. QED BY <1>3, <2>2, <3>1, <3>2, <3>3 DEF LineEnds
    <2>4. LastEnd(c) = m + 1
      BY <1>1, <2>3 DEF LastEnd
    <2>5. LineUpTo(b, m + 2) = SubSeq(b, (m + 1) + 1, m + 1)
      BY <2>1, <2>4 DEF LineUpTo, c
    <2>. QED BY <1>1, <2>5, SubSeqEmpty
  <1>6. \A r : OnLine(r, format, <<>>) = r
    BY DEF OnLine
  <1>. HIDE DEF t
  <1>7. Rec([i \in 0..n |-> IF i <= m THEN s ELSE t])
    <2>. DEFINE g == [i \in 0..n |-> IF i <= m THEN s ELSE t]
    <2>1. ASSUME NEW i \in 0..n
          PROVE  g[i] = CASE i = 0 -> s
                          [] i > 0 /\ b[i] = NewLine -> OnLine(g[i - 1], format, LineUpTo(b, i))
                          [] OTHER -> g[i - 1]
      <3>0. 0 \in 0..n /\ m \in 0..n /\ m + 1 \in 0..n /\ m + 2 \in 0..n /\ ~(m + 1 <= m) /\ ~(m + 2 <= m) /\ m <= m /\ 0 <= m
            /\ m + 1 > 0 /\ m + 2 > 0 /\ (m + 1) - 1 = m /\ (m + 2) - 1 = m + 1
        BY <1>1, <1>3
      <3>1. g[0] = s /\ g[m] = s /\ g[m + 1] = t /\ g[m + 2] = t
        BY <3>0
      <3>2. CASE i = 0
        BY <3>1, <3>2
      <3>3. CASE i \in 1..m
        <4>1. i - 1 \in 0..n /\ i - 1 <= m /\ i <= m /\ i > 0
          BY <1>1, <1>3, <3>3
        <4>2. g[i] = s /\ g[i - 1] = s
          BY <4>1
        <4>. HIDE DEF g
        <4>. QED BY <1>3, <3>3, <4>1, <4>2
      <3>. HIDE DEF g
      <3>4. CASE i = m + 1
        <4>1. t = OnLine(g[m], format, LineUpTo(b, m + 1))
          BY <1>4, <3>1 DEF t
        <4>2. i > 0 /\ b[i] = NewLine /\ i - 1 = m /\ i # 0
          BY <1>3, <3>0, <3>4
        <4>. QED BY <3>1, <3>4, <4>1, <4>2
      <3>5. CASE i = m + 2
        <4>1. t = OnLine(g[m + 1], format, LineUpTo(b, m + 2))
          BY <1>5, <1>6, <3>1
        <4>2. i > 0 /\ b[i] = NewLine /\ i - 1 = m + 1 /\ i # 0
          BY <1>3, <3>0, <3>5
        <4>. QED BY <3>1, <3>5, <4>1, <4>2
      <3>6. i = 0 \/ i \in 1..m \/ i = m + 1 \/ i = m + 2
        BY <1>1, <1>3
      <3>. QED BY <3>2, <3>3, <3>4, <3>5, <3>6
    <2>. QED BY <2>1
  <1>8. PICK h : Rec(h) /\ Reads(b, format) = h[n]
    BY <1>7 DEF Reads, s, n
  <1>. HIDE DEF n
  <1>9. h[0] = s /\ \A i \in 1..m : h[i] = h[i - 1]
    <2>1. \A i \in 1..m : i \in 0..n /\ i # 0 /\ i > 0
      BY <1>1, <1>3
    <2>2. 0 \in 0..n
      BY <1>1, <1>3
    <2>3. h[0] = s
      BY <1>8, <2>2
    <2>4. ASSUME NEW i \in 1..m PROVE h[i] = h[i - 1]
      <3>1. h[i] = CASE i = 0 -> s
                     [] i > 0 /\ b[i] = NewLine -> OnLine(h[i - 1], format, LineUpTo(b, i))
                     [] OTHER -> h[i - 1]
        BY <1>8, <2>1
      <3>. QED BY <1>3, <2>1, <3>1
    <2>. QED BY <2>3, <2>4
  <1>10. h[m] = s
    <2>. DEFINE T == {s}
                F == [p \in (1..m) \X T |-> s]
    <2>1. F \in [(1..m) \X T -> T] /\ s \in T
      OBVIOUS
    <2>2. Follows(T, s, F, m, h)
      BY <1>9 DEF Follows
    <2>3. \A x \in T : x = s
      OBVIOUS
    <2>. HIDE DEF F, T
    <2>4. \A i \in 0..m : h[i] \in T
      BY <1>1, <2>1, <2>2, RunsTyped
    <2>5. m \in 0..m
      BY <1>1
    <2>. QED BY <2>3, <2>4, <2>5
  <1>11. h[m + 1] = t /\ h[m + 2] = h[m + 1]
    <2>1. m + 1 \in 0..n /\ m + 2 \in 0..n /\ m + 1 > 0 /\ m + 2 > 0 /\ (m + 1) - 1 = m /\ (m + 2) - 1 = m + 1
          /\ m + 1 # 0 /\ m + 2 # 0
      BY <1>1, <1>3
    <2>2. h[m + 1] = OnLine(h[m], format, LineUpTo(b, m + 1))
      BY <1>3, <1>8, <2>1
    <2>3. h[m + 2] = OnLine(h[m + 1], format, LineUpTo(b, m + 2))
      BY <1>3, <1>8, <2>1
    <2>. QED BY <1>4, <1>5, <1>6, <1>10, <2>2, <2>3 DEF t
  <1>12. RestOf(b) = <<>>
    <2>1. LineEnds(b) = {m + 1, m + 2}
      <3>1. \A i \in 1..n : i \in 1..m \/ i = m + 1 \/ i = m + 2
        BY <1>1, <1>3
      <3>2. m + 1 \in 1..n /\ m + 2 \in 1..n
        BY <1>1, <1>3
      <3>. QED BY <1>3, <3>1, <3>2 DEF LineEnds
    <2>2. LastEnd(b) = m + 2
      <3>1. m + 2 \in LineEnds(b) /\ \A j \in LineEnds(b) : j <= m + 2
        BY <1>1, <2>1
      <3>2. \A i \in LineEnds(b) : (\A j \in LineEnds(b) : j <= i) => i = m + 2
        BY <1>1, <2>1
      <3>3. LineEnds(b) # {}
        BY <2>1
      <3>. QED BY <3>1, <3>2, <3>3 DEF LastEnd
    <2>3. RestOf(b) = SubSeq(b, (m + 2) + 1, m + 2)
      BY <1>3, <2>2 DEF RestOf, n
    <2>. QED BY <1>1, <2>3, SubSeqEmpty
  <1>. QED BY <1>3, <1>8, <1>11, <1>12 DEF b, t, s

\* What has no thinking in it.
NoThinking(s) == \A i \in DOMAIN s : s[i].kind # "thinking"

LEMMA QuietConcat ==
    ASSUME NEW s \in Seq(Tok), NoThinking(s), NEW t \in Seq(Tok), NoThinking(t)
    PROVE  NoThinking(s \o t)
  <1>1. /\ s \o t \in Seq(Tok) /\ Len(s \o t) = Len(s) + Len(t)
        /\ \A i \in 1..Len(s) + Len(t) : (s \o t)[i] = IF i <= Len(s) THEN s[i] ELSE t[i - Len(s)]
    BY ConcatProperties
  <1>2. DOMAIN s = 1..Len(s) /\ DOMAIN t = 1..Len(t) /\ Len(s) \in Nat /\ Len(t) \in Nat /\ DOMAIN (s \o t) = 1..Len(s) + Len(t)
    BY <1>1, LenProperties
  <1>3. \A i \in 1..Len(s) + Len(t) : IF i <= Len(s) THEN i \in 1..Len(s) ELSE i - Len(s) \in 1..Len(t)
    BY <1>2
  <1>. QED BY <1>1, <1>2, <1>3 DEF NoThinking

LEMMA QuietPair ==
    ASSUME NEW a \in Tok, NEW b \in Tok, a.kind # "thinking", b.kind # "thinking"
    PROVE  NoThinking(<<>>) /\ NoThinking(<<b>>) /\ NoThinking(<<a, b>>)
  <1>1. NoThinking(<<>>)
    BY DEF NoThinking
  <1>2. NoThinking(<<b>>)
    BY DEF NoThinking
  <1>3. NoThinking(<<a, b>>)
    BY DEF NoThinking
  <1>. QED BY <1>1, <1>2, <1>3

LEMMA MeantTyped ==
    ASSUME NEW said \in Seq(Tok), NEW i \in 1..Len(said), NEW format
    PROVE  Meant(said, i, format) \in Seq(Tok)
  <1>1. said[i] \in Tok
    BY ElementOfSeq
  <1>2. Said("opening", Done, FALSE) \in Tok /\ Said("chunk", said[i], said[i].usage) \in Tok
    BY <1>1, TokensTyped DEF Said, Tok
  <1>3. KeepAlive \in Tok
    BY TokensTyped
  <1>. DEFINE o == Said("opening", Done, FALSE)
              c == Said("chunk", said[i], said[i].usage)
  <1>. HIDE DEF o, c
  <1>4. <<>> \in Seq(Tok) /\ <<KeepAlive>> \in Seq(Tok) /\ <<c>> \in Seq(Tok) /\ <<o, c>> \in Seq(Tok)
    <2>1. o \in Tok /\ c \in Tok
      BY <1>2 DEF o, c
    <2>. HIDE DEF Tok
    <2>. QED BY <1>3, <2>1
  <1>5. CASE said[i] = KeepAlive
    BY <1>4, <1>5 DEF Meant
  <1>6. CASE said[i] # KeepAlive
    <2>1. CASE said[i] = Done /\ format = "gemini"
      BY <1>4, <1>6, <2>1 DEF Meant
    <2>2. CASE ~(said[i] = Done /\ format = "gemini") /\ format = "claude" /\ FirstOfData(said, i)
      BY <1>4, <1>6, <2>2 DEF Meant, o, c
    <2>3. CASE ~(said[i] = Done /\ format = "gemini") /\ ~(format = "claude" /\ FirstOfData(said, i))
      BY <1>4, <1>6, <2>3 DEF Meant, c
    <2>. QED BY <2>1, <2>2, <2>3
  <1>. QED BY <1>5, <1>6

LEMMA MeantQuiet ==
    ASSUME NEW said \in Seq(Tok), NEW i \in 1..Len(said), NEW format, said[i].kind # "thinking"
    PROVE  NoThinking(Meant(said, i, format))
  <1>. DEFINE o == Said("opening", Done, FALSE)
              c == Said("chunk", said[i], said[i].usage)
  <1>0. said[i] \in Tok
    BY ElementOfSeq
  <1>1. o \in Tok /\ c \in Tok /\ KeepAlive \in Tok /\ o.kind # "thinking" /\ c.kind # "thinking" /\ KeepAlive.kind # "thinking"
    <2>1. o \in Tok /\ c \in Tok
      BY <1>0, TokensTyped DEF Said, Tok
    <2>2. o.kind # "thinking" /\ c.kind # "thinking"
      BY DEF Said, Done, Token
    <2>. QED BY <2>1, <2>2, TokensTyped DEF KeepAlive, Token
  <1>. HIDE DEF o, c
  <1>2. NoThinking(<<>>) /\ NoThinking(<<c>>) /\ NoThinking(<<o, c>>) /\ NoThinking(<<KeepAlive>>)
    BY <1>1, QuietPair
  <1>3. CASE said[i] = KeepAlive
    BY <1>2, <1>3, TokensDiffer DEF Meant
  <1>4. CASE said[i] # KeepAlive
    <2>1. CASE said[i] = Done /\ format = "gemini"
      BY <1>2, <1>4, <2>1 DEF Meant
    <2>2. CASE ~(said[i] = Done /\ format = "gemini") /\ format = "claude" /\ FirstOfData(said, i)
      BY <1>2, <1>4, <2>2 DEF Meant, o, c
    <2>3. CASE ~(said[i] = Done /\ format = "gemini") /\ ~(format = "claude" /\ FirstOfData(said, i))
      BY <1>2, <1>4, <2>3 DEF Meant, c
    <2>. QED BY <2>1, <2>2, <2>3
  <1>. QED BY <1>3, <1>4

AddMeant(said, format) == [p \in (1..Len(said)) \X Seq(Tok) |-> p[2] \o Meant(said, p[1], format)]

LEMMA AllMeantLaws ==
    ASSUME NEW said \in Seq(Tok), NEW format
    PROVE  /\ AllMeant(said, format) \in Seq(Tok)
           /\ \A h : Follows(Seq(Tok), <<>>, AddMeant(said, format), Len(said), h) => AllMeant(said, format) = h[Len(said)]
  <1>. DEFINE n == Len(said)
              T == Seq(Tok)
              F == AddMeant(said, format)
              Rec(g) == g = [i \in 0..n |-> IF i = 0 THEN <<>> ELSE g[i - 1] \o Meant(said, i, format)]
  <1>1. n \in Nat /\ <<>> \in T
    BY LenProperties, EmptySeq
  <1>2. F \in [(1..n) \X T -> T]
    <2>1. ASSUME NEW i \in 1..n, NEW x \in T PROVE x \o Meant(said, i, format) \in T
      BY MeantTyped, ConcatProperties
    <2>. QED BY <2>1 DEF AddMeant
  <1>3. \A i \in 1..n, x \in T : F[<<i, x>>] = x \o Meant(said, i, format)
    BY DEF AddMeant
  <1>. HIDE DEF T, F, n
  <1>4. PICK g \in [0..n -> T] : Runs(<<>>, F, n, g)
    BY <1>1, <1>2, RunsExist
  <1>5. Rec(g)
    <2>1. \A i \in 1..n : g[i] = g[i - 1] \o Meant(said, i, format)
      <3>1. \A i \in 1..n : i - 1 \in 0..n
        BY <1>1
      <3>. QED BY <1>3, <1>4, <3>1 DEF Runs
    <2>2. g[0] = <<>>
      BY <1>4 DEF Runs
    <2>3. \A i \in 0..n : i = 0 \/ i \in 1..n
      BY <1>1
    <2>4. \A i \in 0..n : g[i] = IF i = 0 THEN <<>> ELSE g[i - 1] \o Meant(said, i, format)
      BY <2>1, <2>2, <2>3
    <2>. QED BY <2>4
  <1>6. PICK h : Rec(h) /\ AllMeant(said, format) = h[n]
    BY <1>5 DEF AllMeant, n
  <1>7. Follows(T, <<>>, F, n, h)
    <2>1. 0 \in 0..n /\ \A i \in 1..n : i \in 0..n /\ i # 0
      BY <1>1
    <2>2. h[0] = <<>> /\ \A i \in 1..n : h[i] = h[i - 1] \o Meant(said, i, format)
      BY <1>6, <2>1
    <2>. QED BY <1>3, <2>2 DEF Follows
  <1>8. ASSUME NEW k, Follows(T, <<>>, F, n, k) PROVE k[n] = h[n] /\ h[n] \in T
    BY <1>1, <1>2, <1>7, <1>8, RunsAgree
  <1>9. h[n] \in T
    BY <1>7, <1>8
  <1>. QED BY <1>6, <1>8, <1>9 DEF n, T, F

LEMMA NothingMeant ==
    ASSUME NEW format
    PROVE  AllMeant(<<>>, format) = <<>>
  <1>1. <<>> \in Seq(Tok) /\ Len(<<>>) = 0
    BY EmptySeq
  <1>. DEFINE h == [i \in {0} |-> <<>>]
  <1>2. h[0] = <<>>
    OBVIOUS
  <1>3. Follows(Seq(Tok), <<>>, AddMeant(<<>>, format), 0, h)
    BY <1>2 DEF Follows
  <1>. HIDE DEF h
  <1>. QED BY <1>1, <1>2, <1>3, AllMeantLaws

\* The lines that were said, followed by one more.
LEMMA MeantGrows ==
    ASSUME NEW said \in Seq(Tok), NEW x \in Tok, NEW format
    PROVE  /\ AllMeant(Append(said, x), format)
                 = AllMeant(said, format) \o Meant(Append(said, x), Len(said) + 1, format)
           /\ Append(said, x)[Len(said) + 1] = x
           /\ FirstOfData(Append(said, x), Len(said) + 1) <=> \A j \in 1..Len(said) : said[j] = KeepAlive
  <1>. DEFINE n == Len(said)
              more == Append(said, x)
  <1>1. n \in Nat /\ more \in Seq(Tok) /\ Len(more) = n + 1 /\ more[n + 1] = x /\ \A i \in 1..n : more[i] = said[i]
    BY LenProperties, AppendProperties
  <1>3. FirstOfData(more, n + 1) <=> \A j \in 1..n : said[j] = KeepAlive
    <2>1. (n + 1) - 1 = n
      BY <1>1
    <2>. HIDE DEF n, more
    <2>. QED BY <1>1, <2>1 DEF FirstOfData
  <1>. HIDE DEF more
  <1>4. \A i \in 1..n : Meant(more, i, format) = Meant(said, i, format)
    <2>1. ASSUME NEW i \in 1..n PROVE FirstOfData(more, i) <=> FirstOfData(said, i)
      <3>1. \A j \in 1..(i - 1) : j \in 1..n
        BY <1>1
      <3>. QED BY <1>1, <3>1 DEF FirstOfData
    <2>. QED BY <1>1, <2>1 DEF Meant
  <1>. DEFINE T == Seq(Tok)
              F == AddMeant(said, format)
              G == AddMeant(more, format)
              Rec(g) == g = [i \in 0..n + 1 |-> IF i = 0 THEN <<>> ELSE g[i - 1] \o Meant(more, i, format)]
  <1>5. PICK h : h[0] = <<>> /\ (\A i \in 1..n + 1 : h[i - 1] \in T => h[i] = h[i - 1] \o Meant(more, i, format))
                 /\ AllMeant(more, format) = h[n + 1]
    <2>0. G \in [(1..n + 1) \X T -> T] /\ <<>> \in T /\ n + 1 \in Nat
      <3>1. ASSUME NEW i \in 1..n + 1, NEW y \in T PROVE y \o Meant(more, i, format) \in T
        BY <1>1, MeantTyped, ConcatProperties
      <3>2. <<>> \in T
        BY EmptySeq
      <3>. QED BY <1>1, <3>1, <3>2 DEF AddMeant
    <2>1. PICK g \in [0..n + 1 -> T] : Runs(<<>>, G, n + 1, g)
      <3>. HIDE DEF T, G, n
      <3>. QED BY <2>0, RunsExist
    <2>2. \A i \in 1..n + 1, y \in T : G[<<i, y>>] = y \o Meant(more, i, format)
      BY <1>1 DEF AddMeant
    <2>. HIDE DEF T, G, n
    <2>3. \A i \in 1..n + 1 : i - 1 \in 0..n + 1
      BY <1>1
    <2>4. Follows(T, <<>>, G, n + 1, g)
      BY <2>1, <2>2, <2>3 DEF Follows, Runs
    <2>5. AllMeant(more, format) = g[n + 1]
      BY <1>1, <2>4, AllMeantLaws DEF T, G
    <2>. QED BY <2>1, <2>2, <2>3, <2>5 DEF Runs
  <1>6. \A i \in 1..n : i \in 1..n + 1
    BY <1>1
  <1>7. Follows(T, <<>>, F, n, h)
    <2>1. \A i \in 1..n, y \in T : F[<<i, y>>] = y \o Meant(said, i, format)
      BY DEF AddMeant
    <2>. HIDE DEF T, F, n
    <2>. QED BY <1>4, <1>5, <1>6, <2>1 DEF Follows
  <1>8. AllMeant(said, format) = h[n]
    BY <1>7, AllMeantLaws
  <1>9. h[n] \in T
    BY <1>8, AllMeantLaws
  <1>10. h[n + 1] = h[n] \o Meant(more, n + 1, format)
    <2>1. n + 1 \in 1..n + 1 /\ (n + 1) - 1 = n
      BY <1>1
    <2>. HIDE DEF n, T
    <2>. QED BY <1>5, <1>9, <2>1
  <1>. QED BY <1>1, <1>3, <1>5, <1>8, <1>10 DEF more

-----------------------------------------------------------------------------
\* TranslatedAnswer: the client is told line by line what was said

\* Whom thinking is not shown to.
NotShown(c) == c.format = "claude" /\ c.thinking \in {"unset", "off"}

TranslatedTyped ==
    /\ inquiry \in Inquiries
    /\ backend \in [at : {"asked", "between", "prefix", "payload", "over"}, thinking : BOOLEAN, line : Tok]
    /\ uttered \in Seq(Tok)
    /\ writer \in [statusCode : {200, 401, 429, 500}, headersSent : BOOLEAN, lineBuf : Seq(Tok), param : Nat]
    /\ received \in [status : {0, 200, 400, 401, 429, 500}, body : Seq(Tok)]

\* The writer keeps the parts of the line that is being written.
Buffered ==
    /\ backend.at = "prefix" => writer.lineBuf = <<DataPrefix>>
    /\ backend.at = "payload" => writer.lineBuf = <<DataPrefix, backend.line>>
    /\ backend.at \notin {"prefix", "payload"} => writer.lineBuf = <<>>
Thoughts ==
    /\ backend.thinking => Translates(inquiry) /\ ~(ThroughWriter(inquiry) /\ NotShown(inquiry))
    /\ backend.at \in {"prefix", "payload"} => ThroughWriter(inquiry)
    /\ backend.at = "payload" => backend.line \in LinePayloads /\ (backend.line.kind = "thinking" => backend.thinking)

\* Until the answer is over, the client has what the whole lines mean, and the
\* library was given those that are not keep-alives.
Underway ==
    /\ Len(uttered) <= MaxUttered /\ (backend.at \in {"prefix", "payload"} => Len(uttered) < MaxUttered)
    /\ backend.at = "asked" \/ ~ThroughWriter(inquiry) => uttered = <<>>
    /\ uttered = <<>> /\ backend.at \in {"asked", "between"} => ~writer.headersSent /\ received.status = 0
    /\ writer.statusCode = 200 /\ received.status \in {0, 200}
    /\ writer.param = 0 <=> \A i \in 1..Len(uttered) : uttered[i] = KeepAlive
    /\ received.body = AllMeant(uttered, inquiry.format)
    /\ NotShown(inquiry) => NoThinking(received.body)

TranslatedInv ==
    /\ TranslatedTyped /\ Buffered /\ Thoughts
    /\ backend.at # "over" => Underway
    /\ backend.at = "over" => ToldInTheirWords /\ Len(uttered) <= MaxUttered + 2

LEMMA LastFieldGiven ==
    ASSUME NEW A, NEW B, NEW C, NEW d \in [is : A, kind : B, usage : C], NEW v \in C
    PROVE  [d EXCEPT !.usage = v] = [is |-> d.is, kind |-> d.kind, usage |-> v]
  OBVIOUS

LEMMA UsageOfToken ==
    ASSUME NEW d \in Tok
    PROVE  [d EXCEPT !.usage = TRUE] = [is |-> d.is, kind |-> d.kind, usage |-> TRUE]
  <1>. DEFINE A == {"data:", "nl", "comment", "payload", "body", "opening", "chunk", "whole"}
              B == {"", "done", "error", "thinking", "text"}
              C == BOOLEAN
  <1>1. d \in [is : A, kind : B, usage : C]
    BY DEF Tok
  <1>2. PICK v \in C : v = TRUE
    OBVIOUS
  <1>. HIDE DEF A, B, C
  <1>3. [d EXCEPT !.usage = v] = [is |-> d.is, kind |-> d.kind, usage |-> v]
    BY <1>1, LastFieldGiven
  <1>. QED BY <1>2, <1>3

LEMMA UnbrokenPair ==
    ASSUME NEW a, NEW b, a # NewLine, b # NewLine
    PROVE  LineEnds(<<a, b>>) = {} /\ LineEnds(<<a>>) = {}
  <1>1. \A i \in DOMAIN <<a, b>> : <<a, b>>[i] # NewLine
    OBVIOUS
  <1>2. \A i \in DOMAIN <<a>> : <<a>>[i] # NewLine
    OBVIOUS
  <1>. QED BY <1>1, <1>2 DEF LineEnds

LEMMA SaidTyped ==
    ASSUME NEW is \in {"opening", "chunk", "whole"}, NEW x \in Tok, NEW usage \in BOOLEAN
    PROVE  Said(is, x, usage) \in Tok /\ Said(is, x, usage).kind = x.kind
  <1>1. x.kind \in {"", "done", "error", "thinking", "text"}
    BY DEF Tok
  <1>. QED BY <1>1 DEF Said, Tok

\* A line that is whole is read as what it means, after the lines before.
LEMMA LineMeans ==
    ASSUME NEW said \in Seq(Tok), NEW x \in LinePayloads \union {Done}, NEW format \in {"claude", "gemini"}, NEW param \in Nat,
           param = 0 <=> \A i \in 1..Len(said) : said[i] = KeepAlive
    PROVE  OnLine([param |-> param, out |-> <<>>], format, <<DataPrefix, x>>)
              = [param |-> param + 1, out |-> Meant(Append(said, x), Len(said) + 1, format)]
  <1>. DEFINE k == Len(said) + 1
              all == Append(said, x)
              s == [param |-> param, out |-> <<>>]
              made == TranslateStream(format, <<DataPrefix, x>>, param)
              full == injectStreamUsageMetadata(made, format, x.usage)
  <1>1. x \in Tok /\ x # KeepAlive /\ DataPrefix # KeepAlive /\ x.usage \in BOOLEAN /\ Done.usage = FALSE
    <2>1. x \in Tok /\ x # KeepAlive
      BY TokensTyped, TokensDiffer
    <2>2. x.usage \in BOOLEAN /\ Done.usage = FALSE
      BY <2>1 DEF Tok, Done, Token
    <2>. QED BY <2>1, <2>2, TokensDiffer
  <1>2. all[k] = x /\ (FirstOfData(all, k) <=> param = 0)
    BY <1>1, MeantGrows
  <1>. HIDE DEF all, k
  <1>3. OnLine(s, format, <<DataPrefix, x>>) = [s EXCEPT !.param = @ + 1, !.out = @ \o full]
    <2>1. <<DataPrefix, x>> # <<>> /\ <<DataPrefix, x>>[1] = DataPrefix /\ <<DataPrefix, x>>[2] = x /\ s.param = param
      OBVIOUS
    <2>. HIDE DEF s
    <2>. QED BY <1>1, <2>1 DEF OnLine
  <1>4. full = Meant(all, k, format)
    <2>0. <<DataPrefix, x>>[2] = x
      OBVIOUS
    <2>1. CASE format = "claude"
      <3>1. full = made
        BY <2>1 DEF injectStreamUsageMetadata
      <3>2. made = (IF param = 0 THEN <<Said("opening", Done, FALSE)>> ELSE <<>>) \o <<Said("chunk", x, x.usage)>>
        BY <2>1, <2>0 DEF TranslateStream
      <3>. DEFINE o == Said("opening", Done, FALSE)
                  c == Said("chunk", x, x.usage)
      <3>0. o \in Tok /\ c \in Tok
        BY <1>1, TokensTyped, SaidTyped
      <3>. HIDE DEF o, c
      <3>3. (<<o>> \o <<c>>) = <<o, c>> /\ (<<>> \o <<c>>) = <<c>>
        BY <3>0, PairOf
      <3>4. CASE param = 0
        <4>1. Meant(all, k, format) = <<o, c>>
          BY <1>1, <1>2, <2>1, <3>4 DEF Meant, o, c
        <4>. QED BY <3>1, <3>2, <3>3, <3>4, <4>1 DEF o, c
      <3>5. CASE param # 0
        <4>1. Meant(all, k, format) = <<c>>
          BY <1>1, <1>2, <2>1, <3>5 DEF Meant, c
        <4>. QED BY <3>1, <3>2, <3>3, <3>5, <4>1 DEF c
      <3>. QED BY <3>4, <3>5
    <2>2. CASE format = "gemini" /\ x = Done
      <3>1. made = <<>>
        BY <2>0, <2>2 DEF TranslateStream
      <3>2. full = <<>>
        BY <1>1, <2>2, <3>1 DEF injectStreamUsageMetadata
      <3>3. Meant(all, k, format) = <<>>
        BY <1>1, <1>2, <2>2 DEF Meant
      <3>. QED BY <3>2, <3>3
    <2>3. CASE format = "gemini" /\ x # Done
      <3>. DEFINE c == Said("chunk", x, x.usage)
                  d == Said("chunk", x, FALSE)
      <3>1. made = <<d>>
        BY <2>0, <2>3 DEF TranslateStream
      <3>2. [d EXCEPT !.usage = TRUE] = Said("chunk", x, TRUE)
        <4>1. d = [is |-> "chunk", kind |-> x.kind, usage |-> FALSE]
          BY DEF Said
        <4>2. d \in Tok
          BY <1>1, SaidTyped
        <4>. HIDE DEF d
        <4>3. [d EXCEPT !.usage = TRUE] = [is |-> d.is, kind |-> d.kind, usage |-> TRUE]
          BY <4>2, UsageOfToken
        <4>4. d.is = "chunk" /\ d.kind = x.kind
          BY <4>1
        <4>. QED BY <4>3, <4>4 DEF Said
      <3>3. Meant(all, k, format) = <<c>>
        BY <1>1, <1>2, <2>3 DEF Meant
      <3>4. CASE x.usage = TRUE
        <4>1. full = [i \in DOMAIN made |-> [made[i] EXCEPT !.usage = TRUE]]
          BY <2>3, <3>4 DEF injectStreamUsageMetadata
        <4>. HIDE DEF d, made
        <4>2. DOMAIN made = {1} /\ made[1] = d
          BY <3>1
        <4>3. full = [i \in {1} |-> c]
          BY <3>2, <3>4, <4>1, <4>2 DEF c
        <4>. HIDE DEF c, full
        <4>4. [i \in {1} |-> c] = <<c>>
          <5>1. {1} = 1..1
            OBVIOUS
          <5>. QED BY <5>1
        <4>. QED BY <3>3, <4>3, <4>4
      <3>5. CASE x.usage = FALSE
        <4>1. full = made
          BY <3>5 DEF injectStreamUsageMetadata
        <4>2. c = d
          BY <3>5
        <4>. QED BY <3>1, <3>3, <4>1, <4>2
      <3>. QED BY <1>1, <3>4, <3>5
    <2>4. x = Done \/ x # Done
      OBVIOUS
    <2>. QED BY <2>1, <2>2, <2>3, <2>4
  <1>5. Meant(all, k, format) \in Seq(Tok)
    <2>1. all \in Seq(Tok) /\ k \in 1..Len(all)
      <3>1. Len(all) = Len(said) + 1 /\ all \in Seq(Tok)
        BY <1>1, AppendProperties DEF all
      <3>2. Len(said) \in Nat
        BY LenProperties
      <3>. QED BY <3>1, <3>2 DEF k
    <2>. QED BY <2>1, MeantTyped
  <1>6. <<>> \o full = full
    BY <1>4, <1>5, ConcatEmptySeq
  <1>. HIDE DEF full
  <1>. QED BY <1>3, <1>4, <1>6 DEF all, k

\* So is a keep-alive.
LEMMA KeepAliveMeans ==
    ASSUME NEW said \in Seq(Tok), NEW format, NEW param
    PROVE  OnLine([param |-> param, out |-> <<>>], format, <<KeepAlive>>)
              = [param |-> param, out |-> Meant(Append(said, KeepAlive), Len(said) + 1, format)]
  <1>. DEFINE k == Len(said) + 1
              all == Append(said, KeepAlive)
              s == [param |-> param, out |-> <<>>]
  <1>1. all[k] = KeepAlive
    BY TokensTyped, MeantGrows
  <1>2. s.out = <<>> /\ [s EXCEPT !.out = <<KeepAlive>>] = [param |-> param, out |-> <<KeepAlive>>]
    OBVIOUS
  <1>3. <<>> \o <<KeepAlive>> = <<KeepAlive>>
    BY TokensTyped, PairOf
  <1>4. <<KeepAlive>> # <<>> /\ <<KeepAlive>>[1] = KeepAlive
    OBVIOUS
  <1>. HIDE DEF k, all, s
  <1>5. Meant(all, k, format) = <<KeepAlive>>
    BY <1>1, TokensDiffer DEF Meant
  <1>6. OnLine(s, format, <<KeepAlive>>) = [s EXCEPT !.out = s.out \o <<KeepAlive>>]
    BY <1>4, TokensDiffer DEF OnLine
  <1>. QED BY <1>2, <1>3, <1>5, <1>6 DEF k, all, s

\* What a write of a line's parts leaves, when nothing but them was announced.
LEMMA WriteLaw ==
    ASSUME TranslatedInv, backend.at # "over", NEW p, Write(p, 200)
    PROVE  /\ writer' = [statusCode |-> 200, headersSent |-> TRUE, lineBuf |-> RestOf(writer.lineBuf \o p),
                         param |-> Reads(writer.lineBuf \o p, inquiry.format).param]
           /\ received' = [status |-> 200,
                           body |-> received.body \o Reads(writer.lineBuf \o p, inquiry.format).out]
  <1>1. writer.statusCode = 200
    BY DEF TranslatedInv, Underway
  <1>2. WriteHeader(200) = 200
    BY <1>1 DEF WriteHeader
  <1>. QED BY <1>2 DEF Write, Translated

\* A part that does not end the line.
LEMMA PartWritten ==
    ASSUME TranslatedInv, backend.at # "over", NEW p, Write(p, 200),
           NEW b \in Seq(Tok), writer.lineBuf \o p = b, LineEnds(b) = {}
    PROVE  /\ writer' = [statusCode |-> 200, headersSent |-> TRUE, lineBuf |-> b, param |-> writer.param]
           /\ received' = [status |-> 200, body |-> received.body]
  <1>1. received.body \in Seq(Tok)
    BY DEF TranslatedInv, TranslatedTyped
  <1>2. received.body \o <<>> = received.body
    BY <1>1, ConcatEmptySeq
  <1>3. Reads(b, inquiry.format).param = writer.param /\ Reads(b, inquiry.format).out = <<>> /\ RestOf(b) = b
    <2>1. Reads(b, inquiry.format) = [param |-> writer.param, out |-> <<>>] /\ RestOf(b) = b
      BY ReadsNothing
    <2>. QED BY <2>1
  <1>4. /\ writer' = [statusCode |-> 200, headersSent |-> TRUE, lineBuf |-> RestOf(writer.lineBuf \o p),
                      param |-> Reads(writer.lineBuf \o p, inquiry.format).param]
        /\ received' = [status |-> 200, body |-> received.body \o Reads(writer.lineBuf \o p, inquiry.format).out]
    BY WriteLaw
  <1>. QED BY <1>2, <1>3, <1>4

\* What ends a line gives the client what the line means.
LEMMA LineWritten ==
    ASSUME TranslatedInv, backend.at # "over", NEW p, Write(p, 200),
           NEW line \in Seq(Tok), writer.lineBuf \o p = line \o <<NewLine, NewLine>>, LineEnds(line) = {},
           NEW x \in LinePayloads \union {Done, KeepAlive},
           line = IF x = KeepAlive THEN <<KeepAlive>> ELSE <<DataPrefix, x>>,
           uttered' = Append(uttered, x)
    PROVE  /\ uttered' \in Seq(Tok) /\ Len(uttered') = Len(uttered) + 1 /\ x \in Tok
           /\ writer' = [statusCode |-> 200, headersSent |-> TRUE, lineBuf |-> <<>>,
                         param |-> IF x = KeepAlive THEN writer.param ELSE writer.param + 1]
           /\ received' = [status |-> 200, body |-> AllMeant(uttered', inquiry.format)]
           /\ AllMeant(uttered', inquiry.format) \in Seq(Tok)
           /\ (\A i \in 1..Len(uttered') : uttered'[i] = KeepAlive)
                 <=> x = KeepAlive /\ \A i \in 1..Len(uttered) : uttered[i] = KeepAlive
           /\ x.kind # "thinking" /\ NoThinking(received.body) => NoThinking(received'.body)
  <1>. DEFINE k == Len(uttered) + 1
              more == Append(uttered, x)
              new == Meant(more, k, inquiry.format)
              s == [param |-> writer.param, out |-> <<>>]
              f == inquiry.format
  <1>1. /\ uttered \in Seq(Tok) /\ received.body \in Seq(Tok) /\ writer.param \in Nat /\ inquiry.format \in {"claude", "gemini"}
        /\ (writer.param = 0 <=> \A i \in 1..Len(uttered) : uttered[i] = KeepAlive)
        /\ received.body = AllMeant(uttered, f)
    BY TranslatedAssumption DEF TranslatedInv, TranslatedTyped, Underway, Inquiry
  <1>2. x \in Tok /\ Len(uttered) \in Nat
    BY <1>1, TokensTyped, LenProperties
  <1>3. /\ more \in Seq(Tok) /\ Len(more) = k /\ more[k] = x /\ \A i \in 1..Len(uttered) : more[i] = uttered[i]
        /\ AllMeant(more, f) = AllMeant(uttered, f) \o new
        /\ AllMeant(more, f) \in Seq(Tok) /\ new \in Seq(Tok)
    <2>1. more \in Seq(Tok) /\ Len(more) = k /\ more[k] = x /\ \A i \in 1..Len(uttered) : more[i] = uttered[i]
      BY <1>1, <1>2, AppendProperties
    <2>2. k \in 1..Len(more)
      BY <1>2, <2>1
    <2>3. AllMeant(more, f) = AllMeant(uttered, f) \o new
      <3>1. uttered \in Seq(Tok) /\ x \in Tok
        BY <1>1, <1>2
      <3>2. \A format : AllMeant(Append(uttered, x), format)
                           = AllMeant(uttered, format) \o Meant(Append(uttered, x), Len(uttered) + 1, format)
        BY <3>1, MeantGrows
      <3>. QED BY <3>2
    <2>4. AllMeant(more, f) \in Seq(Tok)
      BY <2>1, AllMeantLaws
    <2>5. new \in Seq(Tok)
      BY <2>1, <2>2, MeantTyped
    <2>. QED BY <2>1, <2>3, <2>4, <2>5
  <1>4. OnLine(s, f, line) = [param |-> IF x = KeepAlive THEN writer.param ELSE writer.param + 1, out |-> new]
    <2>1. CASE x = KeepAlive
      BY <1>1, <2>1, KeepAliveMeans
    <2>2. CASE x # KeepAlive
      BY <1>1, <2>2, LineMeans
    <2>. QED BY <2>1, <2>2
  <1>. DEFINE r == [param |-> IF x = KeepAlive THEN writer.param ELSE writer.param + 1, out |-> new]
  <1>5. Reads(line \o <<NewLine, NewLine>>, f) = r /\ RestOf(line \o <<NewLine, NewLine>>) = <<>>
    <2>1. line # <<>>
      OBVIOUS
    <2>. QED BY <1>4, <2>1, ReadsOneLine
  <1>6. /\ writer' = [statusCode |-> 200, headersSent |-> TRUE, lineBuf |-> <<>>, param |-> r.param]
        /\ received' = [status |-> 200, body |-> received.body \o r.out]
    <2>1. /\ writer' = [statusCode |-> 200, headersSent |-> TRUE, lineBuf |-> RestOf(writer.lineBuf \o p),
                        param |-> Reads(writer.lineBuf \o p, inquiry.format).param]
          /\ received' = [status |-> 200, body |-> received.body \o Reads(writer.lineBuf \o p, inquiry.format).out]
      BY WriteLaw
    <2>. HIDE DEF r
    <2>. QED BY <1>5, <2>1
  <1>7. received' = [status |-> 200, body |-> AllMeant(more, f)]
    BY <1>1, <1>3, <1>6
  <1>8. (\A i \in 1..k : more[i] = KeepAlive) <=> x = KeepAlive /\ \A i \in 1..Len(uttered) : uttered[i] = KeepAlive
    <2>1. \A i \in 1..k : i = k \/ i \in 1..Len(uttered)
      BY <1>2
    <2>2. k \in 1..k /\ \A i \in 1..Len(uttered) : i \in 1..k
      BY <1>2
    <2>. HIDE DEF more, k
    <2>. QED BY <1>3, <2>1, <2>2
  <1>9. ASSUME x.kind # "thinking", NoThinking(received.body) PROVE NoThinking(received.body \o new)
    <2>1. k \in 1..Len(more)
      BY <1>2, <1>3
    <2>2. NoThinking(new)
      BY <1>3, <1>9, <2>1, MeantQuiet
    <2>. HIDE DEF new
    <2>. QED BY <1>1, <1>3, <1>9, <2>2, QuietConcat
  <1>10. received'.body = received.body \o new
    BY <1>1, <1>3, <1>7
  <1>. HIDE DEF new
  <1>. QED BY <1>2, <1>3, <1>6, <1>7, <1>8, <1>9, <1>10

LEMMA BackendMoves ==
    ASSUME NEW A, NEW B, NEW L, NEW r \in [at : A, thinking : B, line : L], NEW a \in A, NEW l \in L
    PROVE  /\ [r EXCEPT !.at = a] \in [at : A, thinking : B, line : L]
           /\ [r EXCEPT !.at = a].at = a /\ [r EXCEPT !.at = a].thinking = r.thinking /\ [r EXCEPT !.at = a].line = r.line
           /\ [r EXCEPT !.at = a, !.line = l] \in [at : A, thinking : B, line : L]
           /\ [r EXCEPT !.at = a, !.line = l].at = a /\ [r EXCEPT !.at = a, !.line = l].thinking = r.thinking
           /\ [r EXCEPT !.at = a, !.line = l].line = l
  OBVIOUS

LEMMA BackendGoes ==
    ASSUME TranslatedTyped, NEW a \in {"asked", "between", "prefix", "payload", "over"}, backend' = [backend EXCEPT !.at = a]
    PROVE  /\ backend' \in [at : {"asked", "between", "prefix", "payload", "over"}, thinking : BOOLEAN, line : Tok]
           /\ backend'.at = a /\ backend'.thinking = backend.thinking /\ backend'.line = backend.line
  <1>. DEFINE A == {"asked", "between", "prefix", "payload", "over"}
              B == BOOLEAN
  <1>1. a \in A /\ backend \in [at : A, thinking : B, line : Tok]
    BY DEF TranslatedTyped
  <1>2. DataPrefix \in Tok
    BY TokensTyped
  <1>. HIDE DEF A, B, Tok
  <1>. QED BY <1>1, <1>2, BackendMoves DEF A, B

LEMMA BackendHasLine ==
    ASSUME TranslatedTyped, NEW a \in {"asked", "between", "prefix", "payload", "over"}, NEW l \in Tok,
           backend' = [backend EXCEPT !.at = a, !.line = l]
    PROVE  /\ backend' \in [at : {"asked", "between", "prefix", "payload", "over"}, thinking : BOOLEAN, line : Tok]
           /\ backend'.at = a /\ backend'.thinking = backend.thinking /\ backend'.line = l
  <1>. DEFINE A == {"asked", "between", "prefix", "payload", "over"}
              B == BOOLEAN
  <1>1. a \in A /\ backend \in [at : A, thinking : B, line : Tok]
    BY DEF TranslatedTyped
  <1>. HIDE DEF A, B, Tok
  <1>. QED BY <1>1, BackendMoves DEF A, B

LEMMA WriterMoves ==
    ASSUME NEW A, NEW B, NEW r \in [statusCode : A, headersSent : BOOLEAN, lineBuf : B, param : Nat], NEW a \in A
    PROVE  /\ [r EXCEPT !.headersSent = TRUE, !.statusCode = a]
                 \in [statusCode : A, headersSent : BOOLEAN, lineBuf : B, param : Nat]
           /\ [r EXCEPT !.headersSent = TRUE, !.statusCode = a].lineBuf = r.lineBuf
  OBVIOUS

\* Underway, the client was told what the whole lines mean.
LEMMA UnderwayTold ==
    ASSUME TranslatedInv, backend.at # "over"
    PROVE  ToldInTheirWords /\ Len(uttered) <= MaxUttered + 2
  <1>1. Underway /\ Thoughts /\ uttered \in Seq(Tok)
    BY DEF TranslatedInv, TranslatedTyped
  <1>2. ~ThroughWriter(inquiry) => received.status = 0
    <2>1. ~ThroughWriter(inquiry) => uttered = <<>> /\ backend.at \in {"asked", "between"}
      BY <1>1 DEF TranslatedInv, TranslatedTyped, Underway, Thoughts
    <2>. QED BY <1>1, <2>1 DEF Underway
  <1>3. Len(uttered) <= MaxUttered + 2
    BY <1>1, TranslatedAssumption, LenProperties DEF Underway
  <1>. QED BY <1>1, <1>2, <1>3 DEF ToldInTheirWords, Underway, NotShown, NoThinking

LEMMA TranslatedInitInv == TranslatedInit => TranslatedInv
  <1>. SUFFICES ASSUME TranslatedInit PROVE TranslatedInv
    OBVIOUS
  <1>1. NewLine \in Tok /\ <<>> \in Seq(Tok) /\ Len(<<>>) = 0
    BY TokensTyped, EmptySeq
  <1>2. TranslatedTyped
    <2>1. writer \in [statusCode : {200, 401, 429, 500}, headersSent : BOOLEAN, lineBuf : Seq(Tok), param : Nat]
      BY <1>1 DEF TranslatedInit
    <2>2. received \in [status : {0, 200, 400, 401, 429, 500}, body : Seq(Tok)]
      BY <1>1 DEF TranslatedInit
    <2>3. backend \in [at : {"asked", "between", "prefix", "payload", "over"}, thinking : BOOLEAN, line : Tok]
      <3>. HIDE DEF Tok
      <3>. QED BY <1>1 DEF TranslatedInit
    <2>. QED BY <1>1, <2>1, <2>2, <2>3 DEF TranslatedInit, TranslatedTyped
  <1>3. AllMeant(<<>>, inquiry.format) = <<>> /\ NoThinking(<<>>)
    BY NothingMeant DEF NoThinking
  <1>4. Buffered /\ Thoughts
    BY DEF TranslatedInit, Buffered, Thoughts
  <1>5. Underway
    BY <1>1, <1>3, TranslatedAssumption DEF TranslatedInit, Underway
  <1>. QED BY <1>2, <1>4, <1>5 DEF TranslatedInit, TranslatedInv

LEMMA RejectsBodyStep ==
    ASSUME TranslatedInv, RejectsBody
    PROVE  TranslatedInv'
  <1>1. /\ TranslatedTyped /\ Buffered /\ Thoughts /\ Underway /\ backend.at = "asked" /\ uttered = <<>> /\ Len(<<>>) = 0
        /\ backend' = [backend EXCEPT !.at = "over"] /\ received' = [status |-> 400, body |-> <<ErrorBody>>]
        /\ inquiry' = inquiry /\ uttered' = uttered /\ writer' = writer
    BY DEF TranslatedInv, RejectsBody, Goes, Underway
  <1>2. /\ backend'.at = "over" /\ backend'.thinking = backend.thinking /\ received'.status = 400
        /\ received'.body = <<ErrorBody>>
    BY <1>1 DEF TranslatedTyped
  <1>3. TranslatedTyped'
    <2>1. <<ErrorBody>> \in Seq(Tok)
      BY TokensTyped
    <2>2. received' \in [status : {0, 200, 400, 401, 429, 500}, body : Seq(Tok)]
      <3>. HIDE DEF Tok
      <3>. QED BY <1>1, <2>1
    <2>3. backend' \in [at : {"asked", "between", "prefix", "payload", "over"}, thinking : BOOLEAN, line : Tok]
      <3>1. backend \in [at : {"asked", "between", "prefix", "payload", "over"}, thinking : BOOLEAN, line : Tok]
        BY <1>1 DEF TranslatedTyped
      <3>. HIDE DEF Tok
      <3>. QED BY <1>1, <3>1
    <2>4. /\ inquiry' \in Inquiries /\ uttered' \in Seq(Tok)
          /\ writer' \in [statusCode : {200, 401, 429, 500}, headersSent : BOOLEAN, lineBuf : Seq(Tok), param : Nat]
      BY <1>1 DEF TranslatedTyped
    <2>. QED BY <2>2, <2>3, <2>4 DEF TranslatedTyped
  <1>4. Buffered' /\ Thoughts'
    BY <1>1, <1>2 DEF Buffered, Thoughts
  <1>5. \A i \in DOMAIN <<ErrorBody>> : <<ErrorBody>>[i].kind # "thinking"
    BY DEF ErrorBody, Token
  <1>6. uttered' # <<ErrorBody>>
    BY <1>1
  <1>7. ToldInTheirWords' /\ Len(uttered') <= MaxUttered + 2
    BY <1>1, <1>2, <1>5, <1>6, TranslatedAssumption DEF ToldInTheirWords
  <1>. QED BY <1>2, <1>3, <1>4, <1>7 DEF TranslatedInv

LEMMA HandsOverStep ==
    ASSUME TranslatedInv, HandsOver
    PROVE  TranslatedInv'
  <1>1. PICK thinking \in Enabled(inquiry) :
            backend' = [backend EXCEPT !.at = "between", !.thinking = Translates(inquiry) /\ thinking]
    BY DEF HandsOver
  <1>2. /\ TranslatedTyped /\ Buffered /\ Thoughts /\ Underway /\ backend.at = "asked"
        /\ inquiry' = inquiry /\ uttered' = uttered /\ writer' = writer /\ received' = received
    BY DEF TranslatedInv, HandsOver
  <1>3. inquiry \in Inquiry
    BY <1>2, TranslatedAssumption DEF TranslatedTyped
  <1>4. thinking \in BOOLEAN
    BY DEF Enabled, applyClaudeThinkingPolicyToOpenAIRequest, applyGeminiThinkingPolicyToOpenAIRequest
  <1>5. backend'.at = "between" /\ (backend'.thinking <=> Translates(inquiry) /\ thinking) /\ backend'.line = backend.line
        /\ backend' \in [at : {"asked", "between", "prefix", "payload", "over"}, thinking : BOOLEAN, line : Tok]
    <2>1. PICK b \in BOOLEAN : b <=> Translates(inquiry) /\ thinking
      BY <1>4 DEF Translates
    <2>2. backend' = [backend EXCEPT !.at = "between", !.thinking = b]
      <3>1. b = (Translates(inquiry) /\ thinking)
        BY <1>4, <2>1 DEF Translates
      <3>. QED BY <1>1, <3>1
    <2>3. backend \in [at : {"asked", "between", "prefix", "payload", "over"}, thinking : BOOLEAN, line : Tok]
      BY <1>2 DEF TranslatedTyped
    <2>. QED BY <2>1, <2>2, <2>3
  <1>6. ThroughWriter(inquiry) /\ NotShown(inquiry) => thinking = FALSE
    BY <1>3 DEF Enabled, applyClaudeThinkingPolicyToOpenAIRequest, ThroughWriter, NotShown
  <1>7. TranslatedTyped'
    BY <1>2, <1>5 DEF TranslatedTyped
  <1>8. Buffered' /\ Thoughts'
    BY <1>2, <1>5, <1>6 DEF Buffered, Thoughts
  <1>9. Underway'
    BY <1>2, <1>5 DEF Underway
  <1>. QED BY <1>5, <1>7, <1>8, <1>9 DEF TranslatedInv

LEMMA RefusesStep ==
    ASSUME TranslatedInv, Refuses
    PROVE  TranslatedInv'
  <1>1. PICK code \in {401, 429, 500} :
            IF ThroughWriter(inquiry) THEN Write(<<ErrorBody>>, code)
            ELSE received' = [status |-> code, body |-> <<ErrorBody>>] /\ UNCHANGED writer
    BY DEF Refuses
  <1>2. /\ TranslatedTyped /\ Buffered /\ Thoughts /\ Underway /\ backend.at = "between" /\ uttered = <<>>
        /\ backend' = [backend EXCEPT !.at = "over"] /\ uttered' = <<ErrorBody>> /\ inquiry' = inquiry
    BY DEF TranslatedInv, Refuses, Goes
  <1>3. /\ backend'.at = "over" /\ backend'.thinking = backend.thinking /\ backend'.line = backend.line
        /\ ~writer.headersSent /\ received.body = <<>> /\ <<ErrorBody>> \in Seq(Tok) /\ Len(<<ErrorBody>>) = 1
        /\ <<>> \o <<ErrorBody>> = <<ErrorBody>>
    <2>1. /\ backend'.at = "over" /\ backend'.thinking = backend.thinking /\ backend'.line = backend.line
          /\ ~writer.headersSent
      BY <1>2 DEF TranslatedTyped, Underway
    <2>2. received.body = <<>>
      BY <1>2, NothingMeant DEF Underway
    <2>3. ErrorBody \in Tok
      BY TokensTyped
    <2>4. <<>> \o <<ErrorBody>> = <<ErrorBody>>
      BY <2>3, PairOf
    <2>. HIDE DEF Tok
    <2>. QED BY <2>1, <2>2, <2>3, <2>4
  <1>4. received' = [status |-> code, body |-> <<ErrorBody>>]
        /\ (writer' = writer \/ writer' = [writer EXCEPT !.headersSent = TRUE, !.statusCode = code])
    <2>1. CASE ThroughWriter(inquiry)
      <3>1. WriteHeader(code) = code
        BY <1>3 DEF WriteHeader
      <3>2. Forward(code, <<ErrorBody>>)
        BY <1>1, <2>1, <3>1 DEF Write
      <3>. QED BY <1>3, <3>2 DEF Forward
    <2>2. CASE ~ThroughWriter(inquiry)
      BY <1>1, <2>2
    <2>. QED BY <2>1, <2>2
  <1>5. TranslatedTyped' /\ writer'.lineBuf = writer.lineBuf
    <2>1. writer' \in [statusCode : {200, 401, 429, 500}, headersSent : BOOLEAN, lineBuf : Seq(Tok), param : Nat]
          /\ writer'.lineBuf = writer.lineBuf
      <3>1. writer \in [statusCode : {200, 401, 429, 500}, headersSent : BOOLEAN, lineBuf : Seq(Tok), param : Nat]
        BY <1>2 DEF TranslatedTyped
      <3>. HIDE DEF Tok
      <3>2. CASE writer' = writer
        BY <3>1, <3>2
      <3>3. CASE writer' = [writer EXCEPT !.headersSent = TRUE, !.statusCode = code]
        <4>. DEFINE A == {200, 401, 429, 500}
                    B == Seq(Tok)
        <4>1. code \in A /\ writer \in [statusCode : A, headersSent : BOOLEAN, lineBuf : B, param : Nat]
          BY <3>1
        <4>. HIDE DEF A, B
        <4>2. writer' \in [statusCode : A, headersSent : BOOLEAN, lineBuf : B, param : Nat] /\ writer'.lineBuf = writer.lineBuf
          BY <3>3, <4>1, WriterMoves
        <4>. QED BY <4>2 DEF A, B
      <3>. QED BY <1>4, <3>2, <3>3
    <2>2. backend' \in [at : {"asked", "between", "prefix", "payload", "over"}, thinking : BOOLEAN, line : Tok]
      BY <1>2 DEF TranslatedTyped
    <2>3. received' \in [status : {0, 200, 400, 401, 429, 500}, body : Seq(Tok)]
      BY <1>3, <1>4
    <2>. QED BY <1>2, <1>3, <2>1, <2>2, <2>3 DEF TranslatedTyped
  <1>6. Buffered' /\ Thoughts'
    BY <1>2, <1>3, <1>5 DEF Buffered, Thoughts
  <1>7. \A i \in DOMAIN <<ErrorBody>> : <<ErrorBody>>[i].kind # "thinking"
    BY DEF ErrorBody, Token
  <1>8. received'.status = code /\ received'.body = <<ErrorBody>> /\ code # 200
    BY <1>4
  <1>9. ToldInTheirWords' /\ Len(uttered') <= MaxUttered + 2
    BY <1>2, <1>3, <1>7, <1>8, TranslatedAssumption DEF ToldInTheirWords
  <1>. QED BY <1>3, <1>5, <1>6, <1>9 DEF TranslatedInv

LEMMA WritesPrefixStep ==
    ASSUME TranslatedInv, WritesPrefix
    PROVE  TranslatedInv'
  <1>1. /\ TranslatedTyped /\ Buffered /\ Thoughts /\ Underway /\ backend.at = "between" /\ ThroughWriter(inquiry)
        /\ backend' = [backend EXCEPT !.at = "prefix"] /\ uttered' = uttered /\ inquiry' = inquiry
        /\ Len(uttered) < MaxUttered /\ Write(<<DataPrefix>>, 200)
    BY DEF TranslatedInv, WritesPrefix, Goes
  <1>2. backend'.at = "prefix" /\ backend'.thinking = backend.thinking
        /\ backend' \in [at : {"asked", "between", "prefix", "payload", "over"}, thinking : BOOLEAN, line : Tok]
    BY <1>1, BackendGoes
  <1>3. writer.lineBuf = <<>> /\ <<DataPrefix>> \in Seq(Tok) /\ <<>> \o <<DataPrefix>> = <<DataPrefix>>
    <2>1. DataPrefix \in Tok
      BY TokensTyped
    <2>2. <<>> \o <<DataPrefix>> = <<DataPrefix>>
      BY <2>1, PairOf
    <2>3. writer.lineBuf = <<>>
      BY <1>1 DEF Buffered
    <2>. QED BY <2>1, <2>2, <2>3
  <1>4. LineEnds(<<DataPrefix>>) = {}
    BY TokensDiffer DEF LineEnds
  <1>5. /\ writer' = [statusCode |-> 200, headersSent |-> TRUE, lineBuf |-> <<DataPrefix>>, param |-> writer.param]
        /\ received' = [status |-> 200, body |-> received.body]
    BY <1>1, <1>3, <1>4, PartWritten
  <1>6. /\ writer'.statusCode = 200 /\ writer'.lineBuf = <<DataPrefix>> /\ writer'.param = writer.param
        /\ received'.status = 200 /\ received'.body = received.body
    BY <1>5
  <1>7. TranslatedTyped'
    BY <1>1, <1>2, <1>3, <1>5 DEF TranslatedTyped
  <1>8. Buffered' /\ Thoughts'
    BY <1>1, <1>2, <1>6 DEF Buffered, Thoughts
  <1>9. Underway'
    BY <1>1, <1>2, <1>6 DEF Underway
  <1>. QED BY <1>2, <1>7, <1>8, <1>9 DEF TranslatedInv

LEMMA WritesPayloadStep ==
    ASSUME TranslatedInv, WritesPayload
    PROVE  TranslatedInv'
  <1>1. PICK p \in LinePayloads :
          /\ p.kind = "thinking" => backend.thinking
          /\ Write(<<p>>, 200)
          /\ backend' = [backend EXCEPT !.at = "payload", !.line = p]
    BY DEF WritesPayload
  <1>2. /\ TranslatedTyped /\ Buffered /\ Thoughts /\ Underway /\ backend.at = "prefix" /\ ThroughWriter(inquiry)
        /\ uttered' = uttered /\ inquiry' = inquiry /\ Len(uttered) < MaxUttered
    BY DEF TranslatedInv, WritesPayload, Thoughts, Underway
  <1>3. p \in Tok /\ DataPrefix \in Tok
    BY TokensTyped
  <1>4. backend'.at = "payload" /\ backend'.thinking = backend.thinking /\ backend'.line = p
        /\ backend' \in [at : {"asked", "between", "prefix", "payload", "over"}, thinking : BOOLEAN, line : Tok]
    BY <1>1, <1>2, <1>3, BackendHasLine
  <1>5. writer.lineBuf \o <<p>> = <<DataPrefix, p>> /\ <<DataPrefix, p>> \in Seq(Tok)
    <2>1. writer.lineBuf = <<DataPrefix>>
      BY <1>2 DEF Buffered
    <2>2. <<DataPrefix>> \o <<p>> = <<DataPrefix, p>> /\ <<DataPrefix, p>> \in Seq(Tok)
      BY <1>3, PairOf
    <2>. QED BY <2>1, <2>2
  <1>6. LineEnds(<<DataPrefix, p>>) = {}
    BY TokensDiffer, UnbrokenPair
  <1>7. /\ writer' = [statusCode |-> 200, headersSent |-> TRUE, lineBuf |-> <<DataPrefix, p>>, param |-> writer.param]
        /\ received' = [status |-> 200, body |-> received.body]
    BY <1>1, <1>2, <1>5, <1>6, PartWritten
  <1>8. /\ writer'.statusCode = 200 /\ writer'.lineBuf = <<DataPrefix, p>> /\ writer'.param = writer.param
        /\ received'.status = 200 /\ received'.body = received.body
    BY <1>7
  <1>9. TranslatedTyped'
    BY <1>2, <1>4, <1>5, <1>7 DEF TranslatedTyped
  <1>10. Buffered' /\ Thoughts'
    BY <1>1, <1>2, <1>4, <1>8 DEF Buffered, Thoughts
  <1>11. Underway'
    BY <1>2, <1>4, <1>8 DEF Underway
  <1>. QED BY <1>4, <1>9, <1>10, <1>11 DEF TranslatedInv

\* Whatever is said as a whole line, the client is told what it means.
LEMMA LineStep ==
    ASSUME TranslatedInv, backend.at # "over", ThroughWriter(inquiry), NEW p, Write(p, 200),
           NEW line \in Seq(Tok), writer.lineBuf \o p = line \o <<NewLine, NewLine>>, LineEnds(line) = {},
           NEW x \in LinePayloads \union {Done, KeepAlive}, x.kind = "thinking" => backend.thinking,
           line = IF x = KeepAlive THEN <<KeepAlive>> ELSE <<DataPrefix, x>>,
           uttered' = Append(uttered, x), inquiry' = inquiry,
           NEW to \in {"between", "over"}, backend' = [backend EXCEPT !.at = to],
           to = "between" => x # Done /\ Len(uttered) < MaxUttered,
           to = "over" => x = Done
    PROVE  TranslatedInv'
  <1>1. /\ TranslatedTyped /\ Buffered /\ Thoughts /\ Underway
    BY DEF TranslatedInv
  <1>2. /\ uttered' \in Seq(Tok) /\ Len(uttered') = Len(uttered) + 1 /\ x \in Tok
        /\ writer' = [statusCode |-> 200, headersSent |-> TRUE, lineBuf |-> <<>>,
                      param |-> IF x = KeepAlive THEN writer.param ELSE writer.param + 1]
        /\ received' = [status |-> 200, body |-> AllMeant(uttered', inquiry.format)]
        /\ AllMeant(uttered', inquiry.format) \in Seq(Tok)
        /\ (\A i \in 1..Len(uttered') : uttered'[i] = KeepAlive)
              <=> x = KeepAlive /\ \A i \in 1..Len(uttered) : uttered[i] = KeepAlive
        /\ x.kind # "thinking" /\ NoThinking(received.body) => NoThinking(received'.body)
    BY LineWritten
  <1>3. backend'.at = to /\ backend'.thinking = backend.thinking
        /\ backend' \in [at : {"asked", "between", "prefix", "payload", "over"}, thinking : BOOLEAN, line : Tok]
    BY <1>1, BackendGoes
  <1>4. Len(uttered) \in Nat /\ uttered' # <<>> /\ MaxUttered \in Nat /\ writer.param \in Nat
    <2>1. Len(uttered) \in Nat
      BY <1>1, LenProperties DEF TranslatedTyped
    <2>2. uttered' # <<>>
      BY <1>2, <2>1, EmptySeq
    <2>. QED BY <1>1, <2>1, <2>2, TranslatedAssumption DEF TranslatedTyped
  <1>5. /\ writer'.statusCode = 200 /\ writer'.lineBuf = <<>>
        /\ writer'.param = (IF x = KeepAlive THEN writer.param ELSE writer.param + 1)
        /\ received'.status = 200 /\ received'.body = AllMeant(uttered', inquiry.format)
    BY <1>2
  <1>6. TranslatedTyped'
    <2>1. writer' \in [statusCode : {200, 401, 429, 500}, headersSent : BOOLEAN, lineBuf : Seq(Tok), param : Nat]
      BY <1>2, <1>4
    <2>2. received' \in [status : {0, 200, 400, 401, 429, 500}, body : Seq(Tok)]
      BY <1>2
    <2>. QED BY <1>1, <1>2, <1>3, <2>1, <2>2 DEF TranslatedTyped
  <1>7. Buffered' /\ Thoughts'
    BY <1>1, <1>3, <1>5 DEF Buffered, Thoughts
  <1>8. NotShown(inquiry) => NoThinking(received'.body)
    <2>1. NotShown(inquiry) => x.kind # "thinking" /\ NoThinking(received.body)
      BY <1>1 DEF Thoughts, Underway
    <2>. QED BY <1>2, <2>1
  <1>9. writer'.param = 0 <=> \A i \in 1..Len(uttered') : uttered'[i] = KeepAlive
    <2>1. writer.param = 0 <=> \A i \in 1..Len(uttered) : uttered[i] = KeepAlive
      BY <1>1 DEF Underway
    <2>2. CASE x = KeepAlive
      BY <1>2, <1>5, <2>1, <2>2
    <2>3. CASE x # KeepAlive
      <3>1. writer'.param # 0
        BY <1>4, <1>5, <2>3
      <3>. QED BY <1>2, <2>3, <3>1
    <2>. QED BY <2>2, <2>3
  <1>10. CASE to = "between"
    <2>1. Len(uttered') <= MaxUttered
      BY <1>2, <1>4, <1>10
    <2>2. Underway'
      BY <1>3, <1>4, <1>5, <1>8, <1>9, <1>10, <2>1 DEF Underway
    <2>. QED BY <1>3, <1>6, <1>7, <1>10, <2>2 DEF TranslatedInv
  <1>11. CASE to = "over"
    <2>1. Len(uttered') <= MaxUttered + 2
      BY <1>1, <1>2, <1>4 DEF Underway
    <2>2. uttered' # <<ErrorBody>>
      <3>1. uttered'[Len(uttered) + 1] = Done
        BY <1>1, <1>2, <1>11, AppendProperties DEF TranslatedTyped
      <3>2. ASSUME uttered' = <<ErrorBody>> PROVE FALSE
        <4>1. Len(uttered) + 1 = 1
          BY <1>2, <3>2
        <4>2. uttered'[1] = ErrorBody
          BY <3>2
        <4>. QED BY <3>1, <4>1, <4>2, TokensDiffer
      <3>. QED BY <3>2
    <2>3. ToldInTheirWords'
      BY <1>3, <1>5, <1>8, <2>2 DEF ToldInTheirWords, NotShown, NoThinking
    <2>. QED BY <1>3, <1>6, <1>7, <1>11, <2>1, <2>3 DEF TranslatedInv
  <1>. QED BY <1>10, <1>11

LEMMA EndsLineStep ==
    ASSUME TranslatedInv, EndsLine
    PROVE  TranslatedInv'
  <1>. DEFINE x == backend.line
  <1>1. /\ TranslatedTyped /\ Buffered /\ Thoughts /\ Underway /\ backend.at = "payload" /\ ThroughWriter(inquiry)
        /\ backend' = [backend EXCEPT !.at = "between"] /\ inquiry' = inquiry /\ uttered' = Append(uttered, x)
        /\ Len(uttered) < MaxUttered /\ Write(<<NewLine, NewLine>>, 200)
        /\ x \in LinePayloads /\ (x.kind = "thinking" => backend.thinking)
        /\ writer.lineBuf = <<DataPrefix, x>>
    BY DEF TranslatedInv, EndsLine, Goes, Thoughts, Underway, Buffered
  <1>2. x \in Tok /\ DataPrefix \in Tok /\ x # NewLine /\ x # KeepAlive /\ x # Done /\ DataPrefix # NewLine
    BY <1>1, TokensTyped, TokensDiffer
  <1>. HIDE DEF x
  <1>3. LineEnds(<<DataPrefix, x>>) = {} /\ <<DataPrefix, x>> \in Seq(Tok)
    BY <1>2, UnbrokenPair, PairOf
  <1>. DEFINE line == <<DataPrefix, x>>
              to == "between"
  <1>4. /\ line \in Seq(Tok) /\ LineEnds(line) = {} /\ line = (IF x = KeepAlive THEN <<KeepAlive>> ELSE <<DataPrefix, x>>)
        /\ x \in LinePayloads \union {Done, KeepAlive} /\ backend.at # "over"
        /\ writer.lineBuf \o <<NewLine, NewLine>> = line \o <<NewLine, NewLine>>
        /\ to \in {"between", "over"} /\ to # "over" /\ backend' = [backend EXCEPT !.at = to]
    BY <1>1, <1>2, <1>3
  <1>. HIDE DEF line, to
  <1>. QED BY <1>1, <1>2, <1>4, LineStep

LEMMA sendKeepAliveStep ==
    ASSUME TranslatedInv, sendKeepAlive
    PROVE  TranslatedInv'
  <1>1. /\ TranslatedTyped /\ Buffered /\ Thoughts /\ Underway /\ backend.at = "between" /\ ThroughWriter(inquiry)
        /\ backend' = backend /\ inquiry' = inquiry /\ uttered' = Append(uttered, KeepAlive)
        /\ Len(uttered) < MaxUttered /\ Write(<<KeepAlive, NewLine, NewLine>>, 200)
        /\ writer.lineBuf = <<>>
    BY DEF TranslatedInv, sendKeepAlive, Buffered
  <1>2. backend' = [backend EXCEPT !.at = "between"]
    BY <1>1 DEF TranslatedTyped
  <1>3. KeepAlive \in Tok /\ NewLine \in Tok /\ KeepAlive # NewLine /\ KeepAlive # Done /\ KeepAlive.kind # "thinking"
    BY TokensTyped, TokensDiffer DEF KeepAlive, Token
  <1>4. LineEnds(<<KeepAlive>>) = {} /\ <<KeepAlive>> \in Seq(Tok)
    BY <1>3 DEF LineEnds
  <1>5. writer.lineBuf \o <<KeepAlive, NewLine, NewLine>> = <<KeepAlive>> \o <<NewLine, NewLine>>
    <2>1. <<KeepAlive>> \o <<NewLine, NewLine>> = <<KeepAlive, NewLine, NewLine>>
          /\ <<KeepAlive, NewLine, NewLine>> \in Seq(Tok)
      BY <1>3, TripleOf
    <2>2. <<>> \o <<KeepAlive, NewLine, NewLine>> = <<KeepAlive, NewLine, NewLine>>
      BY <2>1, ConcatEmptySeq
    <2>. QED BY <1>1, <2>1, <2>2
  <1>6. /\ <<KeepAlive>> = IF KeepAlive = KeepAlive THEN <<KeepAlive>> ELSE <<DataPrefix, KeepAlive>>
        /\ backend.at # "over" /\ KeepAlive \in LinePayloads \union {Done, KeepAlive}
    BY <1>1
  <1>. DEFINE x == KeepAlive
              line == <<KeepAlive>>
              to == "between"
  <1>7. /\ line \in Seq(Tok) /\ LineEnds(line) = {} /\ line = (IF x = KeepAlive THEN <<KeepAlive>> ELSE <<DataPrefix, x>>)
        /\ x \in LinePayloads \union {Done, KeepAlive} /\ x.kind # "thinking" /\ x # Done /\ uttered' = Append(uttered, x)
        /\ writer.lineBuf \o <<KeepAlive, NewLine, NewLine>> = line \o <<NewLine, NewLine>>
        /\ to \in {"between", "over"} /\ to # "over" /\ backend' = [backend EXCEPT !.at = to]
    BY <1>1, <1>2, <1>3, <1>4, <1>5, <1>6
  <1>. HIDE DEF x, line, to
  <1>. QED BY <1>1, <1>6, <1>7, LineStep

LEMMA sendDoneStep ==
    ASSUME TranslatedInv, sendDone
    PROVE  TranslatedInv'
  <1>1. /\ TranslatedTyped /\ Buffered /\ Thoughts /\ Underway /\ backend.at = "between" /\ ThroughWriter(inquiry)
        /\ backend' = [backend EXCEPT !.at = "over"] /\ inquiry' = inquiry /\ uttered' = Append(uttered, Done)
        /\ Write(<<DataPrefix, Done, NewLine, NewLine>>, 200) /\ writer.lineBuf = <<>>
    BY DEF TranslatedInv, sendDone, Goes, Buffered
  <1>2. /\ DataPrefix \in Tok /\ Done \in Tok /\ NewLine \in Tok /\ DataPrefix # NewLine /\ Done # NewLine /\ Done # KeepAlive
        /\ Done.kind # "thinking"
    BY TokensTyped, TokensDiffer DEF Done, Token
  <1>3. LineEnds(<<DataPrefix, Done>>) = {} /\ <<DataPrefix, Done>> \in Seq(Tok)
    BY <1>2, UnbrokenPair, PairOf
  <1>4. writer.lineBuf \o <<DataPrefix, Done, NewLine, NewLine>> = <<DataPrefix, Done>> \o <<NewLine, NewLine>>
    <2>1. <<DataPrefix, Done>> \o <<NewLine, NewLine>> = <<DataPrefix, Done, NewLine, NewLine>>
          /\ <<DataPrefix, Done, NewLine, NewLine>> \in Seq(Tok)
      BY <1>2, QuadrupleOf
    <2>2. <<>> \o <<DataPrefix, Done, NewLine, NewLine>> = <<DataPrefix, Done, NewLine, NewLine>>
      BY <2>1, ConcatEmptySeq
    <2>. QED BY <1>1, <2>1, <2>2
  <1>. QED BY <1>1, <1>2, <1>3, <1>4, LineStep

\* The thinking is taken out and the answer stays.
LEMMA Stripped ==
    ASSUME NEW h \in Tok, h.kind = "thinking", NEW t \in Tok, t.kind # "thinking"
    PROVE  stripClaudeThinkingBlocks(<<t>>) = <<t>> /\ stripClaudeThinkingBlocks(<<h, t>>) = <<t>>
  <1>1. Append(<<>>, t) = <<t>>
    BY EmptySeq, AppendIsConcat, PairOf
  <1>2. stripClaudeThinkingBlocks(<<t>>) = <<t>>
    <2>. DEFINE b == <<t>>
                Rec(g) == g = [n \in 0..Len(b) |->
                                 CASE n = 0 -> <<>>
                                   [] n > 0 /\ b[n].kind = "thinking" -> g[n - 1]
                                   [] OTHER -> Append(g[n - 1], b[n])]
                r == [n \in 0..1 |-> IF n = 0 THEN <<>> ELSE <<t>>]
    <2>1. Len(b) = 1 /\ b[1] = t
      OBVIOUS
    <2>. HIDE DEF b
    <2>2. r[0] = <<>> /\ r[1] = <<t>>
      OBVIOUS
    <2>3. \A n \in 0..1 : r[n] = CASE n = 0 -> <<>>
                                   [] n > 0 /\ b[n].kind = "thinking" -> r[n - 1]
                                   [] OTHER -> Append(r[n - 1], b[n])
      <3>1. \A n \in 0..1 : n = 0 \/ (n = 1 /\ n - 1 = 0 /\ n # 0)
        OBVIOUS
      <3>. HIDE DEF r
      <3>2. ASSUME NEW n \in 0..1, n = 1
            PROVE  r[n] = CASE n = 0 -> <<>>
                            [] n > 0 /\ b[n].kind = "thinking" -> r[n - 1]
                            [] OTHER -> Append(r[n - 1], b[n])
        <4>1. n # 0 /\ n - 1 = 0 /\ b[n] = t
          BY <2>1, <3>2
        <4>2. b[n].kind # "thinking"
          BY <4>1
        <4>3. r[n] = Append(r[n - 1], b[n])
          BY <1>1, <2>2, <3>2, <4>1
        <4>. QED BY <4>1, <4>2, <4>3
      <3>3. ASSUME NEW n \in 0..1, n = 0
            PROVE  r[n] = CASE n = 0 -> <<>>
                            [] n > 0 /\ b[n].kind = "thinking" -> r[n - 1]
                            [] OTHER -> Append(r[n - 1], b[n])
        BY <2>2, <3>3
      <3>. QED BY <3>1, <3>2, <3>3
    <2>4. Rec(r)
      BY <2>1, <2>3
    <2>5. PICK g : Rec(g) /\ stripClaudeThinkingBlocks(b) = g[Len(b)]
      BY <2>4 DEF stripClaudeThinkingBlocks
    <2>6. g[0] = <<>> /\ g[1] = Append(g[0], t)
      <3>1. 0 \in 0..1 /\ 1 \in 0..1 /\ 1 - 1 = 0 /\ 1 # 0
        OBVIOUS
      <3>2. g[0] = <<>>
        BY <2>1, <2>5, <3>1
      <3>3. g[1] = CASE 1 = 0 -> <<>>
                     [] 1 > 0 /\ b[1].kind = "thinking" -> g[1 - 1]
                     [] OTHER -> Append(g[1 - 1], b[1])
        BY <2>1, <2>5, <3>1
      <3>. QED BY <2>1, <3>1, <3>2, <3>3
    <2>. QED BY <1>1, <2>1, <2>5, <2>6 DEF b
  <1>3. stripClaudeThinkingBlocks(<<h, t>>) = <<t>>
    <2>. DEFINE b == <<h, t>>
                Rec(g) == g = [n \in 0..Len(b) |->
                                 CASE n = 0 -> <<>>
                                   [] n > 0 /\ b[n].kind = "thinking" -> g[n - 1]
                                   [] OTHER -> Append(g[n - 1], b[n])]
                r == [n \in 0..2 |-> IF n = 2 THEN <<t>> ELSE <<>>]
    <2>1. Len(b) = 2 /\ b[1] = h /\ b[2] = t
      OBVIOUS
    <2>. HIDE DEF b
    <2>2. r[0] = <<>> /\ r[1] = <<>> /\ r[2] = <<t>>
      OBVIOUS
    <2>3. \A n \in 0..2 : r[n] = CASE n = 0 -> <<>>
                                   [] n > 0 /\ b[n].kind = "thinking" -> r[n - 1]
                                   [] OTHER -> Append(r[n - 1], b[n])
      <3>1. \A n \in 0..2 : n = 0 \/ (n = 1 /\ n - 1 = 0 /\ n # 0 /\ n > 0) \/ (n = 2 /\ n - 1 = 1 /\ n # 0 /\ n > 0)
        OBVIOUS
      <3>. HIDE DEF r
      <3>2. ASSUME NEW n \in 0..2, n = 2
            PROVE  r[n] = CASE n = 0 -> <<>>
                            [] n > 0 /\ b[n].kind = "thinking" -> r[n - 1]
                            [] OTHER -> Append(r[n - 1], b[n])
        <4>1. n # 0 /\ n - 1 = 1 /\ b[n] = t
          BY <2>1, <3>2
        <4>2. b[n].kind # "thinking"
          BY <4>1
        <4>3. r[n] = Append(r[n - 1], b[n])
          BY <1>1, <2>2, <3>2, <4>1
        <4>. QED BY <4>1, <4>2, <4>3
      <3>3. ASSUME NEW n \in 0..2, n = 1
            PROVE  r[n] = CASE n = 0 -> <<>>
                            [] n > 0 /\ b[n].kind = "thinking" -> r[n - 1]
                            [] OTHER -> Append(r[n - 1], b[n])
        <4>1. n # 0 /\ n > 0 /\ n - 1 = 0 /\ b[n].kind = "thinking" /\ r[n] = r[n - 1]
          BY <2>1, <2>2, <3>3
        <4>. QED BY <4>1
      <3>4. ASSUME NEW n \in 0..2, n = 0
            PROVE  r[n] = CASE n = 0 -> <<>>
                            [] n > 0 /\ b[n].kind = "thinking" -> r[n - 1]
                            [] OTHER -> Append(r[n - 1], b[n])
        BY <2>2, <3>4
      <3>. QED BY <3>1, <3>2, <3>3, <3>4
    <2>4. Rec(r)
      BY <2>1, <2>3
    <2>5. PICK g : Rec(g) /\ stripClaudeThinkingBlocks(b) = g[Len(b)]
      BY <2>4 DEF stripClaudeThinkingBlocks
    <2>6. g[0] = <<>> /\ g[1] = g[0] /\ g[2] = Append(g[1], t)
      <3>1. 0 \in 0..2 /\ 1 \in 0..2 /\ 2 \in 0..2 /\ 1 - 1 = 0 /\ 2 - 1 = 1
        OBVIOUS
      <3>2. g[0] = <<>>
        BY <2>1, <2>5, <3>1
      <3>3. g[1] = CASE 1 = 0 -> <<>>
                     [] 1 > 0 /\ b[1].kind = "thinking" -> g[1 - 1]
                     [] OTHER -> Append(g[1 - 1], b[1])
        BY <2>1, <2>5, <3>1
      <3>4. g[2] = CASE 2 = 0 -> <<>>
                     [] 2 > 0 /\ b[2].kind = "thinking" -> g[2 - 1]
                     [] OTHER -> Append(g[2 - 1], b[2])
        BY <2>1, <2>5, <3>1
      <3>. QED BY <2>1, <3>1, <3>2, <3>3, <3>4
    <2>. QED BY <1>1, <2>1, <2>5, <2>6 DEF b
  <1>. QED BY <1>2, <1>3

\* How many texts there are in a short answer, and whether it has thinking.
LEMMA OneText ==
    ASSUME NEW h \in Tok, h.kind = "thinking", NEW t \in Tok, t.kind = "text"
    PROVE  /\ Cardinality({i \in DOMAIN <<t>> : <<t>>[i].kind = "text"}) = 1
           /\ Cardinality({i \in DOMAIN <<h, t>> : <<h, t>>[i].kind = "text"}) = 1
           /\ NoThinking(<<t>>)
  <1>1. {i \in DOMAIN <<t>> : <<t>>[i].kind = "text"} = {1}
    OBVIOUS
  <1>2. {i \in DOMAIN <<h, t>> : <<h, t>>[i].kind = "text"} = {2}
    <2>1. DOMAIN <<h, t>> = {1, 2} /\ <<h, t>>[1] = h /\ <<h, t>>[2] = t
      OBVIOUS
    <2>. DEFINE b == <<h, t>>
    <2>. HIDE DEF b
    <2>2. DOMAIN b = {1, 2} /\ b[1] = h /\ b[2] = t
      BY <2>1 DEF b
    <2>3. {i \in DOMAIN b : b[i].kind = "text"} = {2}
      BY <2>2
    <2>. QED BY <2>3 DEF b
  <1>3. NoThinking(<<t>>)
    BY DEF NoThinking
  <1>. QED BY <1>1, <1>2, <1>3, FS_Singleton

LEMMA AnswersWholeStep ==
    ASSUME TranslatedInv, AnswersWhole
    PROVE  TranslatedInv'
  <1>1. PICK blocks \in Blocks :
          /\ blocks[1].kind = "thinking" => backend.thinking
          /\ uttered' = blocks
          /\ received' = [status |-> 200, body |->
                CASE ~Translates(inquiry) -> blocks
                  [] Translates(inquiry) /\ ExposeThinking(inquiry) -> FromOpenAINonStream(blocks)
                  [] OTHER -> stripClaudeThinkingBlocks(FromOpenAINonStream(blocks))]
    BY DEF AnswersWhole
  <1>2. /\ TranslatedTyped /\ Buffered /\ Thoughts /\ Underway /\ backend.at = "between" /\ ~ThroughWriter(inquiry)
        /\ backend' = [backend EXCEPT !.at = "over"] /\ inquiry' = inquiry /\ writer' = writer
    BY DEF TranslatedInv, AnswersWhole, Goes
  <1>3. /\ backend'.at = "over" /\ backend'.thinking = backend.thinking
        /\ backend' \in [at : {"asked", "between", "prefix", "payload", "over"}, thinking : BOOLEAN, line : Tok]
    BY <1>2, BackendGoes
  <1>4. PICK h \in Tok, t \in Tok, w \in Tok, v \in Tok :
            /\ h.kind = "thinking" /\ t.kind = "text" /\ w.kind = "thinking" /\ v.kind = "text" /\ t.is = "payload" /\ h.is = "payload"
            /\ blocks = <<t>> \/ blocks = <<h, t>>
            /\ blocks = <<t>> => FromOpenAINonStream(blocks) = <<v>>
            /\ blocks = <<h, t>> => FromOpenAINonStream(blocks) = <<w, v>>
    <2>1. PICK u \in BOOLEAN : blocks = <<Token("payload", "text", u)>>
                               \/ blocks = <<Token("payload", "thinking", u), Token("payload", "text", u)>>
      BY DEF Blocks
    <2>. DEFINE t == Token("payload", "text", u)
                h == Token("payload", "thinking", u)
    <2>2. /\ h \in Tok /\ t \in Tok /\ Whole(h) \in Tok /\ Whole(t) \in Tok
          /\ h.kind = "thinking" /\ t.kind = "text" /\ Whole(h).kind = "thinking" /\ Whole(t).kind = "text"
          /\ t.is = "payload" /\ h.is = "payload"
      BY DEF Token, Whole, Tok
    <2>3. blocks = <<t>> \/ blocks = <<h, t>>
      BY <2>1
    <2>. HIDE DEF t, h
    <2>4. FromOpenAINonStream(<<t>>) = <<Whole(t)>>
      <3>1. DOMAIN <<t>> = 1..1 /\ \A i \in 1..1 : <<t>>[i] = t
        OBVIOUS
      <3>2. FromOpenAINonStream(<<t>>) = [i \in 1..1 |-> Whole(t)]
        BY <3>1 DEF FromOpenAINonStream
      <3>. QED BY <3>2
    <2>5. FromOpenAINonStream(<<h, t>>) = <<Whole(h), Whole(t)>>
      <3>1. DOMAIN <<h, t>> = 1..2 /\ <<h, t>>[1] = h /\ <<h, t>>[2] = t
        OBVIOUS
      <3>. DEFINE b == <<h, t>>
                  f == [i \in 1..2 |-> Whole(b[i])]
      <3>2. FromOpenAINonStream(b) = f
        BY <3>1 DEF FromOpenAINonStream
      <3>3. f \in Seq(Tok) /\ Len(f) = 2 /\ f[1] = Whole(h) /\ f[2] = Whole(t)
        <4>1. f[1] = Whole(h) /\ f[2] = Whole(t)
          BY <3>1
        <4>2. \A i \in 1..2 : f[i] \in Tok
          <5>1. \A i \in 1..2 : i = 1 \/ i = 2
            OBVIOUS
          <5>. HIDE DEF f
          <5>. QED BY <2>2, <4>1, <5>1
        <4>3. DOMAIN f = 1..2 /\ f = [i \in 1..2 |-> f[i]]
          OBVIOUS
        <4>. HIDE DEF f, Tok
        <4>. QED BY <4>1, <4>2, <4>3, IsASeq
      <3>4. f = <<Whole(h), Whole(t)>>
        <4>1. <<Whole(h), Whole(t)>> \in Seq(Tok) /\ Len(<<Whole(h), Whole(t)>>) = 2
              /\ <<Whole(h), Whole(t)>>[1] = Whole(h) /\ <<Whole(h), Whole(t)>>[2] = Whole(t)
          BY <2>2, PairOf
        <4>2. \A i \in 1..Len(f) : i = 1 \/ i = 2
          BY <3>3
        <4>. DEFINE g == <<Whole(h), Whole(t)>>
        <4>3. Len(f) = Len(g) /\ \A i \in 1..Len(f) : f[i] = g[i]
          BY <3>3, <4>1, <4>2
        <4>. HIDE DEF f, g
        <4>. QED BY <3>3, <4>1, <4>3, SeqEqual DEF g
      <3>. QED BY <3>2, <3>4
    <2>. QED BY <2>2, <2>3, <2>4, <2>5
  <1>5. <<t>> \in Seq(Tok) /\ <<h, t>> \in Seq(Tok) /\ <<v>> \in Seq(Tok) /\ <<w, v>> \in Seq(Tok)
        /\ Len(<<t>>) = 1 /\ Len(<<h, t>>) = 2
    BY PairOf
  <1>6. /\ stripClaudeThinkingBlocks(<<v>>) = <<v>> /\ stripClaudeThinkingBlocks(<<w, v>>) = <<v>>
    BY <1>4, Stripped
  <1>7. /\ received'.status = 200 /\ received' = [status |-> 200, body |-> received'.body]
        /\ received'.body \in {<<t>>, <<h, t>>, <<v>>, <<w, v>>}
        /\ NotShown(inquiry) => received'.body \in {<<t>>, <<v>>}
    <2>1. CASE ~Translates(inquiry)
      <3>1. received' = [status |-> 200, body |-> blocks]
        BY <1>1, <2>1
      <3>2. blocks = <<t>>
        <4>1. ~backend.thinking
          BY <1>2, <2>1 DEF Thoughts
        <4>2. blocks[1].kind # "thinking"
          BY <1>1, <4>1
        <4>. QED BY <1>4, <4>2
      <3>. QED BY <3>1, <3>2
    <2>2. CASE Translates(inquiry) /\ ExposeThinking(inquiry)
      <3>1. received' = [status |-> 200, body |-> FromOpenAINonStream(blocks)]
        BY <1>1, <2>2
      <3>2. ~NotShown(inquiry)
        BY <2>2 DEF ExposeThinking, NotShown
      <3>3. FromOpenAINonStream(blocks) \in {<<v>>, <<w, v>>}
        BY <1>4
      <3>. QED BY <3>1, <3>2, <3>3
    <2>3. CASE Translates(inquiry) /\ ~ExposeThinking(inquiry)
      <3>1. received' = [status |-> 200, body |-> stripClaudeThinkingBlocks(FromOpenAINonStream(blocks))]
        BY <1>1, <2>3
      <3>2. stripClaudeThinkingBlocks(FromOpenAINonStream(blocks)) = <<v>>
        BY <1>4, <1>6
      <3>. QED BY <3>1, <3>2
    <2>. QED BY <2>1, <2>2, <2>3
  <1>8. /\ Cardinality({i \in DOMAIN received'.body : received'.body[i].kind = "text"}) = 1
        /\ NotShown(inquiry) => NoThinking(received'.body)
    <2>1. /\ Cardinality({i \in DOMAIN <<t>> : <<t>>[i].kind = "text"}) = 1
          /\ Cardinality({i \in DOMAIN <<h, t>> : <<h, t>>[i].kind = "text"}) = 1
          /\ NoThinking(<<t>>)
      BY <1>4, OneText
    <2>2. /\ Cardinality({i \in DOMAIN <<v>> : <<v>>[i].kind = "text"}) = 1
          /\ Cardinality({i \in DOMAIN <<w, v>> : <<w, v>>[i].kind = "text"}) = 1
          /\ NoThinking(<<v>>)
      BY <1>4, OneText
    <2>. DEFINE Texts(b) == Cardinality({i \in DOMAIN b : b[i].kind = "text"})
    <2>3. Texts(<<t>>) = 1 /\ Texts(<<h, t>>) = 1 /\ Texts(<<v>>) = 1 /\ Texts(<<w, v>>) = 1
      BY <2>1, <2>2
    <2>. HIDE DEF Texts
    <2>4. Texts(received'.body) = 1
      BY <1>7, <2>3
    <2>5. NotShown(inquiry) => NoThinking(received'.body)
      BY <1>7, <2>1, <2>2
    <2>. QED BY <2>4, <2>5 DEF Texts
  <1>9. TranslatedTyped'
    <2>1. received' \in [status : {0, 200, 400, 401, 429, 500}, body : Seq(Tok)]
      <3>1. received'.body \in Seq(Tok)
        BY <1>5, <1>7
      <3>. HIDE DEF Tok
      <3>. QED BY <1>7, <3>1
    <2>2. uttered' \in Seq(Tok)
      BY <1>1, <1>4, <1>5
    <2>. QED BY <1>2, <1>3, <2>1, <2>2 DEF TranslatedTyped
  <1>10. Buffered' /\ Thoughts'
    BY <1>2, <1>3 DEF Buffered, Thoughts
  <1>11. Len(uttered') <= MaxUttered + 2 /\ uttered' # <<ErrorBody>>
    <2>1. Len(uttered') <= MaxUttered + 2
      <3>1. Len(uttered') = 1 \/ Len(uttered') = 2
        BY <1>1, <1>4, <1>5
      <3>2. MaxUttered \in Nat
        BY TranslatedAssumption
      <3>3. \A n \in Nat, m \in {1, 2} : m <= n + 2
        OBVIOUS
      <3>. QED BY <3>1, <3>2, <3>3
    <2>2. blocks[1].is = "payload"
      BY <1>4
    <2>3. ErrorBody.is # "payload"
      BY DEF ErrorBody, Token
    <2>. QED BY <1>1, <2>1, <2>2, <2>3
  <1>12. ToldInTheirWords'
    BY <1>2, <1>3, <1>7, <1>8, <1>11 DEF ToldInTheirWords, NotShown, NoThinking
  <1>. QED BY <1>3, <1>9, <1>10, <1>11, <1>12 DEF TranslatedInv

LEMMA TranslatedStep == TranslatedInv /\ [TranslatedNext]_translatedVars => TranslatedInv'
  <1>. SUFFICES ASSUME TranslatedInv, [TranslatedNext]_translatedVars PROVE TranslatedInv'
    OBVIOUS
  <1>1. CASE UNCHANGED translatedVars
    <2>1. UNCHANGED <<inquiry, backend, uttered, writer, received>>
      BY <1>1 DEF translatedVars
    <2>. QED BY <2>1 DEF TranslatedInv, TranslatedTyped, Buffered, Thoughts, Underway, ToldInTheirWords
  <1>2. CASE TranslatedNext
    BY <1>2, RejectsBodyStep, HandsOverStep, RefusesStep, WritesPrefixStep, WritesPayloadStep, EndsLineStep,
       sendKeepAliveStep, sendDoneStep, AnswersWholeStep DEF TranslatedNext
  <1>. QED BY <1>1, <1>2

LEMMA TranslatedInvariant == TranslatedSpec => []TranslatedInv
  <1>. QED BY TranslatedInitInv, TranslatedStep, PTL DEF TranslatedSpec

\* The state of a translated request and of its writer has its type, for every
\* set of requests and any number of lines.
THEOREM TranslatedTypes == TranslatedSpec => []TranslatedTypeOK
  <1>1. TranslatedInv => TranslatedTypeOK
    <2>. SUFFICES ASSUME TranslatedInv PROVE TranslatedTypeOK
      OBVIOUS
    <2>1. Len(uttered) <= MaxUttered + 2
      BY UnderwayTold DEF TranslatedInv
    <2>2. LineEnds(writer.lineBuf) = {}
      <3>1. CASE backend.at = "prefix"
        BY <3>1, TokensDiffer DEF TranslatedInv, Buffered, LineEnds
      <3>2. CASE backend.at = "payload"
        <4>1. writer.lineBuf = <<DataPrefix, backend.line>> /\ backend.line \in LinePayloads
          BY <3>2 DEF TranslatedInv, Buffered, Thoughts
        <4>. QED BY <4>1, TokensDiffer, UnbrokenPair
      <3>3. CASE backend.at \notin {"prefix", "payload"}
        BY <3>3 DEF TranslatedInv, Buffered, LineEnds
      <3>. QED BY <3>1, <3>2, <3>3
    <2>. QED BY <2>1, <2>2 DEF TranslatedInv, TranslatedTyped, TranslatedTypeOK
  <1>. QED BY <1>1, TranslatedInvariant, PTL

\* In whatever parts the lines of an answer are written, the client of a Claude
\* or Gemini endpoint gets the translation of each, once and in order, and no
\* thinking it did not ask for: whatever the requests, however long the answer.
THEOREM TranslatedAsSaid == TranslatedSpec => []ToldInTheirWords
  <1>1. TranslatedInv => ToldInTheirWords
    BY UnderwayTold DEF TranslatedInv
  <1>. QED BY <1>1, TranslatedInvariant, PTL

-----------------------------------------------------------------------------
\* The runtime of a streamed response and the events it sent

Names == {"created", "reasoning.delta", "item.added", "part.added", "text.delta", "text.done", "part.done",
          "item.done", "args.done"}
Utterances == [ev : Names, item : Nat, index : Int, text : Text, output : {{}}]
Spots == [item : Nat, index : Int]
Runtimes == [sieve : Sieves(STRING), rawThinking : Text, thinking : Text, detection : Text, rawText : Text,
             text : Text, visible : Text, id : Nat, type : PartTypes, functions : Seq(Spots), callsDone : BOOLEAN,
             message : Nat, index : Int, added : BOOLEAN, part : BOOLEAN, nextOutput : Nat, nextItem : Nat,
             sent : Seq(Utterances), terminal : {FALSE}]

Is(r, i, ev, item) == r.sent[i].ev = ev /\ r.sent[i].item = item
Delta(e) == IF e.ev = "text.delta" THEN e.text ELSE <<>>
DeltasOf(s) == Collected(s, LAMBDA e : IF e.ev = "text.delta" THEN e.text ELSE <<>>)

\* The message has its item and its place, and is open for text or was done.
MessageKept(r) ==
    /\ r.nextItem > 0
    /\ r.added  => r.message \in 1..(r.nextItem - 1) /\ r.index \in 0..(r.nextOutput - 1)
    /\ ~r.added => r.message = 0 /\ r.index = -1 /\ ~r.part
    /\ r.added => \E i \in DOMAIN r.sent : Is(r, i, "item.added", r.message)
    /\ r.added /\ ~r.part => \E i \in DOMAIN r.sent : Is(r, i, "item.done", r.message)

\* Items are added under numbers and at places of their own, before all else.
AddedKept(r) ==
    /\ \A i \in DOMAIN r.sent : r.sent[i].ev = "item.added" =>
          r.sent[i].item \in 1..(r.nextItem - 1) /\ r.sent[i].index \in 0..(r.nextOutput - 1)
    /\ \A i, j \in DOMAIN r.sent : r.sent[i].ev = "item.added" /\ r.sent[j].ev = "item.added" /\ i # j =>
          r.sent[i].item # r.sent[j].item /\ r.sent[i].index # r.sent[j].index
    /\ \A i \in DOMAIN r.sent : r.sent[i].item # 0 => \E k \in 1..i : Is(r, k, "item.added", r.sent[i].item)

\* Items are done last; only the message, and an item that is open, may not be yet.
DoneKept(r, open) ==
    /\ \A i \in DOMAIN r.sent : r.sent[i].item \notin {0, r.message, open} =>
          \E k \in DOMAIN r.sent : Is(r, k, "item.done", r.sent[i].item)
    /\ \A i, j \in DOMAIN r.sent :
          r.sent[i].ev = "item.done" /\ r.sent[i].item # r.message /\ r.sent[j].item = r.sent[i].item => j <= i
    /\ \A i \in DOMAIN r.sent : r.sent[i].ev = "item.done" => r.sent[i].item # 0 /\ r.sent[i].item # open
    /\ \A i \in DOMAIN r.sent : Is(r, i, "item.done", r.message) =>
          \E k \in DOMAIN r.sent : Is(r, k, "text.done", r.message) /\ k + 2 <= i

CallsKept(r) == \A i \in DOMAIN r.functions : r.functions[i].item < r.nextItem /\ r.functions[i].index < r.nextOutput

Well(r, open) == MessageKept(r) /\ CallsKept(r) /\ AddedKept(r) /\ DoneKept(r, open) /\ r.visible = DeltasOf(r.sent)
Fresh(r) == \A i \in DOMAIN r.sent : r.sent[i].ev = "item.done" => r.sent[i].item # r.message
Kept(open, first) == {r \in Runtimes : Well(r, open) /\ (first => Fresh(r))}

\* The message was done, and what is more, nothing was said of it afterwards.
MessageDone(r) == r.added => \E i \in DOMAIN r.sent : Is(r, i, "item.done", r.message)
DoneLast(r) == \A i, j \in DOMAIN r.sent : Is(r, i, "item.done", r.message) /\ r.sent[j].item = r.message => j <= i

-----------------------------------------------------------------------------
\* The text of the deltas

AddDeltas(s) == [p \in (1..Len(s)) \X Text |-> p[2] \o Delta(s[p[1]])]

LEMMA DeltasFollow ==
    ASSUME NEW X, \A x \in X : x.text \in Text, NEW s \in Seq(X)
    PROVE  /\ DeltasOf(s) \in Text
           /\ \A h : Follows(Text, <<>>, AddDeltas(s), Len(s), h) => DeltasOf(s) = h[Len(s)]
  <1>. DEFINE n == Len(s)
              T == Text
              F == AddDeltas(s)
              Rec(g) == g = [i \in 0..n |-> IF i = 0 THEN <<>> ELSE g[i - 1] \o Delta(s[i])]
  <1>1. n \in Nat /\ <<>> \in T
    BY Members, TextTyped
  <1>2. \A i \in 1..n, x \in T : x \o Delta(s[i]) \in T
    <2>1. ASSUME NEW i \in 1..n, NEW x \in T PROVE x \o Delta(s[i]) \in T
      <3>1. Delta(s[i]) \in Text
        BY Members, TextTyped DEF Delta
      <3>. QED BY <3>1, TextTyped
    <2>. QED BY <2>1
  <1>3. F \in [(1..n) \X T -> T] /\ \A i \in 1..n, x \in T : F[<<i, x>>] = x \o Delta(s[i])
    BY <1>2 DEF AddDeltas
  <1>. HIDE DEF T, F, n
  <1>4. PICK g \in [0..n -> T] : Runs(<<>>, F, n, g)
    BY <1>1, <1>3, RunsExist
  <1>5. Rec(g)
    <2>1. ASSUME NEW i \in 0..n PROVE g[i] = IF i = 0 THEN <<>> ELSE g[i - 1] \o Delta(s[i])
      <3>1. i # 0 => i \in 1..n /\ i - 1 \in 0..n
        BY <1>1
      <3>. QED BY <1>3, <1>4, <3>1 DEF Runs
    <2>. QED BY <1>4, <2>1
  <1>6. PICK h : Rec(h) /\ DeltasOf(s) = h[n]
    BY <1>5 DEF DeltasOf, Collected, Over, Delta, n
  <1>7. Follows(T, <<>>, F, n, h)
    <2>1. h[0] = <<>>
      BY <1>1, <1>6
    <2>2. ASSUME NEW i \in 1..n, h[i - 1] \in T PROVE h[i] = h[i - 1] \o Delta(s[i])
      <3>1. i \in 0..n /\ i # 0
        BY <1>1
      <3>. QED BY <1>6, <3>1
    <2>. QED BY <1>3, <2>1, <2>2 DEF Follows
  <1>8. ASSUME NEW k, Follows(T, <<>>, F, n, k) PROVE k[n] = h[n] /\ h[n] \in T
    BY <1>1, <1>3, <1>7, <1>8, RunsAgree
  <1>9. h[n] \in T
    BY <1>7, <1>8
  <1>. QED BY <1>6, <1>8, <1>9 DEF n, T, F

LEMMA NoDeltas == DeltasOf(<<>>) = <<>>
  <1>1. <<>> \in Seq({}) /\ Len(<<>>) = 0 /\ \A x \in {} : x.text \in Text
    BY EmptySeq
  <1>. DEFINE h == [i \in {0} |-> <<>>]
  <1>2. h[0] = <<>>
    OBVIOUS
  <1>3. Follows(Text, <<>>, AddDeltas(<<>>), 0, h)
    BY <1>2 DEF Follows
  <1>. HIDE DEF h
  <1>. QED BY <1>1, <1>2, <1>3, DeltasFollow

LEMMA DeltasGrow ==
    ASSUME NEW X, \A x \in X : x.text \in Text, NEW s \in Seq(X), NEW e \in X
    PROVE  DeltasOf(Append(s, e)) = DeltasOf(s) \o Delta(e)
  <1>. DEFINE n == Len(s)
              more == Append(s, e)
              T == Text
              F == AddDeltas(s)
              G == AddDeltas(more)
  <1>1. n \in Nat /\ more \in Seq(X) /\ Len(more) = n + 1 /\ more[n + 1] = e /\ (\A i \in 1..n : more[i] = s[i]) /\ <<>> \in T
        /\ n + 1 \in Nat
    BY Members, AppendProperties, TextTyped
  <1>. HIDE DEF more
  <1>2. \A x \in T, i \in 1..n + 1 : x \o Delta(more[i]) \in T
    <2>1. ASSUME NEW i \in 1..n + 1, NEW x \in T PROVE x \o Delta(more[i]) \in T
      <3>1. more[i] \in X
        BY <1>1, Members
      <3>2. Delta(more[i]) \in Text
        BY <3>1, TextTyped DEF Delta
      <3>. QED BY <3>2, TextTyped
    <2>. QED BY <2>1
  <1>3. G \in [(1..n + 1) \X T -> T] /\ \A i \in 1..n + 1, x \in T : G[<<i, x>>] = x \o Delta(more[i])
    BY <1>1, <1>2 DEF AddDeltas
  <1>4. \A i \in 1..n, x \in T : F[<<i, x>>] = x \o Delta(s[i])
    BY DEF AddDeltas
  <1>. HIDE DEF T, F, G, n
  <1>5. PICK g \in [0..n + 1 -> T] : Runs(<<>>, G, n + 1, g)
    BY <1>1, <1>3, RunsExist
  <1>6. (\A i \in 1..n + 1 : i - 1 \in 0..n + 1) /\ (\A i \in 1..n : i \in 1..n + 1) /\ n + 1 \in 1..n + 1 /\ (n + 1) - 1 = n
        /\ n \in 0..n + 1
    BY <1>1
  <1>7. g[0] = <<>> /\ \A i \in 1..n + 1 : g[i] = g[i - 1] \o Delta(more[i])
    BY <1>3, <1>5, <1>6 DEF Runs
  <1>8. Follows(T, <<>>, G, n + 1, g)
    BY <1>3, <1>6, <1>7 DEF Follows
  <1>9. Follows(T, <<>>, F, n, g)
    BY <1>1, <1>4, <1>6, <1>7 DEF Follows
  <1>10. DeltasOf(more) = g[n + 1]
    BY <1>1, <1>8, DeltasFollow DEF T, G
  <1>11. DeltasOf(s) = g[n]
    BY <1>9, DeltasFollow DEF T, F, n
  <1>. QED BY <1>1, <1>6, <1>7, <1>10, <1>11 DEF more

-----------------------------------------------------------------------------
\* What one more event does to what is kept of the events

\* The events of q are those of r and one more.
Adds(r, q, e) ==
    /\ q.sent = Append(r.sent, e)
    /\ q.visible = r.visible \o Delta(e)

LEMMA OneMore ==
    ASSUME NEW r \in Runtimes, NEW q, NEW e \in Utterances, Adds(r, q, e), r.visible = DeltasOf(r.sent)
    PROVE  /\ Len(r.sent) \in Nat /\ DOMAIN r.sent = 1..Len(r.sent) /\ DOMAIN q.sent = 1..(Len(r.sent) + 1)
           /\ q.sent[Len(r.sent) + 1] = e /\ \A i \in 1..Len(r.sent) : q.sent[i] = r.sent[i]
           /\ \A i \in 1..(Len(r.sent) + 1) : i \in 1..Len(r.sent) \/ i = Len(r.sent) + 1
           /\ \A i \in 1..Len(r.sent) : r.sent[i] \in Utterances
           /\ q.visible = DeltasOf(q.sent)
  <1>1. r.sent \in Seq(Utterances) /\ \A x \in Utterances : x.text \in Text
    BY DEF Runtimes, Utterances
  <1>2. Len(r.sent) \in Nat /\ DOMAIN r.sent = 1..Len(r.sent) /\ \A i \in 1..Len(r.sent) : r.sent[i] \in Utterances
    BY <1>1, Members
  <1>3. /\ Append(r.sent, e) \in Seq(Utterances) /\ Len(Append(r.sent, e)) = Len(r.sent) + 1
        /\ \A i \in 1..Len(r.sent) : Append(r.sent, e)[i] = r.sent[i]
        /\ Append(r.sent, e)[Len(r.sent) + 1] = e
    BY <1>1, AppendProperties
  <1>4. DOMAIN Append(r.sent, e) = 1..(Len(r.sent) + 1)
    BY <1>3, Members
  <1>5. DeltasOf(Append(r.sent, e)) = DeltasOf(r.sent) \o Delta(e)
    BY <1>1, DeltasGrow
  <1>6. \A i \in 1..(Len(r.sent) + 1) : i \in 1..Len(r.sent) \/ i = Len(r.sent) + 1
    BY <1>2
  <1>. QED BY <1>2, <1>3, <1>4, <1>5, <1>6 DEF Adds

LEMMA DeltaTyped ==
    ASSUME NEW r \in Runtimes, NEW e \in Utterances
    PROVE  r.visible \o Delta(e) \in Text /\ Append(r.sent, e) \in Seq(Utterances)
           /\ (e.ev # "text.delta" => r.visible \o Delta(e) = r.visible)
  <1>1. r.sent \in Seq(Utterances) /\ e.text \in Text /\ r.visible \in Text
    BY DEF Runtimes, Utterances
  <1>2. Delta(e) \in Text
    BY <1>1, TextTyped DEF Delta
  <1>3. r.visible \o <<>> = r.visible
    BY <1>1, ConcatEmptySeq DEF Text
  <1>. QED BY <1>1, <1>2, <1>3, TextTyped, AppendProperties DEF Delta

\* What is kept of the adding of items outlives an event of an item that is there.
LEMMA AddedStays ==
    ASSUME NEW r \in Runtimes, AddedKept(r), NEW e \in Utterances, NEW q, Adds(r, q, e), r.visible = DeltasOf(r.sent),
           q.nextItem = r.nextItem, q.nextOutput = r.nextOutput, e.ev # "item.added",
           e.item # 0 => \E i \in DOMAIN r.sent : Is(r, i, "item.added", e.item)
    PROVE  AddedKept(q)
  <1>. DEFINE n == Len(r.sent)
  <1>1. /\ n \in Nat /\ DOMAIN r.sent = 1..n /\ DOMAIN q.sent = 1..(n + 1) /\ q.sent[n + 1] = e
        /\ (\A i \in 1..n : q.sent[i] = r.sent[i]) /\ (\A i \in 1..(n + 1) : i \in 1..n \/ i = n + 1)
    BY OneMore
  <1>. HIDE DEF n
  <1>2. ASSUME NEW i \in DOMAIN q.sent, q.sent[i].ev = "item.added"
        PROVE  i \in 1..n /\ q.sent[i] = r.sent[i]
    BY <1>1, <1>2
  <1>3. \A i \in DOMAIN q.sent : q.sent[i].ev = "item.added" =>
            q.sent[i].item \in 1..(q.nextItem - 1) /\ q.sent[i].index \in 0..(q.nextOutput - 1)
    BY <1>1, <1>2 DEF AddedKept
  <1>4. \A i, j \in DOMAIN q.sent : q.sent[i].ev = "item.added" /\ q.sent[j].ev = "item.added" /\ i # j =>
            q.sent[i].item # q.sent[j].item /\ q.sent[i].index # q.sent[j].index
    BY <1>1, <1>2 DEF AddedKept
  <1>5. ASSUME NEW i \in DOMAIN q.sent, q.sent[i].item # 0
        PROVE  \E k \in 1..i : Is(q, k, "item.added", q.sent[i].item)
    <2>1. CASE i \in 1..n
      <3>1. PICK k \in 1..i : Is(r, k, "item.added", r.sent[i].item)
        BY <1>1, <1>5, <2>1 DEF AddedKept
      <3>2. k \in 1..n
        BY <1>1, <2>1
      <3>. QED BY <1>1, <2>1, <3>1, <3>2 DEF Is
    <2>2. CASE i = n + 1
      <3>1. PICK k \in DOMAIN r.sent : Is(r, k, "item.added", e.item)
        BY <1>1, <1>5, <2>2
      <3>2. k \in 1..n /\ k \in 1..i
        BY <1>1, <2>2, <3>1
      <3>. QED BY <1>1, <2>2, <3>1, <3>2 DEF Is
    <2>. QED BY <1>1, <2>1, <2>2
  <1>. QED BY <1>3, <1>4, <1>5 DEF AddedKept

\* q is r after the event e, and its items are those of r.
Stays(r, q, e) ==
    /\ Adds(r, q, e)
    /\ q.nextItem = r.nextItem /\ q.nextOutput = r.nextOutput /\ q.message = r.message /\ q.index = r.index
    /\ q.added = r.added /\ q.functions = r.functions

\* An event of an item that is there, or of none.
Says(r, q, e, open) ==
    /\ Stays(r, q, e) /\ (q.part = r.part \/ (r.added /\ q.part))
    /\ e.ev \notin {"item.added", "item.done"} /\ e.item \in {0, r.message, open}
    /\ e.item # 0 => \E i \in DOMAIN r.sent : Is(r, i, "item.added", e.item)

LEMMA Spoken ==
    ASSUME NEW open \in Nat, NEW r \in Runtimes, Well(r, open), NEW e \in Utterances, NEW q, Says(r, q, e, open)
    PROVE  Well(q, open) /\ (Fresh(r) => Fresh(q)) /\ q.sent # <<>>
           /\ \A i \in DOMAIN r.sent : i \in DOMAIN q.sent /\ q.sent[i] = r.sent[i]
  <1>. DEFINE n == Len(r.sent)
  <1>. USE DEF Says, Stays
  <1>1. r.visible = DeltasOf(r.sent) /\ MessageKept(r) /\ CallsKept(r) /\ AddedKept(r) /\ DoneKept(r, open)
    BY DEF Well
  <1>2. /\ n \in Nat /\ DOMAIN r.sent = 1..n /\ DOMAIN q.sent = 1..(n + 1) /\ q.sent[n + 1] = e
        /\ (\A i \in 1..n : q.sent[i] = r.sent[i]) /\ (\A i \in 1..(n + 1) : i \in 1..n \/ i = n + 1)
        /\ q.visible = DeltasOf(q.sent)
    BY <1>1, OneMore
  <1>. HIDE DEF n
  <1>3. (\A i \in 1..n : i \in 1..(n + 1) /\ i <= n + 1) /\ n + 1 \in 1..(n + 1)
    BY <1>2
  <1>4. MessageKept(q)
    BY <1>1, <1>2, <1>3 DEF MessageKept, Is
  <1>5. CallsKept(q)
    BY <1>1 DEF CallsKept
  <1>6. AddedKept(q)
    BY <1>1, AddedStays
  <1>7. ASSUME NEW i \in DOMAIN q.sent, q.sent[i].ev = "item.done"
        PROVE  i \in DOMAIN r.sent /\ r.sent[i].ev = "item.done" /\ q.sent[i] = r.sent[i]
    BY <1>2, <1>7
  <1>8. DoneKept(q, open)
    <2>1. ASSUME NEW i \in DOMAIN q.sent, q.sent[i].item \notin {0, q.message, open}
          PROVE  \E k \in DOMAIN q.sent : Is(q, k, "item.done", q.sent[i].item)
      <3>1. i \in 1..n
        BY <1>2, <2>1
      <3>2. PICK k \in 1..n : Is(r, k, "item.done", r.sent[i].item)
        BY <1>1, <1>2, <2>1, <3>1 DEF DoneKept
      <3>. QED BY <1>2, <1>3, <3>1, <3>2 DEF Is
    <2>2. ASSUME NEW i \in DOMAIN q.sent, NEW j \in DOMAIN q.sent,
                 q.sent[i].ev = "item.done", q.sent[i].item # q.message, q.sent[j].item = q.sent[i].item
          PROVE  j <= i
      <3>1. i \in DOMAIN r.sent /\ r.sent[i].ev = "item.done" /\ r.sent[i].item = q.sent[i].item
        BY <1>7, <2>2
      <3>2. r.sent[i].item # 0 /\ r.sent[i].item # open
        BY <1>1, <3>1 DEF DoneKept
      <3>3. j \in DOMAIN r.sent /\ r.sent[j] = q.sent[j]
        BY <1>2, <2>2, <3>1, <3>2
      <3>. QED BY <1>1, <2>2, <3>1, <3>3 DEF DoneKept
    <2>3. \A i \in DOMAIN q.sent : q.sent[i].ev = "item.done" => q.sent[i].item # 0 /\ q.sent[i].item # open
      BY <1>1, <1>7 DEF DoneKept
    <2>4. ASSUME NEW i \in DOMAIN q.sent, Is(q, i, "item.done", q.message)
          PROVE  \E k \in DOMAIN q.sent : Is(q, k, "text.done", q.message) /\ k + 2 <= i
      <3>1. i \in DOMAIN r.sent /\ Is(r, i, "item.done", r.message)
        BY <1>7, <2>4 DEF Is
      <3>2. PICK k \in DOMAIN r.sent : Is(r, k, "text.done", r.message) /\ k + 2 <= i
        BY <1>1, <3>1 DEF DoneKept
      <3>. QED BY <1>2, <1>3, <3>2 DEF Is
    <2>. QED BY <2>1, <2>2, <2>3, <2>4 DEF DoneKept
  <1>9. Fresh(r) => Fresh(q)
    BY <1>7 DEF Fresh
  <1>10. q.sent # <<>>
    BY <1>2, <1>3
  <1>. QED BY <1>2, <1>3, <1>4, <1>5, <1>6, <1>8, <1>9, <1>10 DEF Well

\* An item is added: the message, or a call, which is open until it is done.
Admits(r, q, e, open) ==
    /\ Adds(r, q, e) /\ e.ev = "item.added" /\ e.item = r.nextItem /\ e.index = r.nextOutput
    /\ q.nextItem = r.nextItem + 1 /\ q.nextOutput = r.nextOutput + 1 /\ CallsKept(q)
    /\ \/ ~r.added /\ q.added /\ q.part /\ q.message = r.nextItem /\ q.index = r.nextOutput /\ open = 0
       \/ /\ q.added = r.added /\ q.part = r.part /\ q.message = r.message /\ q.index = r.index
          /\ open = r.nextItem

LEMMA Admitted ==
    ASSUME NEW open \in Nat, NEW r \in Runtimes, Well(r, 0), NEW e \in Utterances, NEW q, Admits(r, q, e, open)
    PROVE  Well(q, open) /\ (Fresh(r) => Fresh(q)) /\ q.sent # <<>> /\ open # q.message
           /\ \E i \in DOMAIN q.sent : Is(q, i, "item.added", r.nextItem)
  <1>. DEFINE n == Len(r.sent)
  <1>. USE DEF Admits
  <1>1. r.visible = DeltasOf(r.sent) /\ MessageKept(r) /\ CallsKept(r) /\ AddedKept(r) /\ DoneKept(r, 0)
    BY DEF Well
  <1>2. /\ n \in Nat /\ DOMAIN r.sent = 1..n /\ DOMAIN q.sent = 1..(n + 1) /\ q.sent[n + 1] = e
        /\ (\A i \in 1..n : q.sent[i] = r.sent[i]) /\ (\A i \in 1..(n + 1) : i \in 1..n \/ i = n + 1)
        /\ q.visible = DeltasOf(q.sent) /\ \A i \in 1..n : r.sent[i] \in Utterances
    BY <1>1, OneMore
  <1>. HIDE DEF n
  <1>3. (\A i \in 1..n : i \in 1..(n + 1) /\ i <= n + 1) /\ n + 1 \in 1..(n + 1)
    BY <1>2
  <1>4. r.nextItem \in Nat /\ r.nextItem > 0 /\ r.nextOutput \in Nat /\ r.message \in Nat /\ r.message < r.nextItem
    BY <1>1 DEF Runtimes, MessageKept
  <1>5. /\ \A x : x \in 1..(r.nextItem - 1) => x \in 1..(q.nextItem - 1)
         /\ \A z : z \in 0..(r.nextOutput - 1) => z \in 0..(q.nextOutput - 1)
    <2>1. \A a \in Nat : \A y : (y \in 1..(a - 1) => y \in 1..(a + 1 - 1)) /\ (y \in 0..(a - 1) => y \in 0..(a + 1 - 1))
      OBVIOUS
    <2>. QED BY <1>4, <2>1
  <1>6. ASSUME NEW i \in 1..n PROVE r.sent[i].item < r.nextItem /\ r.sent[i].item \in Nat
    <2>1. CASE r.sent[i].item = 0
      BY <1>4, <2>1
    <2>2. CASE r.sent[i].item # 0
      <3>1. PICK k \in 1..i : Is(r, k, "item.added", r.sent[i].item)
        BY <1>1, <1>2, <2>2 DEF AddedKept
      <3>2. k \in DOMAIN r.sent
        BY <1>2
      <3>3. r.sent[k].item \in 1..(r.nextItem - 1)
        BY <1>1, <3>1, <3>2 DEF AddedKept, Is
      <3>. QED BY <1>4, <3>1, <3>3 DEF Is
    <2>. QED BY <2>1, <2>2
  <1>7. ASSUME NEW i \in DOMAIN q.sent, q.sent[i].ev = "item.done"
        PROVE  i \in DOMAIN r.sent /\ r.sent[i].ev = "item.done" /\ q.sent[i] = r.sent[i]
    BY <1>2, <1>7
  <1>8. MessageKept(q)
    <2>1. r.nextItem \in 1..(r.nextItem + 1 - 1) /\ r.nextOutput \in 0..(r.nextOutput + 1 - 1) /\ r.nextItem + 1 > 0
      BY <1>4
    <2>2. CASE ~r.added /\ q.added /\ q.part /\ q.message = r.nextItem /\ q.index = r.nextOutput
      BY <1>2, <1>3, <2>1, <2>2 DEF MessageKept, Is
    <2>3. CASE q.added = r.added /\ q.part = r.part /\ q.message = r.message /\ q.index = r.index
      <3>1. /\ r.added => \E i \in DOMAIN q.sent : Is(q, i, "item.added", q.message)
            /\ r.added /\ ~r.part => \E i \in DOMAIN q.sent : Is(q, i, "item.done", q.message)
        BY <1>1, <1>2, <1>3, <2>3 DEF MessageKept, Is
      <3>2. q.added => q.message \in 1..(q.nextItem - 1) /\ q.index \in 0..(q.nextOutput - 1)
        BY <1>1, <1>5, <2>3 DEF MessageKept
      <3>3. ~q.added => q.message = 0 /\ q.index = -1 /\ ~q.part
        BY <1>1, <2>3 DEF MessageKept
      <3>. QED BY <2>1, <2>3, <3>1, <3>2, <3>3 DEF MessageKept
    <2>. QED BY <2>2, <2>3
  <1>9. AddedKept(q)
    <2>1. ASSUME NEW i \in 1..n, r.sent[i].ev = "item.added"
          PROVE  r.sent[i].item \in 1..(r.nextItem - 1) /\ r.sent[i].index \in 0..(r.nextOutput - 1)
      BY <1>1, <1>2, <2>1 DEF AddedKept
    <2>2. ASSUME NEW i \in DOMAIN q.sent, q.sent[i].ev = "item.added"
          PROVE  q.sent[i].item \in 1..(q.nextItem - 1) /\ q.sent[i].index \in 0..(q.nextOutput - 1)
      <3>1. CASE i \in 1..n
        <4>1. r.sent[i].item \in 1..(r.nextItem - 1) /\ r.sent[i].index \in 0..(r.nextOutput - 1)
          BY <1>2, <2>1, <2>2, <3>1
        <4>. QED BY <1>2, <1>5, <3>1, <4>1
      <3>2. CASE i = n + 1
        <4>1. \A a \in Nat : a \in 0..(a + 1 - 1) /\ (a > 0 => a \in 1..(a + 1 - 1))
          OBVIOUS
        <4>. QED BY <1>2, <1>4, <3>2, <4>1
      <3>. QED BY <1>2, <3>1, <3>2
    <2>3. ASSUME NEW i \in DOMAIN q.sent, NEW j \in DOMAIN q.sent,
                 q.sent[i].ev = "item.added", q.sent[j].ev = "item.added", i # j
          PROVE  q.sent[i].item # q.sent[j].item /\ q.sent[i].index # q.sent[j].index
      <3>1. CASE i \in 1..n /\ j \in 1..n
        <4>1. q.sent[i] = r.sent[i] /\ q.sent[j] = r.sent[j] /\ i \in DOMAIN r.sent /\ j \in DOMAIN r.sent
          BY <1>2, <3>1
        <4>2. r.sent[i].ev = "item.added" /\ r.sent[j].ev = "item.added"
          BY <2>3, <4>1
        <4>3. r.sent[i].item # r.sent[j].item /\ r.sent[i].index # r.sent[j].index
          BY <1>1, <2>3, <4>1, <4>2 DEF AddedKept
        <4>. QED BY <4>1, <4>3
      <3>2. CASE i \in 1..n /\ j = n + 1
        <4>1. r.sent[i].item \in 1..(r.nextItem - 1) /\ r.sent[i].index \in 0..(r.nextOutput - 1)
          BY <1>2, <2>1, <2>3, <3>2
        <4>2. r.sent[i].item # r.nextItem /\ r.sent[i].index # r.nextOutput
          BY <1>4, <4>1
        <4>. QED BY <1>2, <3>2, <4>2
      <3>3. CASE i = n + 1 /\ j \in 1..n
        <4>1. r.sent[j].item \in 1..(r.nextItem - 1) /\ r.sent[j].index \in 0..(r.nextOutput - 1)
          BY <1>2, <2>1, <2>3, <3>3
        <4>2. r.sent[j].item # r.nextItem /\ r.sent[j].index # r.nextOutput
          BY <1>4, <4>1
        <4>. QED BY <1>2, <3>3, <4>2
      <3>. QED BY <1>2, <2>3, <3>1, <3>2, <3>3
    <2>4. ASSUME NEW i \in DOMAIN q.sent, q.sent[i].item # 0
          PROVE  \E k \in 1..i : Is(q, k, "item.added", q.sent[i].item)
      <3>1. CASE i \in 1..n
        <4>1. PICK k \in 1..i : Is(r, k, "item.added", r.sent[i].item)
          BY <1>1, <1>2, <2>4, <3>1 DEF AddedKept
        <4>2. k \in 1..n
          BY <1>2, <3>1
        <4>. QED BY <1>2, <3>1, <4>1, <4>2 DEF Is
      <3>2. CASE i = n + 1
        BY <1>2, <1>3, <3>2 DEF Is
      <3>. QED BY <1>2, <3>1, <3>2
    <2>. QED BY <2>2, <2>3, <2>4 DEF AddedKept
  <1>10. DoneKept(q, open)
    <2>1. ASSUME NEW i \in DOMAIN q.sent, q.sent[i].item \notin {0, q.message, open}
          PROVE  \E k \in DOMAIN q.sent : Is(q, k, "item.done", q.sent[i].item)
      <3>1. i \in 1..n /\ q.sent[i] = r.sent[i]
        BY <1>2, <2>1
      <3>2. r.sent[i].item \notin {0, r.message}
        BY <1>1, <2>1, <3>1 DEF MessageKept
      <3>3. PICK k \in 1..n : Is(r, k, "item.done", r.sent[i].item)
        BY <1>1, <1>2, <3>1, <3>2 DEF DoneKept
      <3>. QED BY <1>2, <1>3, <3>1, <3>3 DEF Is
    <2>2. ASSUME NEW i \in DOMAIN q.sent, NEW j \in DOMAIN q.sent,
                 q.sent[i].ev = "item.done", q.sent[i].item # q.message, q.sent[j].item = q.sent[i].item
          PROVE  j <= i
      <3>1. i \in 1..n /\ r.sent[i].ev = "item.done" /\ r.sent[i] = q.sent[i]
        BY <1>2, <1>7, <2>2
      <3>2. r.sent[i].item # 0 /\ r.sent[i].item < r.nextItem /\ r.sent[i].item \in Nat
        BY <1>1, <1>2, <1>6, <3>1 DEF DoneKept
      <3>3. j \in 1..n /\ r.sent[j] = q.sent[j]
        BY <1>2, <1>4, <2>2, <3>1, <3>2
      <3>4. r.sent[i].item # r.message
        BY <1>1, <2>2, <3>1, <3>2 DEF MessageKept
      <3>. QED BY <1>1, <1>2, <2>2, <3>1, <3>3, <3>4 DEF DoneKept
    <2>3. \A i \in DOMAIN q.sent : q.sent[i].ev = "item.done" => q.sent[i].item # 0 /\ q.sent[i].item # open
      BY <1>1, <1>2, <1>4, <1>6, <1>7 DEF DoneKept
    <2>4. ASSUME NEW i \in DOMAIN q.sent, Is(q, i, "item.done", q.message)
          PROVE  \E k \in DOMAIN q.sent : Is(q, k, "text.done", q.message) /\ k + 2 <= i
      <3>1. i \in 1..n /\ r.sent[i].ev = "item.done" /\ r.sent[i] = q.sent[i]
        BY <1>2, <1>7, <2>4 DEF Is
      <3>2. r.sent[i].item = q.message /\ r.sent[i].item < r.nextItem /\ r.sent[i].item \in Nat
        BY <1>6, <2>4, <3>1 DEF Is
      <3>3. q.message = r.message
        BY <1>4, <3>2
      <3>4. PICK k \in DOMAIN r.sent : Is(r, k, "text.done", r.message) /\ k + 2 <= i
        BY <1>1, <1>2, <3>1, <3>2, <3>3 DEF DoneKept, Is
      <3>. QED BY <1>2, <1>3, <3>3, <3>4 DEF Is
    <2>. QED BY <2>1, <2>2, <2>3, <2>4 DEF DoneKept
  <1>11. Fresh(r) => Fresh(q)
    <2>1. ASSUME Fresh(r), NEW i \in DOMAIN q.sent, q.sent[i].ev = "item.done" PROVE q.sent[i].item # q.message
      <3>1. i \in 1..n /\ r.sent[i].ev = "item.done" /\ r.sent[i] = q.sent[i]
        BY <1>2, <1>7, <2>1
      <3>2. r.sent[i].item # r.message
        BY <1>2, <2>1, <3>1 DEF Fresh
      <3>3. r.sent[i].item < r.nextItem /\ r.sent[i].item \in Nat
        BY <1>6, <3>1
      <3>. QED BY <1>4, <3>1, <3>2, <3>3
    <2>. QED BY <2>1 DEF Fresh
  <1>12. q.sent # <<>> /\ Is(q, n + 1, "item.added", r.nextItem) /\ n + 1 \in DOMAIN q.sent
    BY <1>2, <1>3 DEF Is
  <1>13. open # q.message
    BY <1>4
  <1>. QED BY <1>2, <1>8, <1>9, <1>10, <1>11, <1>12, <1>13 DEF Well

\* The call that is open is done.
EndsCall(r, q, e, open) ==
    /\ Stays(r, q, e) /\ q.part = r.part /\ e.ev = "item.done" /\ e.item = open
    /\ open # 0 /\ open # r.message /\ \E i \in DOMAIN r.sent : Is(r, i, "item.added", open)

LEMMA CallEnded ==
    ASSUME NEW open \in Nat, NEW r \in Runtimes, Well(r, open), NEW e \in Utterances, NEW q, EndsCall(r, q, e, open)
    PROVE  Well(q, 0) /\ (Fresh(r) => Fresh(q)) /\ q.sent # <<>>
  <1>. DEFINE n == Len(r.sent)
  <1>. USE DEF EndsCall, Stays
  <1>1. r.visible = DeltasOf(r.sent) /\ MessageKept(r) /\ CallsKept(r) /\ AddedKept(r) /\ DoneKept(r, open)
    BY DEF Well
  <1>2. /\ n \in Nat /\ DOMAIN r.sent = 1..n /\ DOMAIN q.sent = 1..(n + 1) /\ q.sent[n + 1] = e
        /\ (\A i \in 1..n : q.sent[i] = r.sent[i]) /\ (\A i \in 1..(n + 1) : i \in 1..n \/ i = n + 1)
        /\ q.visible = DeltasOf(q.sent)
    BY <1>1, OneMore
  <1>. HIDE DEF n
  <1>3. (\A i \in 1..n : i \in 1..(n + 1) /\ i <= n + 1) /\ n + 1 \in 1..(n + 1)
    BY <1>2
  <1>4. MessageKept(q) /\ CallsKept(q)
    BY <1>1, <1>2, <1>3 DEF MessageKept, CallsKept, Is
  <1>5. AddedKept(q)
    BY <1>1, AddedStays
  <1>6. DoneKept(q, 0)
    <2>1. ASSUME NEW i \in DOMAIN q.sent, q.sent[i].item \notin {0, q.message}
          PROVE  \E k \in DOMAIN q.sent : Is(q, k, "item.done", q.sent[i].item)
      <3>1. CASE q.sent[i].item = open
        BY <1>2, <1>3, <3>1 DEF Is
      <3>2. CASE q.sent[i].item # open
        <4>1. i \in 1..n
          BY <1>2, <3>2
        <4>2. PICK k \in 1..n : Is(r, k, "item.done", r.sent[i].item)
          BY <1>1, <1>2, <2>1, <3>2, <4>1 DEF DoneKept
        <4>. QED BY <1>2, <1>3, <4>1, <4>2 DEF Is
      <3>. QED BY <3>1, <3>2
    <2>2. ASSUME NEW i \in DOMAIN q.sent, NEW j \in DOMAIN q.sent,
                 q.sent[i].ev = "item.done", q.sent[i].item # q.message, q.sent[j].item = q.sent[i].item
          PROVE  j <= i
      <3>1. CASE i = n + 1
        BY <1>2, <3>1
      <3>2. CASE i \in 1..n
        <4>1. r.sent[i].ev = "item.done" /\ r.sent[i].item # open /\ r.sent[i] = q.sent[i]
          BY <1>1, <1>2, <2>2, <3>2 DEF DoneKept
        <4>2. j \in 1..n /\ r.sent[j] = q.sent[j]
          BY <1>2, <2>2, <4>1
        <4>. QED BY <1>1, <1>2, <2>2, <3>2, <4>1, <4>2 DEF DoneKept
      <3>. QED BY <1>2, <3>1, <3>2
    <2>3. \A i \in DOMAIN q.sent : q.sent[i].ev = "item.done" => q.sent[i].item # 0
      <3>1. ASSUME NEW i \in DOMAIN q.sent, q.sent[i].ev = "item.done" PROVE q.sent[i].item # 0
        <4>1. CASE i \in 1..n
          BY <1>1, <1>2, <3>1, <4>1 DEF DoneKept
        <4>2. CASE i = n + 1
          BY <1>2, <4>2
        <4>. QED BY <1>2, <4>1, <4>2
      <3>. QED BY <3>1
    <2>4. ASSUME NEW i \in DOMAIN q.sent, Is(q, i, "item.done", q.message)
          PROVE  \E k \in DOMAIN q.sent : Is(q, k, "text.done", q.message) /\ k + 2 <= i
      <3>1. i \in DOMAIN r.sent /\ Is(r, i, "item.done", r.message)
        BY <1>2, <2>4 DEF Is
      <3>2. PICK k \in DOMAIN r.sent : Is(r, k, "text.done", r.message) /\ k + 2 <= i
        BY <1>1, <3>1 DEF DoneKept
      <3>. QED BY <1>2, <1>3, <3>2 DEF Is
    <2>. QED BY <2>1, <2>2, <2>3, <2>4 DEF DoneKept
  <1>7. Fresh(r) => Fresh(q)
    BY <1>2 DEF Fresh
  <1>8. q.sent # <<>>
    BY <1>2, <1>3
  <1>. QED BY <1>2, <1>4, <1>5, <1>6, <1>7, <1>8 DEF Well

\* The message is done, after its text.
EndsMessage(r, q, e) ==
    /\ Stays(r, q, e) /\ r.added /\ ~q.part /\ e.ev = "item.done" /\ e.item = r.message
    /\ \E i \in DOMAIN r.sent : Is(r, i, "text.done", r.message) /\ i + 1 <= Len(r.sent)

LEMMA MessageEnded ==
    ASSUME NEW r \in Runtimes, Well(r, 0), NEW e \in Utterances, NEW q, EndsMessage(r, q, e)
    PROVE  Well(q, 0) /\ MessageDone(q) /\ (Fresh(r) => DoneLast(q)) /\ q.sent # <<>>
  <1>. DEFINE n == Len(r.sent)
  <1>. USE DEF EndsMessage, Stays
  <1>1. r.visible = DeltasOf(r.sent) /\ MessageKept(r) /\ CallsKept(r) /\ AddedKept(r) /\ DoneKept(r, 0)
    BY DEF Well
  <1>2. /\ n \in Nat /\ DOMAIN r.sent = 1..n /\ DOMAIN q.sent = 1..(n + 1) /\ q.sent[n + 1] = e
        /\ (\A i \in 1..n : q.sent[i] = r.sent[i]) /\ (\A i \in 1..(n + 1) : i \in 1..n \/ i = n + 1)
        /\ q.visible = DeltasOf(q.sent)
    BY <1>1, OneMore
  <1>3. \A i \in DOMAIN r.sent : r.sent[i].item # 0 => \E k \in 1..i : Is(r, k, "item.added", r.sent[i].item)
    BY <1>1 DEF AddedKept
  <1>4. PICK k \in DOMAIN r.sent : Is(r, k, "text.done", r.message) /\ k + 1 <= n
    OBVIOUS
  <1>. HIDE DEF n
  <1>5. (\A i \in 1..n : i \in 1..(n + 1) /\ i <= n + 1) /\ n + 1 \in 1..(n + 1) /\ k + 2 <= n + 1
    BY <1>2, <1>4
  <1>6. r.message # 0
    BY <1>1 DEF MessageKept
  <1>7. \E i \in DOMAIN r.sent : Is(r, i, "item.added", e.item)
    <2>1. PICK i \in 1..k : Is(r, i, "item.added", r.sent[k].item)
      BY <1>3, <1>4, <1>6 DEF Is
    <2>2. i \in 1..n
      BY <1>2, <1>4
    <2>. QED BY <1>2, <1>4, <2>1, <2>2 DEF Is
  <1>8. MessageKept(q) /\ CallsKept(q) /\ MessageDone(q)
    BY <1>1, <1>2, <1>5 DEF MessageKept, CallsKept, MessageDone, Is
  <1>9. AddedKept(q)
    BY <1>1, <1>7, AddedStays
  <1>10. DoneKept(q, 0)
    <2>1. ASSUME NEW i \in DOMAIN q.sent, q.sent[i].item \notin {0, q.message}
          PROVE  \E z \in DOMAIN q.sent : Is(q, z, "item.done", q.sent[i].item)
      <3>1. i \in 1..n
        BY <1>2, <2>1
      <3>2. PICK z \in 1..n : Is(r, z, "item.done", r.sent[i].item)
        BY <1>1, <1>2, <2>1, <3>1 DEF DoneKept
      <3>. QED BY <1>2, <1>5, <3>1, <3>2 DEF Is
    <2>2. ASSUME NEW i \in DOMAIN q.sent, NEW j \in DOMAIN q.sent,
                 q.sent[i].ev = "item.done", q.sent[i].item # q.message, q.sent[j].item = q.sent[i].item
          PROVE  j <= i
      <3>1. i \in 1..n /\ j \in 1..n
        BY <1>2, <2>2
      <3>. QED BY <1>1, <1>2, <2>2, <3>1 DEF DoneKept
    <2>3. \A i \in DOMAIN q.sent : q.sent[i].ev = "item.done" => q.sent[i].item # 0
      <3>1. ASSUME NEW i \in DOMAIN q.sent, q.sent[i].ev = "item.done" PROVE q.sent[i].item # 0
        <4>1. CASE i \in 1..n
          BY <1>1, <1>2, <3>1, <4>1 DEF DoneKept
        <4>2. CASE i = n + 1
          BY <1>2, <1>6, <4>2
        <4>. QED BY <1>2, <4>1, <4>2
      <3>. QED BY <3>1
    <2>4. ASSUME NEW i \in DOMAIN q.sent, Is(q, i, "item.done", q.message)
          PROVE  \E z \in DOMAIN q.sent : Is(q, z, "text.done", q.message) /\ z + 2 <= i
      <3>1. CASE i \in 1..n
        <4>1. Is(r, i, "item.done", r.message)
          BY <1>2, <2>4, <3>1 DEF Is
        <4>2. PICK z \in DOMAIN r.sent : Is(r, z, "text.done", r.message) /\ z + 2 <= i
          BY <1>1, <1>2, <3>1, <4>1 DEF DoneKept
        <4>. QED BY <1>2, <1>5, <4>2 DEF Is
      <3>2. CASE i = n + 1
        BY <1>2, <1>4, <1>5, <3>2 DEF Is
      <3>. QED BY <1>2, <3>1, <3>2
    <2>. QED BY <2>1, <2>2, <2>3, <2>4 DEF DoneKept
  <1>11. Fresh(r) => DoneLast(q)
    <2>1. ASSUME Fresh(r), NEW i \in DOMAIN q.sent, NEW j \in DOMAIN q.sent, Is(q, i, "item.done", q.message)
          PROVE  j <= i
      <3>1. i = n + 1
        BY <1>2, <2>1 DEF Fresh, Is
      <3>. QED BY <1>2, <3>1
    <2>. QED BY <2>1 DEF DoneLast
  <1>12. q.sent # <<>>
    BY <1>2, <1>5
  <1>. QED BY <1>2, <1>8, <1>9, <1>10, <1>11, <1>12 DEF Well

\* Nothing is kept of what is not about events.
LEMMA Unheard ==
    ASSUME NEW open, NEW first \in BOOLEAN, NEW r \in Kept(open, first), NEW q \in Runtimes,
           q.sent = r.sent, q.visible = r.visible, q.nextItem = r.nextItem, q.nextOutput = r.nextOutput,
           q.message = r.message, q.index = r.index, q.added = r.added, q.part = r.part,
           q.functions \in {r.functions, <<>>}
    PROVE  q \in Kept(open, first)
  <1>1. Well(r, open) /\ (first => Fresh(r))
    BY DEF Kept
  <1>2. MessageKept(q) /\ AddedKept(q) /\ DoneKept(q, open) /\ q.visible = DeltasOf(q.sent) /\ (first => Fresh(q))
    BY <1>1 DEF Well, MessageKept, AddedKept, DoneKept, Is, Fresh
  <1>3. CallsKept(q)
    <2>1. DOMAIN <<>> = {}
      OBVIOUS
    <2>. QED BY <1>1, <2>1 DEF Well, CallsKept
  <1>. QED BY <1>2, <1>3 DEF Kept, Well

-----------------------------------------------------------------------------
\* The runtime's operations keep what is kept

LEMMA EventTyped ==
    ASSUME NEW ev \in Names, NEW item \in Nat, NEW index \in Int, NEW text \in Text
    PROVE  Event(ev, item, index, text) \in Utterances
  BY DEF Event, Utterances

\* An event of the response, or of an item that is there.
LEMMA EventTold ==
    ASSUME NEW first \in BOOLEAN, NEW open \in Nat, NEW r \in Kept(open, first), NEW ev \in Names \ {"item.added", "item.done", "text.delta"},
           NEW item \in {0, r.message, open}, NEW index \in Int, NEW text \in Text,
           item # 0 => \E i \in DOMAIN r.sent : Is(r, i, "item.added", item)
    PROVE  LET q == sendEvent(r, ev, item, index, text)
           IN  /\ q \in Kept(open, first) /\ q.sent # <<>> /\ q.sent = Append(r.sent, Event(ev, item, index, text))
               /\ q.message = r.message /\ q.index = r.index /\ q.added = r.added /\ q.part = r.part
               /\ q.visible = r.visible /\ q.nextItem = r.nextItem /\ q.nextOutput = r.nextOutput
  <1>. DEFINE e == Event(ev, item, index, text)
              q == sendEvent(r, ev, item, index, text)
  <1>1. r \in Runtimes /\ Well(r, open) /\ (first => Fresh(r)) /\ item \in Nat
    <2>1. r \in Runtimes /\ Well(r, open) /\ (first => Fresh(r))
      BY DEF Kept
    <2>2. r.message \in Nat
      BY <2>1 DEF Runtimes
    <2>. QED BY <2>1, <2>2
  <1>2. e \in Utterances /\ e.ev = ev /\ e.item = item
    BY <1>1, EventTyped DEF Event
  <1>. HIDE DEF e
  <1>3. Append(r.sent, e) \in Seq(Utterances) /\ r.visible \o Delta(e) = r.visible
    BY <1>1, <1>2, DeltaTyped
  <1>4. q = [r EXCEPT !.sent = Append(r.sent, e)]
    BY <1>1 DEF sendEvent, Runtimes, e
  <1>5. q \in Runtimes
    BY <1>1, <1>3, <1>4 DEF Runtimes
  <1>6. /\ q.sent = Append(r.sent, e) /\ q.visible = r.visible /\ q.nextItem = r.nextItem /\ q.nextOutput = r.nextOutput
        /\ q.message = r.message /\ q.index = r.index /\ q.added = r.added /\ q.functions = r.functions
        /\ q.part = r.part
    BY <1>1, <1>4 DEF Runtimes
  <1>. HIDE DEF q
  <1>7. Says(r, q, e, open)
    <2>1. Adds(r, q, e)
      BY <1>3, <1>6 DEF Adds
    <2>2. Stays(r, q, e)
      BY <1>6, <2>1 DEF Stays
    <2>3. /\ e.ev \notin {"item.added", "item.done"} /\ e.item \in {0, r.message, open}
          /\ e.item # 0 => \E i \in DOMAIN r.sent : Is(r, i, "item.added", e.item)
      BY <1>2
    <2>. QED BY <1>6, <2>2, <2>3 DEF Says
  <1>8. Well(q, open) /\ (Fresh(r) => Fresh(q)) /\ q.sent # <<>>
    BY <1>1, <1>2, <1>7, Spoken
  <1>9. q \in Kept(open, first)
    BY <1>1, <1>5, <1>8 DEF Kept
  <1>. QED BY <1>6, <1>8, <1>9 DEF q, e

LEMMA PartOpened ==
    ASSUME NEW first \in BOOLEAN, NEW r \in Kept(0, first), r.added
    PROVE  LET q == [r EXCEPT !.part = TRUE]
           IN  /\ q \in Kept(0, first) /\ q.sent = r.sent /\ q.added /\ q.part /\ q.message = r.message
               /\ q.index = r.index /\ q.visible = r.visible
  <1>. DEFINE q == [r EXCEPT !.part = TRUE]
  <1>1. r \in Runtimes /\ Well(r, 0) /\ (first => Fresh(r))
    BY DEF Kept
  <1>2. q \in Runtimes
    BY <1>1 DEF Runtimes
  <1>3. /\ q.sent = r.sent /\ q.visible = r.visible /\ q.nextItem = r.nextItem /\ q.nextOutput = r.nextOutput
        /\ q.message = r.message /\ q.index = r.index /\ q.added = r.added /\ q.functions = r.functions /\ q.part
    BY <1>1 DEF Runtimes
  <1>. HIDE DEF q
  <1>4. MessageKept(q) /\ CallsKept(q) /\ AddedKept(q) /\ DoneKept(q, 0) /\ (first => Fresh(q))
    BY <1>1, <1>3 DEF Well, MessageKept, CallsKept, AddedKept, DoneKept, Fresh, Is
  <1>5. q \in Kept(0, first)
    BY <1>1, <1>2, <1>3, <1>4 DEF Kept, Well
  <1>. QED BY <1>3, <1>5 DEF q

\* The message under the next number and at the next place.
LEMMA MessageAdmitted ==
    ASSUME NEW first \in BOOLEAN, NEW r \in Kept(0, first), ~r.added
    PROVE  LET q == ensureMessageItemAdded(r)
           IN  /\ q \in Runtimes /\ q.added /\ [q EXCEPT !.part = TRUE] \in Kept(0, first)
               /\ q.visible = r.visible /\ q.sent # <<>>
  <1>. DEFINE e == Event("item.added", r.nextItem, r.nextOutput, <<>>)
              s == Append(r.sent, e)
              m == [[r EXCEPT !.message = r.nextItem, !.nextItem = @ + 1] EXCEPT !.index = r.nextOutput, !.nextOutput = @ + 1]
              a == [[m EXCEPT !.sent = s] EXCEPT !.added = TRUE]
              q == [a EXCEPT !.part = TRUE]
  <1>1. r \in Runtimes /\ Well(r, 0) /\ (first => Fresh(r)) /\ MessageKept(r) /\ CallsKept(r)
    BY DEF Kept, Well
  <1>2. r.nextItem \in Nat /\ r.nextOutput \in Nat /\ r.nextItem + 1 \in Nat /\ r.nextOutput + 1 \in Nat /\ r.nextItem > 0
        /\ r.functions \in Seq(Spots)
    BY <1>1 DEF Runtimes, MessageKept
  <1>3. ~r.added /\ r.message = 0 /\ r.index = -1 /\ ~r.part
    BY <1>1 DEF MessageKept
  <1>4. e \in Utterances /\ e.ev = "item.added" /\ e.item = r.nextItem /\ e.index = r.nextOutput
    BY <1>2, TextTyped DEF Event, Utterances, Names
  <1>5. s \in Seq(Utterances) /\ r.visible \o Delta(e) = r.visible
    BY <1>1, <1>4, DeltaTyped DEF e
  <1>6. m \in Runtimes /\ m.message = r.nextItem /\ m.index = r.nextOutput /\ m.sent = r.sent /\ m = ensureMessageItem(r)
        /\ m.visible = r.visible /\ m.nextItem = r.nextItem + 1 /\ m.nextOutput = r.nextOutput + 1 /\ m.functions = r.functions
    <2>1. ~(r.message > 0) /\ ~(r.index >= 0)
      BY <1>3
    <2>2. m = ensureMessageItem(r)
      BY <2>1 DEF ensureMessageItem
    <2>. DEFINE z == [r EXCEPT !.message = r.nextItem, !.nextItem = @ + 1]
    <2>3. z \in Runtimes /\ z.message = r.nextItem /\ z.index = r.index /\ z.sent = r.sent /\ z.visible = r.visible
          /\ z.nextItem = r.nextItem + 1 /\ z.nextOutput = r.nextOutput /\ z.functions = r.functions
      BY <1>1, <1>2 DEF Runtimes
    <2>4. m = [z EXCEPT !.index = r.nextOutput, !.nextOutput = @ + 1]
      OBVIOUS
    <2>. HIDE DEF z, m
    <2>5. z.nextOutput + 1 \in Nat /\ r.nextOutput \in Int
      BY <1>2, <2>3
    <2>6. m \in Runtimes
      BY <2>3, <2>4, <2>5 DEF Runtimes
    <2>7. /\ m.message = z.message /\ m.index = r.nextOutput /\ m.sent = z.sent /\ m.visible = z.visible
          /\ m.nextItem = z.nextItem /\ m.nextOutput = z.nextOutput + 1 /\ m.functions = z.functions
      BY <2>3, <2>4 DEF Runtimes
    <2>. QED BY <2>2, <2>3, <2>6, <2>7
  <1>. HIDE DEF m
  <1>7. ensureMessageItemAdded(r) = [[m EXCEPT !.sent = Append(m.sent, Event("item.added", m.message, m.index, <<>>))] EXCEPT !.added = TRUE]
    BY <1>3, <1>6 DEF ensureMessageItemAdded, sendEvent, Runtimes
  <1>8. ensureMessageItemAdded(r) = a
    BY <1>6, <1>7 DEF e
  <1>. HIDE DEF e, s
  <1>9. a \in Runtimes /\ a.added /\ a.visible = r.visible /\ q \in Runtimes
    BY <1>5, <1>6 DEF Runtimes
  <1>10. /\ q.sent = s /\ q.visible = r.visible /\ q.nextItem = r.nextItem + 1 /\ q.nextOutput = r.nextOutput + 1
         /\ q.message = r.nextItem /\ q.index = r.nextOutput /\ q.added /\ q.part /\ q.functions = r.functions /\ a.sent = s
    BY <1>6 DEF Runtimes
  <1>. HIDE DEF a, q
  <1>11. CallsKept(q)
    <2>1. ASSUME NEW i \in DOMAIN r.functions, r.functions[i].item < r.nextItem, r.functions[i].index < r.nextOutput
          PROVE  r.functions[i].item < r.nextItem + 1 /\ r.functions[i].index < r.nextOutput + 1
      <3>1. r.functions[i] \in Spots
        BY <1>2, Members
      <3>2. r.functions[i].item \in Nat /\ r.functions[i].index \in Int
        BY <3>1 DEF Spots
      <3>. QED BY <1>2, <2>1, <3>2
    <2>. QED BY <1>1, <1>10, <2>1 DEF CallsKept
  <1>12. Admits(r, q, e, 0)
    <2>1. Adds(r, q, e)
      BY <1>5, <1>10 DEF Adds, s
    <2>. QED BY <1>3, <1>4, <1>10, <1>11, <2>1 DEF Admits
  <1>13. Well(q, 0) /\ (Fresh(r) => Fresh(q)) /\ q.sent # <<>>
    BY <1>1, <1>4, <1>12, Admitted
  <1>14. q \in Kept(0, first)
    BY <1>1, <1>9, <1>13 DEF Kept
  <1>. QED BY <1>8, <1>9, <1>10, <1>13, <1>14 DEF q

Live(first) == {r \in Kept(0, first) : r.sent # <<>>}

LEMMA MessageThere ==
    ASSUME NEW first \in BOOLEAN, NEW r \in Kept(0, first), r.added
    PROVE  /\ r.message \in Nat /\ r.message > 0 /\ r.index \in Int /\ r.index >= 0 /\ r.sent # <<>>
           /\ \E i \in DOMAIN r.sent : Is(r, i, "item.added", r.message)
           /\ ensureMessageItem(r) = r
  <1>1. r \in Runtimes /\ MessageKept(r)
    BY DEF Kept, Well
  <1>2. r.message \in Nat /\ r.message > 0 /\ r.index \in Int /\ r.index >= 0
    BY <1>1 DEF MessageKept, Runtimes
  <1>3. \E i \in DOMAIN r.sent : Is(r, i, "item.added", r.message)
    BY <1>1 DEF MessageKept
  <1>4. ensureMessageItem(r) = r
    BY <1>2 DEF ensureMessageItem
  <1>. QED BY <1>2, <1>3, <1>4

LEMMA ContentPartAdded ==
    ASSUME NEW first \in BOOLEAN, NEW r \in Kept(0, first)
    PROVE  LET q == ensureMessageContentPartAdded(r)
           IN  q \in Live(first) /\ q.added /\ q.part /\ q.visible = r.visible
  <1>. DEFINE m == ensureMessageItemAdded(r)
              p == [m EXCEPT !.part = TRUE]
              w == sendEvent(p, "part.added", p.message, p.index, <<>>)
              q == ensureMessageContentPartAdded(r)
  <1>1. r \in Runtimes /\ MessageKept(r)
    BY DEF Kept, Well
  <1>2. r.part => r.added
    BY <1>1 DEF MessageKept
  <1>3. /\ m \in Runtimes /\ m.added /\ m.visible = r.visible /\ m.sent # <<>> /\ p \in Kept(0, first)
        /\ r.part => m = r
    <2>1. CASE r.added
      <3>1. m = r
        BY <2>1, MessageThere DEF ensureMessageItemAdded
      <3>. QED BY <1>1, <2>1, <3>1, PartOpened, MessageThere
    <2>2. CASE ~r.added
      BY <1>2, <2>2, MessageAdmitted
    <2>. QED BY <2>1, <2>2
  <1>4. CASE r.part
    <2>1. q = r
      BY <1>4 DEF ensureMessageContentPartAdded
    <2>2. r \in Live(first) /\ r.added
      BY <1>2, <1>4, MessageThere DEF Live
    <2>. QED BY <1>4, <2>1, <2>2
  <1>5. CASE ~r.part
    <2>1. q = [sendEvent(m, "part.added", m.message, m.index, <<>>) EXCEPT !.part = TRUE]
      BY <1>5 DEF ensureMessageContentPartAdded
    <2>. HIDE DEF m, q
    <2>2. q = w /\ p.added /\ p.part /\ p.visible = m.visible
      BY <1>3, <2>1 DEF sendEvent, Runtimes
    <2>. HIDE DEF p, w
    <2>3. "part.added" \in Names \ {"item.added", "item.done", "text.delta"} /\ <<>> \in Text
      BY TextTyped DEF Names
    <2>4. w \in Kept(0, first) /\ w.sent # <<>> /\ w.added = p.added /\ w.part = p.part /\ w.visible = p.visible
      <3>1. p.message \in {0, p.message, 0} /\ p.index \in Int /\ \E i \in DOMAIN p.sent : Is(p, i, "item.added", p.message)
        BY <1>3, <2>2, MessageThere
      <3>. QED BY <1>3, <2>3, <3>1, EventTold DEF w
    <2>5. q \in Live(first) /\ q.added /\ q.part /\ q.visible = r.visible
      BY <1>3, <2>2, <2>4 DEF Live
    <2>. QED BY <2>5 DEF q
  <1>. QED BY <1>4, <1>5 DEF q

LEMMA DeltaTold ==
    ASSUME NEW first \in BOOLEAN, NEW r \in Live(first), NEW s \in Text
    PROVE  emitTextDelta(r, s) \in Live(first)
  <1>. DEFINE m == ensureMessageContentPartAdded(r)
              e == Event("text.delta", m.message, m.index, s)
              q == [[m EXCEPT !.sent = Append(m.sent, e)] EXCEPT !.visible = m.visible \o s]
  <1>1. m \in Kept(0, first) /\ m.added
    BY ContentPartAdded DEF Live
  <1>. HIDE DEF m
  <1>2. m \in Runtimes /\ Well(m, 0) /\ (first => Fresh(m))
    BY <1>1 DEF Kept
  <1>3. m.message \in Nat /\ m.index \in Int /\ \E i \in DOMAIN m.sent : Is(m, i, "item.added", m.message)
    BY <1>1, MessageThere
  <1>4. e \in Utterances /\ e.ev = "text.delta" /\ e.item = m.message /\ e.text = s
    BY <1>3 DEF Event, Utterances, Names
  <1>. HIDE DEF e
  <1>5. Append(m.sent, e) \in Seq(Utterances) /\ m.visible \o s \in Text /\ Delta(e) = s
    BY <1>2, <1>4, DeltaTyped DEF Delta
  <1>6. q \in Runtimes
    BY <1>2, <1>5 DEF Runtimes
  <1>7. /\ q.sent = Append(m.sent, e) /\ q.visible = m.visible \o s /\ q.nextItem = m.nextItem /\ q.nextOutput = m.nextOutput
        /\ q.message = m.message /\ q.index = m.index /\ q.added = m.added /\ q.functions = m.functions /\ q.part = m.part
    BY <1>2 DEF Runtimes
  <1>8. [sendEvent(m, "text.delta", m.message, m.index, s) EXCEPT !.visible = @ \o s] = q
    BY <1>2 DEF sendEvent, Runtimes, e
  <1>. HIDE DEF q
  <1>9. Says(m, q, e, 0)
    <2>1. Stays(m, q, e)
      BY <1>5, <1>7 DEF Stays, Adds
    <2>2. /\ e.ev \notin {"item.added", "item.done"} /\ e.item \in {0, m.message, 0}
          /\ \E i \in DOMAIN m.sent : Is(m, i, "item.added", e.item)
      BY <1>3, <1>4
    <2>. QED BY <1>7, <2>1, <2>2 DEF Says
  <1>10. Well(q, 0) /\ (Fresh(m) => Fresh(q)) /\ q.sent # <<>>
    BY <1>2, <1>4, <1>9, Spoken
  <1>11. q \in Live(first)
    BY <1>2, <1>6, <1>10 DEF Kept, Live
  <1>. QED BY <1>8, <1>11 DEF emitTextDelta, m

LEMMA CallAdmitted ==
    ASSUME NEW first \in BOOLEAN, NEW r \in Live(first)
    PROVE  LET q == ensureFunctionItemAdded(r)
           IN  /\ q \in Kept(r.nextItem, first) /\ r.nextItem # q.message /\ q.sent # <<>>
               /\ \E i \in DOMAIN q.sent : Is(q, i, "item.added", r.nextItem)
  <1>. DEFINE e == Event("item.added", r.nextItem, r.nextOutput, <<>>)
              c == [item |-> r.nextItem, index |-> r.nextOutput]
              s == Append(r.sent, e)
              f == Append(r.functions, c)
              q == ensureFunctionItemAdded(r)
  <1>1. r \in Runtimes /\ Well(r, 0) /\ (first => Fresh(r)) /\ MessageKept(r) /\ CallsKept(r)
    BY DEF Live, Kept, Well
  <1>2. r.nextItem \in Nat /\ r.nextOutput \in Nat /\ r.nextItem + 1 \in Nat /\ r.nextOutput + 1 \in Nat /\ r.nextItem > 0
        /\ r.functions \in Seq(Spots)
    BY <1>1 DEF Runtimes, MessageKept
  <1>3. e \in Utterances /\ e.ev = "item.added" /\ e.item = r.nextItem /\ e.index = r.nextOutput
    BY <1>2, TextTyped DEF Event, Utterances, Names
  <1>4. s \in Seq(Utterances) /\ r.visible \o Delta(e) = r.visible
    BY <1>1, <1>3, DeltaTyped DEF e
  <1>5. c \in Spots /\ f \in Seq(Spots)
    BY <1>2, AppendProperties DEF Spots
  <1>6. q = [[r EXCEPT !.sent = s] EXCEPT !.functions = f, !.nextItem = @ + 1, !.nextOutput = @ + 1]
    BY <1>1 DEF ensureFunctionItemAdded, sendEvent, Runtimes
  <1>. HIDE DEF q, f, s, e
  <1>7. q \in Runtimes
    BY <1>1, <1>2, <1>4, <1>5, <1>6 DEF Runtimes
  <1>8. /\ q.sent = s /\ q.visible = r.visible /\ q.nextItem = r.nextItem + 1 /\ q.nextOutput = r.nextOutput + 1
        /\ q.message = r.message /\ q.index = r.index /\ q.added = r.added /\ q.part = r.part /\ q.functions = f
    BY <1>1, <1>6 DEF Runtimes
  <1>9. CallsKept(q)
    <2>1. Len(r.functions) \in Nat /\ DOMAIN r.functions = 1..Len(r.functions) /\ DOMAIN f = 1..(Len(r.functions) + 1)
          /\ (\A i \in 1..Len(r.functions) : f[i] = r.functions[i] /\ r.functions[i] \in Spots) /\ f[Len(r.functions) + 1] = c
      BY <1>2, <1>5, Members, AppendProperties DEF f
    <2>2. ASSUME NEW i \in DOMAIN f PROVE f[i].item < r.nextItem + 1 /\ f[i].index < r.nextOutput + 1
      <3>1. CASE i \in 1..Len(r.functions)
        <4>1. f[i] = r.functions[i] /\ f[i] \in Spots
          BY <2>1, <3>1
        <4>2. f[i].item \in Nat /\ f[i].index \in Int
          BY <4>1 DEF Spots
        <4>3. f[i].item < r.nextItem /\ f[i].index < r.nextOutput
          BY <1>1, <2>1, <3>1, <4>1 DEF CallsKept
        <4>. QED BY <1>2, <4>2, <4>3
      <3>2. CASE i = Len(r.functions) + 1
        BY <1>2, <2>1, <3>2
      <3>. QED BY <2>1, <3>1, <3>2
    <2>. QED BY <1>8, <2>2 DEF CallsKept
  <1>10. Admits(r, q, e, r.nextItem)
    <2>1. Adds(r, q, e)
      BY <1>4, <1>8 DEF Adds, s
    <2>. QED BY <1>3, <1>8, <1>9, <2>1 DEF Admits
  <1>11. /\ Well(q, r.nextItem) /\ (Fresh(r) => Fresh(q)) /\ q.sent # <<>> /\ r.nextItem # q.message
         /\ \E i \in DOMAIN q.sent : Is(q, i, "item.added", r.nextItem)
    BY <1>1, <1>2, <1>3, <1>10, Admitted
  <1>12. q \in Kept(r.nextItem, first)
    BY <1>1, <1>7, <1>11 DEF Kept
  <1>. QED BY <1>11, <1>12 DEF q

LEMMA CallFinished ==
    ASSUME NEW first \in BOOLEAN, NEW open \in Nat, open # 0, NEW r \in Kept(open, first), open # r.message,
           NEW index \in Int, \E i \in DOMAIN r.sent : Is(r, i, "item.added", open)
    PROVE  [sendEvent(r, "item.done", open, index, <<>>) EXCEPT !.callsDone = TRUE] \in Live(first)
  <1>. DEFINE e == Event("item.done", open, index, <<>>)
              s == Append(r.sent, e)
              q == [[r EXCEPT !.sent = s] EXCEPT !.callsDone = TRUE]
  <1>1. r \in Runtimes /\ Well(r, open) /\ (first => Fresh(r))
    BY DEF Kept
  <1>2. e \in Utterances /\ e.ev = "item.done" /\ e.item = open
    BY TextTyped DEF Event, Utterances, Names
  <1>3. s \in Seq(Utterances) /\ r.visible \o Delta(e) = r.visible
    BY <1>1, <1>2, DeltaTyped DEF e
  <1>4. [sendEvent(r, "item.done", open, index, <<>>) EXCEPT !.callsDone = TRUE] = q
    BY <1>1 DEF sendEvent, Runtimes
  <1>. HIDE DEF e, s
  <1>5. q \in Runtimes
    BY <1>1, <1>3 DEF Runtimes
  <1>6. /\ q.sent = s /\ q.visible = r.visible /\ q.nextItem = r.nextItem /\ q.nextOutput = r.nextOutput
        /\ q.message = r.message /\ q.index = r.index /\ q.added = r.added /\ q.functions = r.functions /\ q.part = r.part
    BY <1>1 DEF Runtimes
  <1>. HIDE DEF q
  <1>7. EndsCall(r, q, e, open)
    <2>1. Stays(r, q, e)
      BY <1>3, <1>6 DEF Stays, Adds, s
    <2>. QED BY <1>2, <1>6, <2>1 DEF EndsCall
  <1>8. Well(q, 0) /\ (Fresh(r) => Fresh(q)) /\ q.sent # <<>>
    BY <1>1, <1>2, <1>7, CallEnded
  <1>9. q \in Live(first)
    BY <1>1, <1>5, <1>8 DEF Kept, Live
  <1>. QED BY <1>4, <1>9

LEMMA CallTold ==
    ASSUME NEW first \in BOOLEAN, NEW r \in Live(first)
    PROVE  NextCall(r) \in Live(first)
  <1>. DEFINE a == ensureFunctionItemAdded(r)
              o == r.nextItem
              b == sendEvent(a, "args.done", o, r.nextOutput, <<>>)
  <1>1. r.nextItem \in Nat /\ r.nextItem > 0 /\ r.nextOutput \in Nat /\ r.nextOutput \in Int
    BY DEF Live, Kept, Well, MessageKept, Runtimes
  <1>2. a \in Kept(o, first) /\ o # a.message /\ \E i \in DOMAIN a.sent : Is(a, i, "item.added", o)
    BY CallAdmitted
  <1>3. NextCall(r) = [sendEvent(b, "item.done", o, r.nextOutput, <<>>) EXCEPT !.callsDone = TRUE]
    BY DEF NextCall, CallDone
  <1>. HIDE DEF a, o
  <1>4. "args.done" \in Names \ {"item.added", "item.done", "text.delta"} /\ <<>> \in Text /\ o \in {0, a.message, o} /\ o \in Nat
    BY <1>1, TextTyped DEF Names, o
  <1>5. b \in Kept(o, first) /\ b.message = a.message /\ b.sent = Append(a.sent, Event("args.done", o, r.nextOutput, <<>>))
    BY <1>1, <1>2, <1>4, EventTold
  <1>6. \E i \in DOMAIN b.sent : Is(b, i, "item.added", o)
    <2>1. PICK i \in DOMAIN a.sent : Is(a, i, "item.added", o)
      BY <1>2
    <2>2. a.sent \in Seq(Utterances)
      BY <1>2 DEF Kept, Runtimes
    <2>3. Event("args.done", o, r.nextOutput, <<>>) \in Utterances
      BY <1>1, <1>4, EventTyped
    <2>4. i \in DOMAIN b.sent /\ b.sent[i] = a.sent[i]
      <3>. DEFINE e == Event("args.done", o, r.nextOutput, <<>>)
      <3>. HIDE DEF e, b
      <3>1. Append(a.sent, e) \in Seq(Utterances) /\ Len(Append(a.sent, e)) = Len(a.sent) + 1
            /\ \A j \in 1..Len(a.sent) : Append(a.sent, e)[j] = a.sent[j]
        BY <2>2, <2>3, AppendProperties DEF e
      <3>2. Len(a.sent) \in Nat /\ i \in 1..Len(a.sent) /\ DOMAIN Append(a.sent, e) = 1..(Len(a.sent) + 1)
        BY <2>2, <3>1, Members
      <3>. QED BY <1>5, <3>1, <3>2 DEF e
    <2>. QED BY <2>1, <2>4 DEF Is
  <1>. HIDE DEF b
  <1>7. [sendEvent(b, "item.done", o, r.nextOutput, <<>>) EXCEPT !.callsDone = TRUE] \in Live(first)
    <2>1. o # 0 /\ o # b.message
      BY <1>1, <1>2, <1>5 DEF o
    <2>. QED BY <1>1, <1>4, <1>5, <1>6, <2>1, CallFinished
  <1>. QED BY <1>3, <1>7

LEMMA CallsTold ==
    ASSUME NEW first \in BOOLEAN, NEW r \in Live(first), NEW calls \in Nat
    PROVE  emitFunctionCallDoneEvents(r, calls) \in Live(first)
  <1>. DEFINE T == Live(first)
              n == Len([j \in 1..calls |-> j])
              Next(i, x) == IF [j \in 1..calls |-> j][i] <= Len(r.functions) THEN x ELSE NextCall(x)
              F == [p \in (1..n) \X T |-> Next(p[1], p[2])]
              Rec(h) == h = [i \in 0..n |-> IF i = 0 THEN r ELSE Next(i, h[i - 1])]
  <1>1. n \in Nat /\ r \in T
    <2>1. [j \in 1..calls |-> j] \in Seq(Nat)
      OBVIOUS
    <2>. QED BY <2>1, Members
  <1>2. ASSUME NEW i \in 1..n, NEW x \in T PROVE Next(i, x) \in T
    BY CallTold
  <1>. HIDE DEF Next, T, n
  <1>3. F \in [(1..n) \X T -> T] /\ \A i \in 1..n, x \in T : F[<<i, x>>] = Next(i, x)
    BY <1>2
  <1>. HIDE DEF F
  <1>4. PICK g \in [0..n -> T] : Runs(r, F, n, g)
    BY <1>1, <1>3, RunsExist
  <1>5. Rec(g)
    <2>1. ASSUME NEW i \in 0..n PROVE g[i] = IF i = 0 THEN r ELSE Next(i, g[i - 1])
      <3>1. i # 0 => i \in 1..n /\ i - 1 \in 0..n
        BY <1>1
      <3>. QED BY <1>3, <1>4, <3>1 DEF Runs
    <2>. QED BY <1>4, <2>1
  <1>6. PICK h : Rec(h) /\ emitFunctionCallDoneEvents(r, calls) = h[n]
    BY <1>5 DEF emitFunctionCallDoneEvents, Over, Next, n
  <1>7. Follows(T, r, F, n, h)
    <2>1. h[0] = r
      BY <1>1, <1>6
    <2>2. ASSUME NEW i \in 1..n, h[i - 1] \in T PROVE h[i] = Next(i, h[i - 1])
      <3>1. i \in 0..n /\ i # 0
        BY <1>1
      <3>. QED BY <1>6, <3>1
    <2>. QED BY <1>3, <2>1, <2>2 DEF Follows
  <1>8. n \in 0..n
    BY <1>1
  <1>. HIDE DEF Rec
  <1>9. \A i \in 0..n : h[i] \in T
    BY <1>1, <1>3, <1>7, RunsTyped
  <1>. QED BY <1>6, <1>8, <1>9 DEF T

LEMMA MessageEventTold ==
    ASSUME NEW first \in BOOLEAN, NEW r \in Kept(0, first), r.added,
           NEW ev \in Names \ {"item.added", "item.done", "text.delta"}, NEW text \in Text
    PROVE  LET q == sendEvent(r, ev, r.message, r.index, text)
           IN  /\ q \in Kept(0, first) /\ q.sent = Append(r.sent, Event(ev, r.message, r.index, text))
               /\ q.message = r.message /\ q.index = r.index /\ q.added /\ q.part = r.part
               /\ q.visible = r.visible
  <1>1. r.message \in {0, r.message, 0} /\ r.index \in Int /\ \E i \in DOMAIN r.sent : Is(r, i, "item.added", r.message)
    BY MessageThere
  <1>. QED BY <1>1, EventTold

\* The message is done with what was streamed of it.
LEMMA MessageClosed ==
    ASSUME NEW first \in BOOLEAN, NEW r \in Live(first)
    PROVE  LET q == closeMessageItem(r)
           IN  /\ q \in Live(FALSE) /\ MessageDone(q) /\ (first => DoneLast(q))
  <1>. DEFINE q == closeMessageItem(r)
  <1>1. r \in Runtimes /\ Well(r, 0) /\ (first => Fresh(r)) /\ MessageKept(r) /\ DoneKept(r, 0) /\ r.sent # <<>>
        /\ r \in Kept(0, first)
    BY DEF Live, Kept, Well
  <1>2. ASSUME NEW z \in Runtimes, Well(z, 0), first => Fresh(z), NEW e \in Utterances, EndsMessage(z, q, e), q \in Runtimes
        PROVE  q \in Live(FALSE) /\ MessageDone(q) /\ (first => DoneLast(q))
    <2>. HIDE DEF q
    <2>1. Well(q, 0) /\ MessageDone(q) /\ (Fresh(z) => DoneLast(q)) /\ q.sent # <<>>
      BY <1>2, MessageEnded
    <2>. QED BY <1>2, <2>1 DEF Live, Kept
  <1>3. CASE ~r.added
    <2>1. q = r
      BY <1>3 DEF closeMessageItem
    <2>2. MessageDone(r)
      BY <1>3 DEF MessageDone
    <2>3. r.message = 0
      BY <1>1, <1>3 DEF MessageKept
    <2>4. DoneLast(r)
      BY <1>1, <2>3 DEF DoneLast, DoneKept, Is
    <2>. QED BY <1>1, <2>1, <2>2, <2>4 DEF Live, Kept
  <1>4. CASE r.added /\ ~r.part
    <2>. DEFINE e == Event("item.done", r.message, r.index, r.visible)
    <2>1. r.message \in Nat /\ r.index \in Int /\ r.visible \in Text
      BY <1>1 DEF Runtimes
    <2>2. e \in Utterances /\ e.ev = "item.done" /\ e.item = r.message
      BY <2>1 DEF Event, Utterances, Names
    <2>3. q = [r EXCEPT !.sent = Append(r.sent, e)]
      BY <1>1, <1>4 DEF closeMessageItem, ClosePart, sendEvent, Runtimes
    <2>. HIDE DEF e
    <2>4. Append(r.sent, e) \in Seq(Utterances) /\ r.visible \o Delta(e) = r.visible
      BY <1>1, <2>2, DeltaTyped
    <2>. HIDE DEF q
    <2>5. q \in Runtimes
      BY <1>1, <2>3, <2>4 DEF Runtimes
    <2>6. /\ q.sent = Append(r.sent, e) /\ q.visible = r.visible /\ q.nextItem = r.nextItem /\ q.nextOutput = r.nextOutput
          /\ q.message = r.message /\ q.index = r.index /\ q.added = r.added /\ q.functions = r.functions /\ q.part = r.part
      BY <1>1, <2>3 DEF Runtimes
    <2>7. \E i \in DOMAIN r.sent : Is(r, i, "text.done", r.message) /\ i + 1 <= Len(r.sent)
      <3>1. PICK j \in DOMAIN r.sent : Is(r, j, "item.done", r.message)
        BY <1>1, <1>4 DEF MessageKept
      <3>2. PICK k \in DOMAIN r.sent : Is(r, k, "text.done", r.message) /\ k + 2 <= j
        BY <1>1, <3>1 DEF DoneKept
      <3>3. Len(r.sent) \in Nat /\ DOMAIN r.sent = 1..Len(r.sent)
        BY <1>1, Members DEF Runtimes
      <3>. QED BY <3>1, <3>2, <3>3
    <2>8. Stays(r, q, e)
      BY <2>4, <2>6 DEF Stays, Adds
    <2>9. EndsMessage(r, q, e)
      BY <1>4, <2>2, <2>6, <2>7, <2>8 DEF EndsMessage
    <2>10. q \in Live(FALSE) /\ MessageDone(q) /\ (first => DoneLast(q))
      BY <1>1, <1>2, <2>2, <2>5, <2>9
    <2>. QED BY <2>10 DEF q
  <1>5. CASE r.added /\ r.part
    <2>. DEFINE t == sendEvent(r, "text.done", r.message, r.index, r.visible)
                p == sendEvent(t, "part.done", r.message, r.index, r.visible)
                e == Event("item.done", r.message, r.index, r.visible)
    <2>1. r.message \in Nat /\ r.index \in Int /\ r.visible \in Text /\ \E i \in DOMAIN r.sent : Is(r, i, "item.added", r.message)
      BY <1>1, <1>5, MessageThere DEF Runtimes
    <2>2. "text.done" \in Names \ {"item.added", "item.done", "text.delta"}
          /\ "part.done" \in Names \ {"item.added", "item.done", "text.delta"}
      BY DEF Names
    <2>3. t \in Kept(0, first) /\ t.sent = Append(r.sent, Event("text.done", r.message, r.index, r.visible))
          /\ t.message = r.message /\ t.index = r.index /\ t.added /\ t.part = r.part /\ t.visible = r.visible
      <3>1. r \in Kept(0, first) /\ r.added /\ r.visible \in Text
        BY <1>1, <1>5, <2>1
      <3>2. LET z == sendEvent(r, "text.done", r.message, r.index, r.visible)
            IN  z \in Kept(0, first) /\ z.sent = Append(r.sent, Event("text.done", r.message, r.index, r.visible))
                /\ z.message = r.message /\ z.index = r.index /\ z.added /\ z.part = r.part /\ z.visible = r.visible
        BY <2>2, <3>1, MessageEventTold
      <3>. QED BY <3>2
    <2>4. p = sendEvent(t, "part.done", t.message, t.index, t.visible) /\ t.visible \in Text
      BY <2>1, <2>3
    <2>. HIDE DEF t, p
    <2>5. p \in Kept(0, first) /\ p.sent = Append(t.sent, Event("part.done", r.message, r.index, r.visible))
          /\ p.message = t.message /\ p.added /\ p.part = t.part
      <3>1. LET z == sendEvent(t, "part.done", t.message, t.index, t.visible)
            IN  z \in Kept(0, first) /\ z.sent = Append(t.sent, Event("part.done", t.message, t.index, t.visible))
                /\ z.message = t.message /\ z.added /\ z.part = t.part
        BY <2>2, <2>3, <2>4, MessageEventTold
      <3>. QED BY <2>3, <2>4, <3>1
    <2>6. q = [[p EXCEPT !.part = FALSE] EXCEPT !.sent = Append([p EXCEPT !.part = FALSE].sent, e)]
      BY <1>5 DEF closeMessageItem, ClosePart, sendEvent, t, p
    <2>7. p \in Runtimes /\ Well(p, 0) /\ (first => Fresh(p))
      BY <2>5 DEF Kept
    <2>8. e \in Utterances /\ e.ev = "item.done" /\ e.item = p.message
      BY <2>1, <2>3, <2>5 DEF Event, Utterances, Names
    <2>. HIDE DEF e, q
    <2>9. Append(p.sent, e) \in Seq(Utterances) /\ p.visible \o Delta(e) = p.visible
      BY <2>7, <2>8, DeltaTyped
    <2>10. q = [[p EXCEPT !.part = FALSE] EXCEPT !.sent = Append(p.sent, e)]
      BY <2>6, <2>7 DEF Runtimes
    <2>11. q \in Runtimes
      BY <2>7, <2>9, <2>10 DEF Runtimes
    <2>12. /\ q.sent = Append(p.sent, e) /\ q.visible = p.visible /\ q.nextItem = p.nextItem /\ q.nextOutput = p.nextOutput
           /\ q.message = p.message /\ q.index = p.index /\ q.added = p.added /\ q.functions = p.functions /\ ~q.part
      BY <2>7, <2>10 DEF Runtimes
    <2>13. \E i \in DOMAIN p.sent : Is(p, i, "text.done", p.message) /\ i + 1 <= Len(p.sent)
      <3>. DEFINE a == Event("text.done", r.message, r.index, r.visible)
                  b == Event("part.done", r.message, r.index, r.visible)
                  n == Len(r.sent)
      <3>1. a \in Utterances /\ b \in Utterances /\ a.ev = "text.done" /\ a.item = r.message
        BY <2>1 DEF Event, Utterances, Names
      <3>2. r.sent \in Seq(Utterances) /\ t.sent = Append(r.sent, a) /\ p.sent = Append(t.sent, b)
        BY <1>1, <2>3, <2>5 DEF Runtimes
      <3>. HIDE DEF a, b
      <3>3. n \in Nat /\ t.sent \in Seq(Utterances) /\ Len(t.sent) = n + 1 /\ t.sent[n + 1] = a
        BY <3>1, <3>2, Members, AppendProperties
      <3>4. p.sent \in Seq(Utterances) /\ Len(p.sent) = Len(t.sent) + 1 /\ \A j \in 1..Len(t.sent) : p.sent[j] = t.sent[j]
        BY <3>1, <3>2, <3>3, AppendProperties
      <3>5. DOMAIN p.sent = 1..Len(p.sent)
        BY <3>4, Members
      <3>. HIDE DEF n
      <3>6. n + 1 \in DOMAIN p.sent /\ p.sent[n + 1] = a /\ n + 1 + 1 <= Len(p.sent)
        BY <3>3, <3>4, <3>5
      <3>. QED BY <2>3, <2>5, <3>1, <3>6 DEF Is
    <2>14. Stays(p, q, e)
      BY <2>9, <2>12 DEF Stays, Adds
    <2>15. EndsMessage(p, q, e)
      BY <2>3, <2>4, <2>5, <2>8, <2>12, <2>13, <2>14 DEF EndsMessage
    <2>16. q \in Live(FALSE) /\ MessageDone(q) /\ (first => DoneLast(q))
      BY <1>2, <2>7, <2>8, <2>11, <2>15
    <2>. QED BY <2>16 DEF q
  <1>. QED BY <1>3, <1>4, <1>5

LEMMA Noticed ==
    ASSUME NEW first \in BOOLEAN, NEW r \in Live(first),
           NEW a \in Sieves(STRING), NEW v \in Text, NEW c \in Nat, NEW d \in PartTypes
    PROVE  /\ [r EXCEPT !.sieve = a] \in Live(first) /\ [r EXCEPT !.text = v] \in Live(first)
           /\ [r EXCEPT !.rawText = v] \in Live(first) /\ [r EXCEPT !.rawThinking = v] \in Live(first)
           /\ [r EXCEPT !.type = d, !.id = c, !.detection = v] \in Live(first)
           /\ [r EXCEPT !.type = d] \in Live(first) /\ [r EXCEPT !.functions = <<>>] \in Live(first)
  <1>1. r \in Runtimes /\ r \in Kept(0, first) /\ r.sent # <<>> /\ <<>> \in Seq(Spots)
    BY EmptySeq DEF Live, Kept
  <1>. DEFINE Like(q) == /\ q.sent = r.sent /\ q.visible = r.visible /\ q.nextItem = r.nextItem
                         /\ q.nextOutput = r.nextOutput /\ q.message = r.message /\ q.index = r.index
                         /\ q.added = r.added /\ q.part = r.part /\ q.functions \in {r.functions, <<>>}
  <1>2. ASSUME NEW q \in Runtimes, Like(q) PROVE q \in Live(first)
    BY <1>1, <1>2, Unheard DEF Live
  <1>3. [r EXCEPT !.sieve = a] \in Live(first)
    <2>. DEFINE q == [r EXCEPT !.sieve = a]
    <2>1. q \in Runtimes /\ Like(q)
      BY <1>1 DEF Runtimes
    <2>. HIDE DEF q, Like
    <2>2. q \in Live(first)
      BY <1>2, <2>1
    <2>. QED BY <2>2 DEF q
  <1>4. [r EXCEPT !.text = v] \in Live(first)
    <2>. DEFINE q == [r EXCEPT !.text = v]
    <2>1. q \in Runtimes /\ Like(q)
      BY <1>1 DEF Runtimes
    <2>. HIDE DEF q, Like
    <2>2. q \in Live(first)
      BY <1>2, <2>1
    <2>. QED BY <2>2 DEF q
  <1>5. [r EXCEPT !.rawText = v] \in Live(first)
    <2>. DEFINE q == [r EXCEPT !.rawText = v]
    <2>1. q \in Runtimes /\ Like(q)
      BY <1>1 DEF Runtimes
    <2>. HIDE DEF q, Like
    <2>2. q \in Live(first)
      BY <1>2, <2>1
    <2>. QED BY <2>2 DEF q
  <1>6. [r EXCEPT !.rawThinking = v] \in Live(first)
    <2>. DEFINE q == [r EXCEPT !.rawThinking = v]
    <2>1. q \in Runtimes /\ Like(q)
      BY <1>1 DEF Runtimes
    <2>. HIDE DEF q, Like
    <2>2. q \in Live(first)
      BY <1>2, <2>1
    <2>. QED BY <2>2 DEF q
  <1>7. [r EXCEPT !.type = d, !.id = c, !.detection = v] \in Live(first)
    <2>. DEFINE q == [r EXCEPT !.type = d, !.id = c, !.detection = v]
    <2>1. q \in Runtimes /\ Like(q)
      BY <1>1 DEF Runtimes
    <2>. HIDE DEF q, Like
    <2>2. q \in Live(first)
      BY <1>2, <2>1
    <2>. QED BY <2>2 DEF q
  <1>8. [r EXCEPT !.type = d] \in Live(first)
    <2>. DEFINE q == [r EXCEPT !.type = d]
    <2>1. q \in Runtimes /\ Like(q)
      BY <1>1 DEF Runtimes
    <2>. HIDE DEF q, Like
    <2>2. q \in Live(first)
      BY <1>2, <2>1
    <2>. QED BY <2>2 DEF q
  <1>9. [r EXCEPT !.functions = <<>>] \in Live(first)
    <2>. DEFINE q == [r EXCEPT !.functions = <<>>]
    <2>1. q \in Runtimes /\ Like(q)
      BY <1>1 DEF Runtimes
    <2>. HIDE DEF q, Like
    <2>2. q \in Live(first)
      BY <1>2, <2>1
    <2>. QED BY <2>2 DEF q
  <1>. QED BY <1>3, <1>4, <1>5, <1>6, <1>7, <1>8, <1>9

LEMMA SifterRead ==
    ASSUME NEW first \in BOOLEAN, NEW r \in Live(first)
    PROVE  /\ r.sieve \in Sieves(STRING) /\ r.rawThinking \in Text /\ r.thinking \in Text /\ r.detection \in Text
           /\ r.rawText \in Text /\ r.text \in Text /\ r.visible \in Text /\ r.id \in Nat /\ r.type \in PartTypes
  BY DEF Live, Kept, Runtimes

LEMMA SiftEventTold ==
    ASSUME NEW first \in BOOLEAN, NEW r \in Live(first), NEW e \in SiftEvents(STRING), NEW req
    PROVE  OnEvent(r, e, req) \in Live(first)
  <1>1. e.calls \in Nat /\ e.text \in Text
    BY DEF SiftEvents, Text
  <1>2. resetStreamToolCallState(emitFunctionCallDoneEvents(r, e.calls)) \in Live(first)
    <2>. DEFINE q == emitFunctionCallDoneEvents(r, e.calls)
    <2>1. q \in Live(first)
      BY <1>1, CallsTold
    <2>. HIDE DEF q
    <2>2. [q EXCEPT !.functions = <<>>] \in Live(first)
      <3>1. q.sieve \in Sieves(STRING) /\ q.visible \in Text /\ q.id \in Nat /\ q.type \in PartTypes
        BY <2>1, SifterRead
      <3>. QED BY <2>1, <3>1, Noticed
    <2>. QED BY <2>2 DEF resetStreamToolCallState, q
  <1>3. Shown(CleanVisibleOutput(e.text, TRUE), req) \in Text
    BY <1>1, TextTyped DEF Shown
  <1>4. emitTextDelta(r, Shown(CleanVisibleOutput(e.text, TRUE), req)) \in Live(first)
    BY <1>3, DeltaTold
  <1>. QED BY <1>2, <1>4 DEF OnEvent

LEMMA SiftEventsTold ==
    ASSUME NEW first \in BOOLEAN, NEW r \in Live(first), NEW events \in Seq(SiftEvents(STRING)), NEW req
    PROVE  processToolStreamEvents(r, events, req) \in Live(first)
  <1>. DEFINE T == Live(first)
              n == Len(events)
              Next(i, x) == OnEvent(x, events[i], req)
              F == [p \in (1..n) \X T |-> Next(p[1], p[2])]
              Rec(h) == h = [i \in 0..n |-> IF i = 0 THEN r ELSE Next(i, h[i - 1])]
  <1>1. n \in Nat /\ r \in T
    BY Members
  <1>2. ASSUME NEW i \in 1..n, NEW x \in T PROVE Next(i, x) \in T
    <2>1. events[i] \in SiftEvents(STRING)
      BY <1>1, Members
    <2>. QED BY <2>1, SiftEventTold
  <1>. HIDE DEF Next, T, n
  <1>3. F \in [(1..n) \X T -> T] /\ \A i \in 1..n, x \in T : F[<<i, x>>] = Next(i, x)
    BY <1>2
  <1>. HIDE DEF F
  <1>4. PICK g \in [0..n -> T] : Runs(r, F, n, g)
    BY <1>1, <1>3, RunsExist
  <1>5. Rec(g)
    <2>1. ASSUME NEW i \in 0..n PROVE g[i] = IF i = 0 THEN r ELSE Next(i, g[i - 1])
      <3>1. i # 0 => i \in 1..n /\ i - 1 \in 0..n
        BY <1>1
      <3>. QED BY <1>3, <1>4, <3>1 DEF Runs
    <2>. QED BY <1>4, <2>1
  <1>6. PICK h : Rec(h) /\ processToolStreamEvents(r, events, req) = h[n]
    BY <1>5 DEF processToolStreamEvents, Over, Next, n
  <1>7. Follows(T, r, F, n, h)
    <2>1. h[0] = r
      BY <1>1, <1>6
    <2>2. ASSUME NEW i \in 1..n, h[i - 1] \in T PROVE h[i] = Next(i, h[i - 1])
      <3>1. i \in 0..n /\ i # 0
        BY <1>1
      <3>. QED BY <1>6, <3>1
    <2>. QED BY <1>3, <2>1, <2>2 DEF Follows
  <1>8. n \in 0..n
    BY <1>1
  <1>. HIDE DEF Rec
  <1>9. \A i \in 0..n : h[i] \in T
    BY <1>1, <1>3, <1>7, RunsTyped
  <1>. QED BY <1>6, <1>8, <1>9 DEF T

LEMMA SieveTold ==
    ASSUME NEW first \in BOOLEAN, NEW r \in Live(first), NEW st \in Sieves(STRING), NEW req
    PROVE  Sifted(r, st, req) \in Live(first)
  <1>1. [r EXCEPT !.sieve = st] \in Live(first)
    <2>1. r.visible \in Text /\ r.id \in Nat /\ r.type \in PartTypes
      BY SifterRead
    <2>. QED BY <2>1, Noticed
  <1>2. st.events \in Seq(SiftEvents(STRING))
    BY SieveFields
  <1>. QED BY <1>1, <1>2, SiftEventsTold DEF Sifted

LEMMA ThinkingTold ==
    ASSUME NEW first \in BOOLEAN, NEW r \in Live(first), NEW s \in Text
    PROVE  ReasoningDelta(r, s) \in Live(first)
  <1>. DEFINE q == sendEvent(r, "reasoning.delta", 0, 0, s)
              z == [q EXCEPT !.thinking = q.thinking \o s]
  <1>1. r \in Kept(0, first) /\ "reasoning.delta" \in Names \ {"item.added", "item.done", "text.delta"}
    BY DEF Live, Names
  <1>2. LET w == sendEvent(r, "reasoning.delta", 0, 0, s) IN w \in Kept(0, first) /\ w.sent # <<>>
    BY <1>1, EventTold
  <1>3. q \in Kept(0, first) /\ q \in Runtimes /\ q.sent # <<>>
    BY <1>2 DEF Kept
  <1>4. ReasoningDelta(r, s) = r \/ ReasoningDelta(r, s) = z
    <2>. HIDE DEF q
    <2>1. [q EXCEPT !.thinking = @ \o s] = z
      BY <1>3 DEF Runtimes
    <2>. QED BY <2>1 DEF ReasoningDelta, q
  <1>. HIDE DEF q
  <1>5. q.thinking \o s \in Text
    BY <1>3, TextTyped DEF Runtimes
  <1>6. z \in Runtimes /\ z.sent = q.sent /\ z.visible = q.visible /\ z.nextItem = q.nextItem /\ z.nextOutput = q.nextOutput
        /\ z.message = q.message /\ z.index = q.index /\ z.added = q.added /\ z.part = q.part /\ z.functions = q.functions
    BY <1>3, <1>5 DEF Runtimes
  <1>. HIDE DEF z
  <1>7. z \in Live(first)
    BY <1>3, <1>6, Unheard DEF Live
  <1>. QED BY <1>4, <1>7

LEMMA ThinkingPartTold ==
    ASSUME NEW first \in BOOLEAN, NEW r \in Live(first), NEW p \in Parts, NEW req
    PROVE  OnThinking(r, p, req) \in Live(first)
  <1>. DEFINE raw == TrimContinuationOverlap(r.rawThinking, p.text)
              kept == [r EXCEPT !.rawThinking = r.rawThinking \o raw]
              new == TrimContinuationOverlap(r.thinking, CleanVisibleOutput(raw, TRUE))
  <1>1. r.rawThinking \in Text /\ p.text \in Text /\ r.thinking \in Text /\ r.sieve \in Sieves(STRING) /\ r.id \in Nat
        /\ r.type \in PartTypes
    BY SifterRead DEF Parts
  <1>2. raw \in Text /\ r.rawThinking \o raw \in Text
    BY <1>1, TextTyped
  <1>. HIDE DEF raw
  <1>3. new \in Text
    BY <1>1, <1>2, TextTyped
  <1>4. kept \in Live(first)
    BY <1>1, <1>2, Noticed
  <1>5. [r EXCEPT !.rawThinking = @ \o raw] = kept
    BY DEF Live, Kept, Runtimes
  <1>. HIDE DEF kept, new
  <1>6. ReasoningDelta(kept, new) \in Live(first)
    BY <1>3, <1>4, ThinkingTold
  <1>7. OnThinking(r, p, req) = IF req.thinking THEN ReasoningDelta(kept, new) ELSE kept
    BY <1>5 DEF OnThinking, RawThinking, raw, new
  <1>. QED BY <1>4, <1>6, <1>7

LEMMA TextPartTold ==
    ASSUME NEW first \in BOOLEAN, NEW r \in Live(first), NEW p \in Parts, NEW req
    PROVE  OnText(r, p, req) \in Live(first)
  <1>. DEFINE raw == TrimContinuationOverlap(r.rawText, p.text)
              clean == CleanVisibleOutput(raw, TRUE)
              kept == [r EXCEPT !.rawText = r.rawText \o raw]
              new == TrimContinuationOverlap(r.text, clean)
              noted == [kept EXCEPT !.text = kept.text \o new]
              st == ProcessChunk(kept.sieve, raw)
  <1>1. r.rawText \in Text /\ p.text \in Text /\ r.text \in Text /\ r.sieve \in Sieves(STRING) /\ r.id \in Nat
        /\ r.type \in PartTypes
    BY SifterRead DEF Parts
  <1>2. raw \in Text /\ r.rawText \o raw \in Text
    BY <1>1, TextTyped
  <1>. HIDE DEF raw
  <1>3. clean \in Text
    BY <1>2, TextTyped
  <1>. HIDE DEF clean
  <1>4. kept \in Live(first) /\ [r EXCEPT !.rawText = @ \o raw] = kept /\ kept.text = r.text
    <2>1. kept \in Live(first)
      BY <1>1, <1>2, Noticed
    <2>. QED BY <2>1 DEF Live, Kept, Runtimes
  <1>5. TrimContinuationOverlap(kept.text, clean) \in Text /\ TrimContinuationOverlap(r.text, clean) = TrimContinuationOverlap(kept.text, clean)
    BY <1>1, <1>3, <1>4, TextTyped
  <1>. HIDE DEF kept
  <1>6. kept.text \in Text /\ kept.sieve \in Sieves(STRING) /\ kept.id \in Nat /\ kept.type \in PartTypes /\ new \in Text
    BY <1>4, <1>5, SifterRead
  <1>. HIDE DEF new
  <1>7. noted \in Live(first) /\ [kept EXCEPT !.text = @ \o new] = noted
    <2>1. kept.text \o new \in Text
      BY <1>6, TextTyped
    <2>2. noted \in Live(first)
      BY <1>4, <1>6, <2>1, Noticed
    <2>3. [kept EXCEPT !.text = @ \o new] = noted
      BY <1>4 DEF Live, Kept, Runtimes
    <2>. QED BY <2>2, <2>3
  <1>8. st \in Sieves(STRING)
    BY <1>2, <1>6, ChunkProcessed DEF Text
  <1>. HIDE DEF noted, st
  <1>9. Sifted(noted, st, req) \in Live(first) /\ emitTextDelta(noted, new) \in Live(first)
    BY <1>6, <1>7, <1>8, SieveTold, DeltaTold
  <1>10. TextDelta(kept, raw, new, req) = IF req.tools THEN Sifted(noted, st, req) ELSE emitTextDelta(noted, new)
    BY <1>7 DEF TextDelta, st
  <1>11. OnText(r, p, req) = RawText(r, raw, req)
    BY DEF OnText, raw
  <1>12. OnText(r, p, req) \in {r, kept, TextDelta(kept, raw, new, req)}
    BY <1>4, <1>11 DEF RawText, CleanText, clean, new
  <1>. QED BY <1>4, <1>9, <1>10, <1>12

Heard(r, ps, req) ==
    Over(ps, r, LAMBDA s, p : IF p.type = "thinking" THEN OnThinking(s, p, req) ELSE OnText(s, p, req))

LEMMA PartsTold ==
    ASSUME NEW first \in BOOLEAN, NEW r \in Live(first), NEW ps \in Seq(Parts), NEW req
    PROVE  Heard(r, ps, req) \in Live(first)
  <1>. DEFINE T == Live(first)
              n == Len(ps)
              Next(i, x) == IF ps[i].type = "thinking" THEN OnThinking(x, ps[i], req) ELSE OnText(x, ps[i], req)
              F == [p \in (1..n) \X T |-> Next(p[1], p[2])]
              Rec(h) == h = [i \in 0..n |-> IF i = 0 THEN r ELSE Next(i, h[i - 1])]
  <1>1. n \in Nat /\ r \in T
    BY Members
  <1>2. ASSUME NEW i \in 1..n, NEW x \in T PROVE Next(i, x) \in T
    <2>1. ps[i] \in Parts
      BY <1>1, Members
    <2>. QED BY <2>1, ThinkingPartTold, TextPartTold
  <1>. HIDE DEF Next, T, n
  <1>3. F \in [(1..n) \X T -> T] /\ \A i \in 1..n, x \in T : F[<<i, x>>] = Next(i, x)
    BY <1>2
  <1>. HIDE DEF F
  <1>4. PICK g \in [0..n -> T] : Runs(r, F, n, g)
    BY <1>1, <1>3, RunsExist
  <1>5. Rec(g)
    <2>1. ASSUME NEW i \in 0..n PROVE g[i] = IF i = 0 THEN r ELSE Next(i, g[i - 1])
      <3>1. i # 0 => i \in 1..n /\ i - 1 \in 0..n
        BY <1>1
      <3>. QED BY <1>3, <1>4, <3>1 DEF Runs
    <2>. QED BY <1>4, <2>1
  <1>6. PICK h : Rec(h) /\ Heard(r, ps, req) = h[n]
    BY <1>5 DEF Heard, Over, Next, n
  <1>7. Follows(T, r, F, n, h)
    <2>1. h[0] = r
      BY <1>1, <1>6
    <2>2. ASSUME NEW i \in 1..n, h[i - 1] \in T PROVE h[i] = Next(i, h[i - 1])
      <3>1. i \in 0..n /\ i # 0
        BY <1>1
      <3>. QED BY <1>6, <3>1
    <2>. QED BY <1>3, <2>1, <2>2 DEF Follows
  <1>8. n \in 0..n
    BY <1>1
  <1>. HIDE DEF Rec
  <1>9. \A i \in 0..n : h[i] \in T
    BY <1>1, <1>3, <1>7, RunsTyped
  <1>. QED BY <1>6, <1>8, <1>9 DEF T

LEMMA LineTold ==
    ASSUME NEW first \in BOOLEAN, NEW r \in Live(first), NEW line \in Lines, NEW req
    PROVE  onParsed(r, line, req) \in Live(first)
  <1>. DEFINE d == Gathered(r.detection, line.detection)
              c == IF line.id > 0 THEN line.id ELSE r.id
              seen == [r EXCEPT !.type = line.type, !.id = c, !.detection = d]
  <1>1. line.detection \in Seq(Parts) /\ line.parts \in Seq(Parts) /\ line.type \in PartTypes /\ line.id \in Nat
        /\ r.detection \in Text /\ r.id \in Nat /\ r.sieve \in Sieves(STRING)
    BY SifterRead DEF Lines
  <1>2. c \in Nat /\ d \in Text
    BY <1>1, DetectionNoted
  <1>3. [r EXCEPT !.type = line.type, !.id = IF line.id > 0 THEN line.id ELSE @,
                  !.detection = Over(line.detection, @, LAMBDA t, p : AddTo(t, p.text))] = seen
    BY DEF Live, Kept, Runtimes, Gathered
  <1>. HIDE DEF c, d
  <1>4. seen \in Live(first)
    BY <1>1, <1>2, Noticed
  <1>. HIDE DEF seen
  <1>5. Heard(seen, line.parts, req) \in Live(first)
    BY <1>1, <1>4, PartsTold
  <1>. QED BY <1>3, <1>5 DEF onParsed, seen, Heard

\* The attempt is done: its message is closed.
Closed(r, first) == r \in Live(FALSE) /\ MessageDone(r) /\ (first => DoneLast(r))

\* The last event of a response, after which r became q; and a response that had it.
TellsOf(r, e) ==
    /\ e.ev \in {"completed", "failed"} /\ e.item = 0 /\ e.text \in Text
    /\ e.ev = "completed" /\ r.added => \A o \in e.output : o.kind = "message" =>
          o = [kind |-> "message", item |-> r.message, index |-> r.index, text |-> r.visible]
SaysLast(r, q, e) == TellsOf(r, e) /\ q = [r EXCEPT !.sent = Append(r.sent, e), !.terminal = TRUE]
Before(q) == [q EXCEPT !.sent = SubSeq(@, 1, Len(@) - 1), !.terminal = FALSE]
Concluded(q, first) == Closed(Before(q), first) /\ SaysLast(Before(q), q, Final(q.sent))
EndsWell(r, first) == IF r.terminal THEN Concluded(r, first) ELSE Closed(r, first)

LEMMA LastWord ==
    ASSUME NEW W, NEW s \in Seq(W), NEW e
    PROVE  LET z == Append(s, e)
           IN  z # <<>> /\ Len(z) = Len(s) + 1 /\ z[Len(z)] = e /\ SubSeq(z, 1, Len(z) - 1) = s
  <1>. DEFINE X == W \union {e}
              z == Append(s, e)
              n == Len(s)
  <1>1. s \in Seq(X) /\ e \in X
    <2>1. n \in Nat /\ s \in [1..n -> W]
      BY LenProperties
    <2>2. s \in [1..n -> X]
      BY <2>1
    <2>. QED BY <2>1, <2>2, SeqDef
  <1>. HIDE DEF X, z, n
  <1>2. z \in Seq(X) /\ Len(z) = n + 1 /\ (\A i \in 1..n : z[i] = s[i]) /\ z[n + 1] = e /\ n \in Nat
    BY <1>1, AppendProperties, Members DEF z, n
  <1>3. SubSeq(z, 1, n) = s
    <2>1. SubSeq(z, 1, n) \in Seq(X) /\ Len(SubSeq(z, 1, n)) = n /\ \A i \in 1..n : SubSeq(z, 1, n)[i] = z[i]
      <3>1. 1 \in Nat /\ 1 > 0 /\ n \in Int /\ n <= Len(z) /\ (1 <= n => n - 1 + 1 = n) /\ (~(1 <= n) => n = 0)
        BY <1>2
      <3>2. SubSeq(z, 1, n) \in Seq(X) /\ Len(SubSeq(z, 1, n)) = n
        <4>1. SubSeq(z, 1, n) \in Seq(X) /\ Len(SubSeq(z, 1, n)) = IF 1 <= n THEN n - 1 + 1 ELSE 0
          BY <1>2, <3>1, Cut
        <4>. QED BY <3>1, <4>1
      <3>3. \A i \in 1..n : SubSeq(z, 1, n)[i] = z[i]
        BY <1>2
      <3>. QED BY <3>2, <3>3
    <2>2. \A i \in 1..n : SubSeq(z, 1, n)[i] = s[i]
      BY <1>2, <2>1
    <2>. QED BY <1>1, <1>2, <2>1, <2>2, SeqEqual DEF n
  <1>4. Len(z) - 1 = n /\ z[Len(z)] = e /\ Len(z) = Len(s) + 1
    BY <1>2 DEF n
  <1>5. z # <<>>
    BY <1>2
  <1>. QED BY <1>3, <1>4, <1>5 DEF z

LEMMA EndTold ==
    ASSUME NEW first \in BOOLEAN, NEW r, Closed(r, first), NEW e, NEW q, SaysLast(r, q, e)
    PROVE  EndsWell(q, first) /\ q.terminal /\ q.sent # <<>> /\ Final(q.sent) = e
  <1>. DEFINE z == Append(r.sent, e)
              y == SubSeq(z, 1, Len(z) - 1)
  <1>1. r \in Runtimes /\ r.sent \in Seq(Utterances) /\ r \in Kept(0, FALSE)
    BY DEF Closed, Live, Kept, Runtimes
  <1>2. z # <<>> /\ z[Len(z)] = e /\ y = r.sent
    BY <1>1, LastWord
  <1>. HIDE DEF z
  <1>3. q = [r EXCEPT !.sent = z, !.terminal = TRUE] /\ TellsOf(r, e)
    BY DEF z, SaysLast
  <1>4. q.sent = z /\ q.terminal = TRUE
    BY <1>1, <1>3 DEF Runtimes
  <1>5. Before(q) = [q EXCEPT !.sent = y, !.terminal = FALSE]
    BY <1>1, <1>3 DEF Before, Runtimes
  <1>. HIDE DEF y
  <1>6. Before(q) = r
    <2>1. [q EXCEPT !.sent = r.sent, !.terminal = FALSE] = r
      BY <1>1, <1>3 DEF Runtimes
    <2>. QED BY <1>2, <1>5, <2>1
  <1>7. Final(q.sent) = e
    BY <1>2, <1>4 DEF Final
  <1>8. q.sent # <<>> /\ Final(q.sent) = e
    BY <1>2, <1>4, <1>7
  <1>10. Concluded(q, first)
    BY <1>6, <1>7 DEF Concluded
  <1>9. EndsWell(q, first)
    BY <1>4, <1>10 DEF EndsWell
  <1>. QED BY <1>4, <1>8, <1>9

LEMMA FailureTold ==
    ASSUME NEW first \in BOOLEAN, NEW r, Closed(r, first)
    PROVE  LET q == failResponse(r)
           IN  EndsWell(q, first) /\ q.terminal /\ q.sent # <<>> /\ Final(q.sent).ev = "failed"
  <1>. DEFINE e == Event("failed", 0, 0, <<>>)
              q == failResponse(r)
  <1>1. r \in Runtimes
    BY DEF Closed, Live, Kept
  <1>2. TellsOf(r, e) /\ e.ev = "failed"
    BY TextTyped DEF Event, TellsOf
  <1>3. q = [r EXCEPT !.sent = Append(r.sent, e), !.terminal = TRUE]
    BY <1>1 DEF failResponse, sendEvent, Runtimes
  <1>. HIDE DEF e, q
  <1>4. SaysLast(r, q, e)
    BY <1>2, <1>3 DEF SaysLast
  <1>5. EndsWell(q, first) /\ q.terminal /\ q.sent # <<>> /\ Final(q.sent) = e
    BY <1>4, EndTold
  <1>. QED BY <1>2, <1>5 DEF q

LEMMA CompletionTold ==
    ASSUME NEW first \in BOOLEAN, NEW r, Closed(r, first), NEW v \in Text, NEW calls
    PROVE  LET q == Complete([r EXCEPT !.text = v], calls)
           IN  EndsWell(q, first) /\ q.terminal
  <1>. DEFINE c == [r EXCEPT !.text = v]
  <1>1. r \in Runtimes /\ r \in Live(FALSE)
    BY DEF Closed, Live, Kept
  <1>2. Closed(c, first) /\ c.text = v
    <2>1. c \in Live(FALSE)
      <3>1. r.sieve \in Sieves(STRING) /\ r.id \in Nat /\ r.type \in PartTypes
        BY <1>1, SifterRead
      <3>. QED BY <1>1, <3>1, Noticed
    <2>2. c.sent = r.sent /\ c.added = r.added /\ c.message = r.message /\ c.text = v
      BY <1>1 DEF Runtimes
    <2>. HIDE DEF c
    <2>3. MessageDone(c) /\ (first => DoneLast(c))
      BY <2>2 DEF Closed, MessageDone, DoneLast, Is
    <2>. QED BY <2>1, <2>2, <2>3 DEF Closed
  <1>. HIDE DEF c
  <1>3. c \in Runtimes /\ c \in Kept(0, FALSE) /\ c.visible \in Text /\ c.text \in Text
    BY <1>2 DEF Closed, Live, Kept, Runtimes
  <1>. DEFINE t == IF c.visible = <<>> /\ calls = 0 THEN c.text ELSE c.visible
              o == buildCompletedResponseObject(c, calls)
              e == [Event("completed", 0, 0, t) EXCEPT !.output = o]
              q == Complete(c, calls)
  <1>4. t \in Text
    BY <1>3
  <1>5. ASSUME c.added, NEW x \in o, x.kind = "message"
        PROVE  x = [kind |-> "message", item |-> c.message, index |-> c.index, text |-> c.visible]
    <2>1. o = WithMessage(c, c, calls)
      BY <1>3, <1>5, MessageThere DEF buildCompletedResponseObject
    <2>2. o = {CallItem(c, i) : i \in 1..calls} \union {MessageItem(c, c.visible)}
      BY <1>5, <2>1 DEF WithMessage, OutputOf
    <2>3. \A i \in 1..calls : CallItem(c, i).kind = "call"
      BY DEF CallItem
    <2>4. x = MessageItem(c, c.visible)
      BY <1>5, <2>2, <2>3
    <2>. QED BY <2>4 DEF MessageItem
  <1>. HIDE DEF t, o
  <1>6. TellsOf(c, e)
    <2>1. e.ev = "completed" /\ e.item = 0 /\ e.text = t /\ e.output = o
      BY DEF Event
    <2>. QED BY <1>4, <1>5, <2>1 DEF TellsOf
  <1>7. q = [c EXCEPT !.sent = Append(c.sent, e), !.terminal = TRUE]
    BY <1>3 DEF Complete, Runtimes, t, o
  <1>. HIDE DEF e, q
  <1>8. SaysLast(c, q, e)
    BY <1>6, <1>7 DEF SaysLast
  <1>9. EndsWell(q, first) /\ q.terminal
    BY <1>2, <1>8, EndTold
  <1>. QED BY <1>9 DEF q, c

LEMMA AttemptEnded ==
    ASSUME NEW first \in BOOLEAN, NEW r \in Live(first), NEW req, NEW defer \in BOOLEAN
    PROVE  LET q == finalize(r, req, defer)
           IN  EndsWell(q, first) /\ (~q.terminal => defer)
  <1>. DEFINE flushed == IF req.tools THEN Sifted(r, Flush(r.sieve), req) ELSE r
              v == CleanVisibleOutput(r.text, TRUE)
              calls == DetectAssistantToolCalls(flushed.rawText, v, flushed.rawThinking, flushed.detection)
              called == IF flushed.callsDone THEN flushed ELSE emitFunctionCallDoneEvents(flushed, calls)
              c == closeMessageItem(called)
              q == finalize(r, req, defer)
  <1>1. r.sieve \in Sieves(STRING) /\ r.text \in Text
    BY SifterRead
  <1>2. flushed \in Live(first) /\ v \in Text
    <2>1. Flush(r.sieve) \in Sieves(STRING)
      BY <1>1, AllFlushed
    <2>2. Sifted(r, Flush(r.sieve), req) \in Live(first)
      BY <2>1, SieveTold
    <2>. QED BY <1>1, <2>2, TextTyped
  <1>3. q = Conclude(c, v, calls, req, defer)
    BY DEF finalize, Flushed, CloseAll
  <1>. HIDE DEF flushed, v
  <1>4. calls \in Nat
    <2>1. flushed.rawText \in Text /\ flushed.rawThinking \in Text /\ flushed.detection \in Text
      BY <1>2, SifterRead
    <2>. QED BY <2>1, CallsDetected DEF Text
  <1>. HIDE DEF calls
  <1>5. called \in Live(first)
    BY <1>2, <1>4, CallsTold
  <1>. HIDE DEF called
  <1>6. Closed(c, first)
    BY <1>5, MessageClosed DEF Closed
  <1>. HIDE DEF c, q
  <1>7. EndsWell(c, first) /\ ~c.terminal
    <2>1. c.terminal = FALSE
      BY <1>6 DEF Closed, Live, Kept, Runtimes
    <2>. QED BY <1>6, <2>1 DEF EndsWell
  <1>8. LET z == failResponse(c) IN EndsWell(z, first) /\ z.terminal /\ z.sent # <<>> /\ Final(z.sent).ev = "failed"
    BY <1>6, FailureTold
  <1>9. LET z == Complete([c EXCEPT !.text = v], calls) IN EndsWell(z, first) /\ z.terminal
    BY <1>2, <1>6, CompletionTold
  <1>10. /\ q \in {c, failResponse(c), Complete([c EXCEPT !.text = v], calls)}
         /\ q = c => defer \/ c = failResponse(c) \/ c = Complete([c EXCEPT !.text = v], calls)
    BY <1>3 DEF Conclude
  <1>11. EndsWell(q, first) /\ (~q.terminal => defer)
    BY <1>7, <1>8, <1>9, <1>10
  <1>. QED BY <1>11 DEF q

\* What a response had before its last event is what it has.
LEMMA ConcludedEvents ==
    ASSUME NEW first \in BOOLEAN, NEW q, Concluded(q, first)
    PROVE  LET r == Before(q)
               e == Final(q.sent)
           IN  /\ Closed(r, first) /\ TellsOf(r, e) /\ q.sent = Append(r.sent, e) /\ q.sent # <<>>
               /\ q.message = r.message /\ q.index = r.index /\ q.added = r.added /\ q.nextItem = r.nextItem
               /\ q.nextOutput = r.nextOutput /\ q.functions = r.functions
  <1>. DEFINE r == Before(q)
              e == Final(q.sent)
              z == Append(r.sent, e)
  <1>1. Closed(r, first) /\ TellsOf(r, e) /\ q = [r EXCEPT !.sent = z, !.terminal = TRUE]
    BY DEF Concluded, SaysLast
  <1>. HIDE DEF r, e
  <1>2. r \in Runtimes /\ r.sent \in Seq(Utterances)
    BY <1>1 DEF Closed, Live, Kept, Runtimes
  <1>3. z # <<>>
    BY <1>2, LastWord
  <1>. HIDE DEF z
  <1>4. /\ q.sent = z /\ q.message = r.message /\ q.index = r.index /\ q.added = r.added /\ q.nextItem = r.nextItem
        /\ q.nextOutput = r.nextOutput /\ q.functions = r.functions
    BY <1>1, <1>2 DEF Runtimes
  <1>. QED BY <1>1, <1>3, <1>4 DEF r, e, z

-----------------------------------------------------------------------------
\* The inductive invariant of a response

Entry == [owner |-> request.owner, object |-> reply, deadline |-> StoreTTL]

\* While it is kept the response is the one thing that is stored, if it was opened.
StoreKept ==
    LET opened == rt.sent # <<>> \/ reply.status = 200
    IN  /\ store \subseteq (IF opened THEN {Entry} ELSE {})
        /\ opened /\ clock <= StoreTTL => store = {Entry}
RuntimeKept ==
    /\ stage = "reading" => rt \in Live(retries = 0)
    /\ stage = "retrying" => Closed(rt, TRUE)
    /\ stage = "over" => \/ rt = NewRuntime /\ reply.status = 500
                         \/ Concluded(rt, retries = 0) /\ reply = ReplyOf(rt)
StageKept ==
    /\ request \in Requests /\ retries \in 0..MaxRetries /\ clock \in 0..MaxClock
    /\ stage \in {"opening", "reading", "retrying", "over"} /\ left \in Seq(Frames)
    /\ stage # "over" => store = {} /\ clock = 0 /\ got.owner = NoOne /\ reply = NoReply
    /\ stage = "opening" => retries = 0 /\ rt = NewRuntime
    /\ stage = "retrying" => retries = 0
RtKept == IF request.stream THEN RuntimeKept ELSE \E t \in PartTypes : rt = [NewRuntime EXCEPT !.type = t]
ResponsesInv == StageKept /\ RtKept /\ (stage = "over" => StoreKept) /\ StoredIsWhatWasSent

LEMMA RequestRead ==
    ASSUME StageKept
    PROVE  /\ request.owner \in Owners /\ request.stream \in BOOLEAN /\ request.thinking \in BOOLEAN
           /\ StoreTTL \in Nat /\ StoreTTL > 0 /\ MaxClock \in Nat /\ clock \in Int /\ retries \in Int
           /\ (retries = 0) \in BOOLEAN /\ MaxRetries = 1
  <1>1. request \in Request
    BY ResponsesAssumption DEF StageKept
  <1>2. MaxClock \in Nat /\ StoreTTL \in Nat /\ StoreTTL > 0
    BY ResponsesAssumption
  <1>3. clock \in Int /\ retries \in Int /\ MaxRetries = 1
    BY <1>2 DEF StageKept, MaxRetries
  <1>. QED BY <1>1, <1>2, <1>3 DEF Request

LEMMA NewRuntimeKept ==
    /\ NewRuntime \in Kept(0, TRUE) /\ NewRuntime.sent = <<>> /\ [NewRuntime EXCEPT !.type = "text"] = NewRuntime
    /\ \A t \in PartTypes : [NewRuntime EXCEPT !.type = t].sent = <<>>
  <1>. DEFINE r == NewRuntime
  <1>1. NewSieve \in Sieves(STRING) /\ <<>> \in Text /\ <<>> \in Seq(Spots) /\ <<>> \in Seq(Utterances)
        /\ "text" \in PartTypes /\ DOMAIN <<>> = {}
    BY NewSieveTyped, TextTyped, EmptySeq DEF PartTypes
  <1>2. r \in Runtimes
    BY <1>1 DEF NewRuntime, Runtimes
  <1>3. /\ r.sent = <<>> /\ r.functions = <<>> /\ r.visible = <<>> /\ r.nextItem = 1 /\ r.nextOutput = 0
        /\ ~r.added /\ ~r.part /\ r.message = 0 /\ r.index = -1 /\ r.type = "text"
    BY DEF NewRuntime
  <1>. HIDE DEF r
  <1>7. [r EXCEPT !.type = "text"] = r /\ \A t : [r EXCEPT !.type = t].sent = r.sent
    BY <1>2, <1>3 DEF Runtimes
  <1>4. MessageKept(r) /\ CallsKept(r) /\ AddedKept(r) /\ DoneKept(r, 0) /\ Fresh(r)
    BY <1>1, <1>3 DEF MessageKept, CallsKept, AddedKept, DoneKept, Fresh
  <1>5. r.visible = DeltasOf(r.sent)
    BY <1>3, NoDeltas
  <1>6. r \in Kept(0, TRUE)
    BY <1>2, <1>4, <1>5 DEF Kept, Well
  <1>. QED BY <1>3, <1>6, <1>7 DEF r

LEMMA InitKept == ResponsesInit => ResponsesInv
  <1>. SUFFICES ASSUME ResponsesInit PROVE ResponsesInv
    OBVIOUS
  <1>. USE DEF ResponsesInit
  <1>1. MaxClock \in Nat /\ 0 \in 0..MaxClock /\ 0 \in 0..1 /\ <<>> \in Seq(Frames)
    BY ResponsesAssumption, EmptySeq
  <1>2. StageKept
    BY <1>1 DEF StageKept, MaxRetries
  <1>3. RtKept
    BY NewRuntimeKept DEF RtKept, RuntimeKept, PartTypes
  <1>4. StoredIsWhatWasSent
    BY DEF StoredIsWhatWasSent
  <1>. QED BY <1>2, <1>3, <1>4 DEF ResponsesInv

\* A step after which the response is not over.
LEMMA NotYetOver ==
    ASSUME ResponsesInv, stage # "over", stage' # "over", StageKept', RtKept'
    PROVE  ResponsesInv'
  <1>1. StoredIsWhatWasSent'
    BY DEF StageKept, StoredIsWhatWasSent
  <1>. QED BY <1>1 DEF ResponsesInv

LEMMA OpenedStored ==
    ASSUME ResponsesInv, stage # "over", stage' = "over", UNCHANGED <<request, got, clock>>,
           put(request.owner, reply'), rt'.sent # <<>> \/ reply'.status = 200
    PROVE  StoreKept' /\ StoredIsWhatWasSent'
  <1>1. store = {} /\ clock = 0 /\ got.owner = NoOne /\ StoreTTL \in Nat
    BY RequestRead DEF ResponsesInv, StageKept
  <1>2. store' = {[owner |-> request.owner, object |-> reply', deadline |-> StoreTTL]}
    <2>1. 0 + StoreTTL = StoreTTL
      BY <1>1
    <2>. QED BY <1>1, <2>1 DEF put, sweepLocked
  <1>3. Entry' = [owner |-> request.owner, object |-> reply', deadline |-> StoreTTL]
    BY DEF Entry
  <1>. QED BY <1>1, <1>2, <1>3 DEF StoreKept, StoredIsWhatWasSent

LEMMA NothingStored ==
    ASSUME ResponsesInv, stage # "over", stage' = "over", UNCHANGED <<request, got, clock, store>>,
           rt'.sent = <<>>, reply'.status # 200
    PROVE  StoreKept' /\ StoredIsWhatWasSent'
  <1>1. store = {} /\ clock = 0 /\ got.owner = NoOne
    BY DEF ResponsesInv, StageKept
  <1>. QED BY <1>1 DEF StoreKept, StoredIsWhatWasSent

LEMMA ResponseCreated ==
    ASSUME NEW first \in BOOLEAN, NEW r \in Kept(0, first), NEW t \in PartTypes
    PROVE  [sendEvent(r, "created", 0, 0, <<>>) EXCEPT !.type = t] \in Live(first)
  <1>. DEFINE q == sendEvent(r, "created", 0, 0, <<>>)
  <1>1. "created" \in Names \ {"item.added", "item.done", "text.delta"} /\ <<>> \in Text
    BY TextTyped DEF Names
  <1>2. LET z == sendEvent(r, "created", 0, 0, <<>>) IN z \in Kept(0, first) /\ z.sent # <<>>
    BY <1>1, EventTold
  <1>3. q \in Live(first)
    BY <1>2 DEF Live
  <1>. HIDE DEF q
  <1>4. q.sieve \in Sieves(STRING) /\ q.text \in Text /\ q.id \in Nat
    BY <1>3, SifterRead
  <1>5. [q EXCEPT !.type = t] \in Live(first)
    BY <1>3, <1>4, Noticed
  <1>. QED BY <1>5 DEF q

LEMMA OpeningKept ==
    ASSUME ResponsesInv, OpenFails \/ Opens
    PROVE  ResponsesInv'
  <1>1. StageKept /\ RtKept /\ stage = "opening"
    BY DEF ResponsesInv, OpenFails, Opens
  <1>2. retries = 0 /\ rt = NewRuntime /\ rt.sent = <<>> /\ rt \in Kept(0, TRUE) /\ (request.thinking \in BOOLEAN)
    BY <1>1, RequestRead, NewRuntimeKept DEF StageKept
  <1>3. CASE OpenFails
    <2>. USE DEF OpenFails, Fail
    <2>1. StageKept'
      BY <1>1, <1>3 DEF StageKept
    <2>2. reply'.status = 500
      BY <1>3 DEF NoReply
    <2>3. RtKept'
      <3>1. [rt EXCEPT !.type = "text"] = rt /\ "text" \in PartTypes
        BY <1>2, NewRuntimeKept DEF PartTypes
      <3>. QED BY <1>2, <1>3, <2>2, <3>1 DEF RtKept, RuntimeKept
    <2>4. StoreKept' /\ StoredIsWhatWasSent'
      BY <1>1, <1>2, <1>3, <2>2, NothingStored
    <2>. QED BY <2>1, <2>3, <2>4 DEF ResponsesInv
  <1>4. CASE Opens
    <2>. USE DEF Opens
    <2>1. StageKept'
      BY <1>1, <1>4, ResponsesAssumption DEF StageKept
    <2>2. CASE request.stream
      <3>. DEFINE first == retries = 0
                  t == InitialType(request.thinking)
      <3>1. first \in BOOLEAN /\ rt \in Kept(0, first) /\ t \in PartTypes
        BY <1>2 DEF Kept, InitialType, PartTypes
      <3>2. rt' = [sendEvent(rt, "created", 0, 0, <<>>) EXCEPT !.type = t]
        BY <1>4, <2>2
      <3>. HIDE DEF first, t
      <3>3. rt' \in Live(first)
        BY <3>1, <3>2, ResponseCreated
      <3>4. RtKept'
        BY <1>4, <2>2, <3>3 DEF RtKept, RuntimeKept, first
      <3>. QED BY <1>1, <1>4, <2>1, <3>4, NotYetOver
    <2>3. CASE ~request.stream
      <3>1. [rt EXCEPT !.type = "text"] = rt /\ "text" \in PartTypes
        BY <1>2, NewRuntimeKept DEF PartTypes
      <3>2. RtKept'
        BY <1>2, <1>4, <2>3, <3>1 DEF RtKept
      <3>. QED BY <1>1, <1>4, <2>1, <3>2, NotYetOver
    <2>. QED BY <2>2, <2>3
  <1>. QED BY <1>3, <1>4

\* The end of an attempt of a streamed response.
LEMMA EndKept ==
    ASSUME ResponsesInv, stage = "reading", request.stream, NEW filtered \in BOOLEAN, EndOfAttempt(filtered),
           UNCHANGED <<request, retries, got, clock>>, left' \in Seq(Frames)
    PROVE  ResponsesInv'
  <1>. DEFINE first == retries = 0
              defer == ~filtered /\ retries < MaxRetries
              end == finalize(rt, request, defer)
  <1>1. StageKept /\ first \in BOOLEAN /\ defer \in BOOLEAN /\ retries \in Int /\ retries \in 0..MaxRetries /\ MaxRetries = 1
    BY RequestRead DEF ResponsesInv, StageKept
  <1>2. rt \in Live(first)
    BY DEF ResponsesInv, RtKept, RuntimeKept
  <1>3. EndsWith(end)
    BY DEF EndOfAttempt
  <1>4. defer => first
    BY <1>1
  <1>. HIDE DEF first, defer
  <1>5. LET z == finalize(rt, request, defer) IN EndsWell(z, first) /\ (~z.terminal => defer)
    BY <1>1, <1>2, AttemptEnded
  <1>6. EndsWell(end, first) /\ (~end.terminal => defer)
    BY <1>5
  <1>. HIDE DEF end
  <1>7. rt' = end
    BY <1>3 DEF EndsWith
  <1>8. CASE end.terminal
    <2>1. stage' = "over" /\ reply' = ReplyOf(end) /\ put(request.owner, ReplyOf(end))
      BY <1>3, <1>8 DEF EndsWith
    <2>2. Concluded(end, first) /\ end.sent # <<>>
      <3>1. Concluded(end, first)
        BY <1>6, <1>8 DEF EndsWell
      <3>2. first \in BOOLEAN
        BY <1>1 DEF first
      <3>. QED BY <3>1, <3>2, ConcludedEvents
    <2>3. StoreKept' /\ StoredIsWhatWasSent'
      <3>1. put(request.owner, reply') /\ rt'.sent # <<>> /\ stage # "over"
        BY <1>7, <2>1, <2>2
      <3>. QED BY <2>1, <3>1, OpenedStored
    <2>4. StageKept'
      BY <1>1, <2>1 DEF StageKept
    <2>5. RtKept'
      BY <1>7, <2>1, <2>2 DEF RtKept, RuntimeKept, first
    <2>. QED BY <2>3, <2>4, <2>5 DEF ResponsesInv
  <1>9. CASE ~end.terminal
    <2>1. stage' = "retrying" /\ UNCHANGED <<reply, store>>
      BY <1>3, <1>9 DEF EndsWith
    <2>2. Closed(end, TRUE) /\ retries = 0
      BY <1>4, <1>6, <1>9 DEF EndsWell, Closed, first
    <2>3. StageKept'
      BY <1>1, <2>1, <2>2 DEF StageKept
    <2>4. RtKept'
      BY <1>7, <2>1, <2>2 DEF RtKept, RuntimeKept
    <2>. QED BY <2>1, <2>3, <2>4, NotYetOver
  <1>. QED BY <1>8, <1>9

LEMMA PieceTyped ==
    ASSUME StageKept, left # <<>>, NEW n \in 1..Len(Head(left).text) \union {Len(Head(left).text)}
    PROVE  NextPiece(n) \in Frames /\ Rest(n) \in Seq(Frames) /\ Head(left) \in Frames
  <1>. DEFINE h == Head(left)
              m == Len(h.text)
  <1>1. left \in Seq(Frames)
    BY DEF StageKept
  <1>2. h \in Frames /\ Tail(left) \in Seq(Frames)
    BY <1>1, HeadTailProperties
  <1>. HIDE DEF h
  <1>3. h.text \in Text /\ m \in Nat /\ n \in Nat
    <2>1. h.text \in Text
      BY <1>2 DEF Frames
    <2>2. m \in Nat
      BY <2>1, TextTyped
    <2>. QED BY <2>1, <2>2
  <1>4. n = m \/ (n \in 1..m /\ SubSeq(h.text, 1, n) \in Text /\ From(h.text, n + 1) \in Text)
    <2>1. n # m => n \in 1..m
      BY DEF h
    <2>2. ASSUME n \in 1..m PROVE SubSeq(h.text, 1, n) \in Text /\ From(h.text, n + 1) \in Text
      <3>1. n + 1 \in Nat /\ n + 1 > 0
        BY <1>3
      <3>2. From(h.text, n + 1) \in Text
        BY <1>3, <3>1, FromThere DEF Text
      <3>. QED BY <1>3, <2>2, <3>2, TextTyped
    <2>. QED BY <2>1, <2>2
  <1>5. CASE n = m
    BY <1>2, <1>5 DEF NextPiece, Rest, h
  <1>6. CASE n # m
    <2>. DEFINE a == SubSeq(h.text, 1, n)
                b == From(h.text, n + 1)
                x == [h EXCEPT !.text = a]
                y == [h EXCEPT !.text = b]
    <2>1. a \in Text /\ b \in Text
      BY <1>4, <1>6
    <2>2. NextPiece(n) = [Head(left) EXCEPT !.text = SubSeq(@, 1, n)] /\ Rest(n) = <<[Head(left) EXCEPT !.text = From(@, n + 1)]>> \o Tail(left)
      BY <1>6 DEF NextPiece, Rest, h
    <2>3. [Head(left) EXCEPT !.text = SubSeq(@, 1, n)] = x /\ [Head(left) EXCEPT !.text = From(@, n + 1)] = y
      BY <1>2 DEF Frames, h
    <2>. HIDE DEF a, b
    <2>4. x \in Frames /\ y \in Frames
      BY <1>2, <2>1 DEF Frames
    <2>. HIDE DEF x, y
    <2>5. <<y>> \in Seq(Frames)
      BY <2>4
    <2>6. <<y>> \o Tail(left) \in Seq(Frames)
      BY <1>2, <2>5, Joined
    <2>. QED BY <1>2, <2>2, <2>3, <2>4, <2>6 DEF h
  <1>. QED BY <1>5, <1>6

LEMMA LineReadKept ==
    ASSUME ResponsesInv, ReadLine
    PROVE  ResponsesInv'
  <1>1. StageKept /\ stage = "reading" /\ request.stream /\ left # <<>> /\ stage' = stage
        /\ UNCHANGED <<request, stage, retries, whole, reply, store, got, clock>>
    BY DEF ResponsesInv, ReadLine
  <1>2. rt \in Live(retries = 0) /\ (retries = 0) \in BOOLEAN /\ request.thinking \in BOOLEAN
    BY <1>1, RequestRead DEF ResponsesInv, RtKept, RuntimeKept
  <1>3. PICK n \in 1..Len(Head(left).text) \union {Len(Head(left).text)} : ReadsOn(LineOf(NextPiece(n)), n)
    BY DEF ReadLine
  <1>4. NextPiece(n) \in Frames /\ Rest(n) \in Seq(Frames)
    BY <1>1, PieceTyped
  <1>. DEFINE line == LineOf(NextPiece(n))
              first == retries = 0
  <1>5. line \in Lines
    <2>1. rt.type \in PartTypes
      BY <1>2, SifterRead
    <2>. QED BY <1>2, <1>4, <2>1, LineRead DEF LineOf
  <1>. HIDE DEF line, first
  <1>6. onParsed(rt, line, request) \in Live(first)
    <2>1. first \in BOOLEAN /\ rt \in Live(first)
      BY <1>2 DEF first
    <2>. QED BY <1>5, <2>1, LineTold
  <1>7. rt' \in Live(first) /\ left' \in Seq(Frames)
    <2>1. rt' = (IF line.parsed THEN onParsed(rt, line, request) ELSE rt) /\ left' = Rest(n)
      BY <1>3 DEF ReadsOn, line
    <2>. QED BY <1>2, <1>4, <1>6, <2>1 DEF first
  <1>8. StageKept'
    BY <1>1, <1>7 DEF StageKept
  <1>9. RtKept'
    BY <1>1, <1>7 DEF RtKept, RuntimeKept, first
  <1>. QED BY <1>1, <1>8, <1>9, NotYetOver

LEMMA EndReadKept ==
    ASSUME ResponsesInv, ReadEnd \/ BreaksOff
    PROVE  ResponsesInv'
  <1>1. StageKept /\ stage = "reading" /\ request.stream /\ UNCHANGED <<request, retries, got, clock>> /\ left' = <<>>
    BY DEF ResponsesInv, ReadEnd, BreaksOff
  <1>2. left' \in Seq(Frames)
    BY <1>1, EmptySeq
  <1>3. CASE ReadEnd
    <2>. DEFINE line == LineOf(Head(left))
    <2>1. left # <<>> /\ EndOfAttempt(line.filter \/ line.error)
      BY <1>3 DEF ReadEnd, EndsByLine
    <2>2. line \in Lines
      <3>1. rt.type \in PartTypes /\ request.thinking \in BOOLEAN
        <4>1. rt \in Live(retries = 0) /\ (retries = 0) \in BOOLEAN /\ request.thinking \in BOOLEAN
          BY <1>1, RequestRead DEF ResponsesInv, RtKept, RuntimeKept
        <4>. QED BY <4>1, SifterRead
      <3>2. Head(left) \in Frames
        BY <1>1, <2>1, PieceTyped
      <3>. QED BY <3>1, <3>2, LineRead DEF LineOf
    <2>. HIDE DEF line
    <2>3. line.filter \in BOOLEAN /\ line.error \in BOOLEAN
      BY <2>2 DEF Lines
    <2>4. (line.filter \/ line.error) \in BOOLEAN
      BY <2>3
    <2>. DEFINE filtered == line.filter \/ line.error
    <2>5. filtered \in BOOLEAN /\ EndOfAttempt(filtered)
      BY <2>1, <2>4
    <2>. HIDE DEF filtered
    <2>. QED BY <1>1, <1>2, <2>5, EndKept
  <1>4. CASE BreaksOff
    <2>1. EndOfAttempt(FALSE) /\ FALSE \in BOOLEAN
      BY <1>4 DEF BreaksOff
    <2>. QED BY <1>1, <1>2, <2>1, EndKept
  <1>. QED BY <1>3, <1>4

LEMMA RetryKept ==
    ASSUME ResponsesInv, RetryOpens \/ RetryFails
    PROVE  ResponsesInv'
  <1>1. StageKept /\ RtKept /\ stage = "retrying" /\ retries = 0 /\ retries' = 1 /\ store = {} /\ clock = 0
    BY DEF ResponsesInv, StageKept, RetryOpens, RetryFails
  <1>2. 1 \in 0..MaxRetries /\ request.stream \in BOOLEAN /\ request.thinking \in BOOLEAN
    BY <1>1, RequestRead DEF MaxRetries
  <1>3. CASE RetryOpens
    <2>. USE DEF RetryOpens
    <2>. DEFINE t == InitialType(request.thinking)
    <2>1. t \in PartTypes
      BY DEF InitialType, PartTypes
    <2>2. rt' = [rt EXCEPT !.type = t]
      BY <1>3
    <2>. HIDE DEF t
    <2>3. StageKept'
      BY <1>1, <1>2, <1>3, ResponsesAssumption DEF StageKept
    <2>4. CASE request.stream
      <3>1. rt \in Live(FALSE)
        BY <1>1, <2>4 DEF RtKept, RuntimeKept, Closed
      <3>2. [rt EXCEPT !.type = t] \in Live(FALSE)
        <4>1. rt.sieve \in Sieves(STRING) /\ rt.text \in Text /\ rt.id \in Nat
          BY <3>1, SifterRead
        <4>. QED BY <2>1, <3>1, <4>1, Noticed
      <3>3. (retries' = 0) = FALSE
        BY <1>1
      <3>4. RtKept'
        BY <1>3, <2>2, <2>4, <3>2, <3>3 DEF RtKept, RuntimeKept
      <3>. QED BY <1>1, <1>3, <2>3, <3>4, NotYetOver
    <2>5. CASE ~request.stream
      <3>1. PICK u \in PartTypes : rt = [NewRuntime EXCEPT !.type = u]
        BY <1>1, <2>5 DEF RtKept
      <3>2. rt' = [NewRuntime EXCEPT !.type = t]
        BY <2>2, <3>1
      <3>3. RtKept'
        BY <1>3, <2>1, <2>5, <3>2 DEF RtKept
      <3>. QED BY <1>1, <1>3, <2>3, <3>3, NotYetOver
    <2>. QED BY <2>4, <2>5
  <1>4. CASE RetryFails
    <2>. USE DEF RetryFails
    <2>1. StageKept'
      BY <1>1, <1>2, <1>4 DEF StageKept
    <2>2. CASE request.stream
      <3>1. Closed(rt, TRUE)
        BY <1>1, <2>2 DEF RtKept, RuntimeKept
      <3>2. Closed(rt, FALSE)
        BY <3>1 DEF Closed
      <3>. DEFINE q == failResponse(rt)
      <3>3. FALSE \in BOOLEAN
        OBVIOUS
      <3>4. EndsWell(q, FALSE) /\ q.terminal /\ q.sent # <<>>
        BY <3>2, <3>3, FailureTold
      <3>. HIDE DEF q
      <3>5. rt' = q /\ reply' = ReplyOf(rt') /\ put(request.owner, reply') /\ stage' = "over"
        BY <1>4, <2>2 DEF q
      <3>6. Concluded(q, FALSE)
        BY <3>4 DEF EndsWell
      <3>7. (retries' = 0) = FALSE /\ request' = request
        BY <1>1, <1>4
      <3>8. StoreKept' /\ StoredIsWhatWasSent'
        BY <1>1, <1>4, <3>4, <3>5, OpenedStored
      <3>. HIDE DEF RetryFails
      <3>9. Concluded(rt', retries' = 0)
        BY <3>5, <3>6, <3>7
      <3>10. RtKept'
        BY <2>2, <3>5, <3>7, <3>9 DEF RtKept, RuntimeKept
      <3>. QED BY <2>1, <3>8, <3>10 DEF ResponsesInv
    <2>3. CASE ~request.stream
      <3>1. reply'.status # 200 /\ UNCHANGED <<rt, store, request>>
        BY <1>4, <2>3 DEF NoReply
      <3>. HIDE DEF RetryFails
      <3>2. rt.sent = <<>>
        BY <1>1, <2>3, NewRuntimeKept DEF RtKept
      <3>3. RtKept'
        BY <1>1, <2>3, <3>1 DEF RtKept
      <3>4. StoreKept' /\ StoredIsWhatWasSent'
        BY <1>1, <1>4, <3>1, <3>2, NothingStored DEF RetryFails
      <3>. QED BY <2>1, <3>3, <3>4 DEF ResponsesInv
    <2>. QED BY <2>2, <2>3
  <1>. QED BY <1>3, <1>4

LEMMA CollectKept ==
    ASSUME ResponsesInv, CollectAttempt
    PROVE  ResponsesInv'
  <1>. DEFINE c == Collect(left, request, whole)
  <1>1. StageKept /\ RtKept /\ stage = "reading" /\ ~request.stream /\ EndsAttempt(c) /\ left' = <<>>
        /\ UNCHANGED <<request, retries, rt, got, clock>> /\ <<>> \in Seq(Frames)
    BY EmptySeq DEF ResponsesInv, CollectAttempt
  <1>2. RtKept' /\ rt.sent = <<>>
    BY <1>1, NewRuntimeKept DEF RtKept
  <1>3. MaxRetries = 1 /\ retries \in 0..MaxRetries
    BY <1>1 DEF StageKept, MaxRetries
  <1>. HIDE DEF c
  <1>4. CASE shouldRetryResponsesNonStream(c)
    <2>1. stage' = "retrying" /\ UNCHANGED <<reply, store>>
      BY <1>1, <1>4 DEF EndsAttempt
    <2>2. retries = 0
      BY <1>3, <1>4 DEF shouldRetryResponsesNonStream
    <2>3. StageKept'
      BY <1>1, <2>1, <2>2 DEF StageKept
    <2>. QED BY <1>1, <1>2, <2>1, <2>3, NotYetOver
  <1>5. CASE ~shouldRetryResponsesNonStream(c)
    <2>1. stage' = "over" /\ finishResponsesNonStreamResult(c)
      BY <1>1, <1>5 DEF EndsAttempt
    <2>2. StageKept'
      BY <1>1, <2>1 DEF StageKept
    <2>. DEFINE object == [status |-> 200, text |-> IF c.calls > 0 THEN <<>> ELSE c.text, calls |-> c.calls]
    <2>3. \/ reply'.status # 200 /\ UNCHANGED store
          \/ reply' = object /\ put(request.owner, object)
      <3>1. UpstreamEmptyOutputDetail(c.filter).status # 200
        BY DEF UpstreamEmptyOutputDetail
      <3>. QED BY <2>1, <3>1 DEF finishResponsesNonStreamResult, NoReply
    <2>4. StoreKept' /\ StoredIsWhatWasSent'
      <3>1. CASE reply'.status # 200 /\ UNCHANGED store
        BY <1>1, <1>2, <2>1, <3>1, NothingStored
      <3>2. CASE reply' = object /\ put(request.owner, object)
        <4>1. object.status = 200
          OBVIOUS
        <4>. HIDE DEF object
        <4>. QED BY <1>1, <2>1, <3>2, <4>1, OpenedStored
      <3>. QED BY <2>3, <3>1, <3>2
    <2>. QED BY <1>2, <2>2, <2>4 DEF ResponsesInv
  <1>. QED BY <1>4, <1>5

LEMMA LaterKept ==
    ASSUME ResponsesInv, Tick \/ \E owner \in Owners : GetResponseByID(owner)
    PROVE  ResponsesInv'
  <1>1. StageKept /\ RtKept /\ stage = "over" /\ stage' = "over" /\ StoreKept
        /\ UNCHANGED <<request, left, read, retries, rt, whole, reply>>
    BY DEF ResponsesInv, Tick, GetResponseByID
  <1>2. StoreTTL \in Nat /\ MaxClock \in Nat /\ clock \in Int /\ clock >= 0 /\ clock <= MaxClock
    BY <1>1, RequestRead DEF StageKept
  <1>3. RtKept' /\ Entry' = Entry
    BY <1>1 DEF RtKept, RuntimeKept, Entry
  <1>. DEFINE opened == rt.sent # <<>> \/ reply.status = 200
  <1>4. /\ opened' <=> opened
        /\ store \subseteq (IF opened THEN {Entry} ELSE {})
        /\ opened /\ clock <= StoreTTL => store = {Entry}
    BY <1>1 DEF StoreKept
  <1>. HIDE DEF opened
  <1>5. CASE Tick
    <2>1. clock' = clock + 1 /\ clock' \in 0..MaxClock /\ (clock' <= StoreTTL => clock <= StoreTTL) /\ store' = store
          /\ got'.owner = NoOne
      BY <1>2, <1>5 DEF Tick
    <2>2. StageKept'
      BY <1>1, <2>1 DEF StageKept
    <2>3. StoreKept'
      BY <1>1, <1>3, <1>4, <2>1 DEF StoreKept, opened
    <2>4. StoredIsWhatWasSent'
      BY <2>1 DEF StoredIsWhatWasSent
    <2>. QED BY <1>3, <2>2, <2>3, <2>4 DEF ResponsesInv
  <1>6. CASE \E owner \in Owners : GetResponseByID(owner)
    <2>1. PICK owner \in Owners : GetResponseByID(owner)
      BY <1>6
    <2>. DEFINE fresh == sweepLocked(store)
                mine == {x \in fresh : x.owner = owner}
    <2>2. /\ store' = fresh /\ clock' = clock
          /\ got' = [owner |-> owner, object |-> IF mine = {} THEN NoReply ELSE (CHOOSE x \in mine : TRUE).object]
      BY <2>1 DEF GetResponseByID
    <2>3. Entry.deadline = StoreTTL /\ Entry.owner = request.owner /\ Entry.object = reply
      BY DEF Entry
    <2>4. fresh = IF opened /\ clock <= StoreTTL THEN {Entry} ELSE {}
      BY <1>2, <1>4, <2>3 DEF sweepLocked
    <2>. HIDE DEF fresh
    <2>5. mine = IF opened /\ clock <= StoreTTL /\ owner = request.owner THEN {Entry} ELSE {}
      BY <2>3, <2>4
    <2>. HIDE DEF mine
    <2>6. opened /\ clock <= StoreTTL /\ owner = request.owner => (CHOOSE x \in mine : TRUE) = Entry /\ mine # {}
      BY <2>5
    <2>7. got'.owner = owner /\ got'.object = IF owner = request.owner /\ clock <= StoreTTL /\ opened THEN reply ELSE NoReply
      BY <2>2, <2>3, <2>5, <2>6
    <2>8. StageKept'
      BY <1>1, <2>2 DEF StageKept
    <2>9. StoreKept'
      BY <1>1, <1>3, <1>4, <2>2, <2>4 DEF StoreKept, opened
    <2>10. StoredIsWhatWasSent'
      BY <1>1, <2>2, <2>7 DEF StoredIsWhatWasSent, opened
    <2>. QED BY <1>3, <2>8, <2>9, <2>10, <1>1 DEF ResponsesInv
  <1>. QED BY <1>5, <1>6

LEMMA ResponseStep == ResponsesInv /\ [ResponsesNext]_responsesVars => ResponsesInv'
  <1>. SUFFICES ASSUME ResponsesInv, [ResponsesNext]_responsesVars PROVE ResponsesInv'
    OBVIOUS
  <1>1. CASE UNCHANGED responsesVars
    BY <1>1 DEF responsesVars, ResponsesInv, StageKept, RtKept, RuntimeKept, StoreKept, Entry, StoredIsWhatWasSent
  <1>2. CASE ResponsesNext
    BY <1>2, OpeningKept, LineReadKept, EndReadKept, RetryKept, CollectKept, LaterKept DEF ResponsesNext
  <1>. QED BY <1>1, <1>2

\* The inductive invariant holds of every response.
LEMMA ResponsesKept == ResponsesSpec => []ResponsesInv
  BY InitKept, ResponseStep, PTL DEF ResponsesSpec

\* Within its time the owner of a response, and nobody else, is given by its id
\* what was sent, whatever the upstream said and however often it was asked.
THEOREM ResponsesStored == ResponsesSpec => []StoredIsWhatWasSent
  <1>1. ResponsesInv => StoredIsWhatWasSent
    BY DEF ResponsesInv
  <1>. QED BY <1>1, ResponsesKept, PTL

\* What there is of the events of a response in any state: those of b, which is
\* kept, and, when it is over, the last one.
StreamOf(b, n) ==
    /\ b \in Kept(0, FALSE) /\ n = Len(b.sent) /\ n \in Nat /\ DOMAIN b.sent = 1..n
    /\ \A i \in 1..n : i \in DOMAIN rt.sent /\ rt.sent[i] = b.sent[i] /\ b.sent[i].ev \in Names
    /\ \A i \in DOMAIN rt.sent : i \in 1..n \/
          (i = n + 1 /\ i = Len(rt.sent) /\ rt.sent[i].ev \in {"completed", "failed"} /\ rt.sent[i].item = 0)
    /\ stage = "over" /\ rt.sent # <<>> => n + 1 \in DOMAIN rt.sent
    /\ rt.message = b.message /\ rt.index = b.index /\ rt.added = b.added /\ rt.nextItem = b.nextItem
    /\ rt.nextOutput = b.nextOutput /\ rt.functions = b.functions
    /\ stage = "over" => MessageDone(b)
    /\ retries = 0 => Fresh(b) \/ DoneLast(b)
    /\ DeltasOf(rt.sent) = b.visible
    /\ Answered => TellsOf(b, Final(rt.sent)) /\ Final(rt.sent).ev = "completed"

LEMMA StillOpen ==
    ASSUME rt \in Kept(0, FALSE), stage = "over" => rt.sent = <<>> /\ MessageDone(rt) /\ ~Answered,
           retries = 0 => Fresh(rt) \/ DoneLast(rt)
    PROVE  StreamOf(rt, Len(rt.sent))
  <1>1. rt.sent \in Seq(Utterances) /\ DeltasOf(rt.sent) = rt.visible
    BY DEF Kept, Well, Runtimes
  <1>2. Len(rt.sent) \in Nat /\ DOMAIN rt.sent = 1..Len(rt.sent) /\ \A i \in 1..Len(rt.sent) : rt.sent[i].ev \in Names
    <2>1. Len(rt.sent) \in Nat /\ DOMAIN rt.sent = 1..Len(rt.sent) /\ \A i \in 1..Len(rt.sent) : rt.sent[i] \in Utterances
      BY <1>1, Members
    <2>. QED BY <2>1 DEF Utterances
  <1>. QED BY <1>1, <1>2 DEF StreamOf, Answered

LEMMA StreamEnded ==
    ASSUME NEW first \in BOOLEAN, Concluded(rt, first), reply = ReplyOf(rt), (retries = 0) => first
    PROVE  StreamOf(Before(rt), Len(Before(rt).sent))
  <1>. DEFINE b == Before(rt)
              e == Final(rt.sent)
              n == Len(b.sent)
              X == Utterances \union {e}
  <1>1. /\ Closed(b, first) /\ TellsOf(b, e) /\ rt.sent = Append(b.sent, e) /\ rt.sent # <<>>
        /\ rt.message = b.message /\ rt.index = b.index /\ rt.added = b.added /\ rt.nextItem = b.nextItem
        /\ rt.nextOutput = b.nextOutput /\ rt.functions = b.functions
    BY ConcludedEvents
  <1>. HIDE DEF b, e
  <1>2. b \in Kept(0, FALSE) /\ b.sent \in Seq(Utterances) /\ b.visible = DeltasOf(b.sent) /\ b.visible \in Text
        /\ MessageDone(b) /\ (first => DoneLast(b))
    BY <1>1 DEF Closed, Live, Kept, Well, Runtimes
  <1>3. n \in Nat /\ DOMAIN b.sent = 1..n /\ \A i \in 1..n : b.sent[i] \in Utterances
    BY <1>2, Members
  <1>4. e.ev \in {"completed", "failed"} /\ e.item = 0 /\ e.text \in Text
    BY <1>1 DEF TellsOf
  <1>5. b.sent \in Seq(X) /\ e \in X /\ \A x \in X : x.text \in Text
    <2>1. b.sent \in [1..n -> Utterances]
      BY <1>2, LenProperties
    <2>2. b.sent \in [1..n -> X]
      BY <2>1
    <2>3. b.sent \in Seq(X)
      BY <1>3, <2>2, SeqDef
    <2>4. \A x \in Utterances : x.text \in Text
      BY DEF Utterances
    <2>. QED BY <1>4, <2>3, <2>4
  <1>. HIDE DEF X
  <1>6. /\ Len(rt.sent) = n + 1 /\ DOMAIN rt.sent = 1..(n + 1) /\ rt.sent[n + 1] = e
        /\ \A i \in 1..n : rt.sent[i] = b.sent[i]
    <2>1. /\ Append(b.sent, e) \in Seq(X) /\ Len(Append(b.sent, e)) = n + 1 /\ Append(b.sent, e)[n + 1] = e
          /\ \A i \in 1..n : Append(b.sent, e)[i] = b.sent[i]
      BY <1>5, AppendProperties
    <2>2. DOMAIN Append(b.sent, e) = 1..(n + 1)
      BY <2>1, Members
    <2>. QED BY <1>1, <2>1, <2>2
  <1>7. DeltasOf(rt.sent) = b.visible
    <2>1. DeltasOf(Append(b.sent, e)) = DeltasOf(b.sent) \o Delta(e)
      BY <1>5, DeltasGrow
    <2>2. Delta(e) = <<>>
      BY <1>4 DEF Delta
    <2>3. b.visible \o <<>> = b.visible
      BY <1>2, ConcatEmptySeq DEF Text
    <2>. QED BY <1>1, <1>2, <2>1, <2>2, <2>3
  <1>8. \A i \in 1..n : i \in 1..(n + 1)
    BY <1>3
  <1>9. \A i \in 1..n : b.sent[i].ev \in Names
    BY <1>3 DEF Utterances
  <1>10. \A i \in 1..(n + 1) : i \in 1..n \/ i = n + 1
    BY <1>3
  <1>11. n + 1 \in 1..(n + 1)
    BY <1>3
  <1>12. Answered => e.ev = "completed"
    BY <1>4 DEF Answered, ReplyOf, e
  <1>13. StreamOf(b, n)
    <2>. HIDE DEF n
    <2>1. \A i \in 1..n : i \in DOMAIN rt.sent /\ rt.sent[i] = b.sent[i] /\ b.sent[i].ev \in Names
      BY <1>6, <1>8, <1>9
    <2>2. \A i \in DOMAIN rt.sent : i \in 1..n \/
            (i = n + 1 /\ i = Len(rt.sent) /\ rt.sent[i].ev \in {"completed", "failed"} /\ rt.sent[i].item = 0)
      BY <1>4, <1>6, <1>10
    <2>3. n = Len(b.sent)
      BY DEF n
    <2>4. n + 1 \in DOMAIN rt.sent
      BY <1>6, <1>11
    <2>5. Answered => TellsOf(b, Final(rt.sent)) /\ Final(rt.sent).ev = "completed"
      BY <1>1, <1>12 DEF e
    <2>. QED BY <1>1, <1>2, <1>3, <1>7, <2>1, <2>2, <2>3, <2>4, <2>5 DEF StreamOf
  <1>. QED BY <1>13 DEF b, n

LEMMA StreamExists ==
    ASSUME ResponsesInv
    PROVE  \E b, n : StreamOf(b, n)
  <1>. DEFINE first == retries = 0
  <1>1. StageKept /\ RtKept /\ first \in BOOLEAN /\ request.stream \in BOOLEAN
    BY RequestRead DEF ResponsesInv
  <1>2. ASSUME NEW t \in PartTypes, rt = [NewRuntime EXCEPT !.type = t], stage = "over" => ~Answered
        PROVE  \E b, n : StreamOf(b, n)
    <2>1. NewRuntime \in Kept(0, TRUE) /\ NewRuntime.sent = <<>> /\ NewRuntime \in Runtimes
      BY NewRuntimeKept DEF Kept
    <2>2. /\ rt \in Runtimes /\ rt.sent = <<>> /\ rt.visible = NewRuntime.visible /\ rt.nextItem = NewRuntime.nextItem
          /\ rt.nextOutput = NewRuntime.nextOutput /\ rt.message = NewRuntime.message /\ rt.index = NewRuntime.index
          /\ rt.added = NewRuntime.added /\ rt.part = NewRuntime.part /\ rt.functions = NewRuntime.functions
      BY <1>2, <2>1 DEF Runtimes
    <2>3. ~NewRuntime.added
      BY DEF NewRuntime
    <2>4. Kept(0, TRUE) \subseteq Kept(0, FALSE)
      BY DEF Kept
    <2>5. rt \in Kept(0, FALSE)
      BY <2>1, <2>2, <2>4, Unheard
    <2>6. DOMAIN <<>> = {}
      OBVIOUS
    <2>7. MessageDone(rt) /\ Fresh(rt)
      BY <2>2, <2>3, <2>6 DEF MessageDone, Fresh
    <2>. QED BY <1>2, <2>2, <2>5, <2>7, StillOpen
  <1>3. ASSUME rt = NewRuntime, stage = "over" => ~Answered PROVE \E b, n : StreamOf(b, n)
    <2>1. rt = [NewRuntime EXCEPT !.type = "text"] /\ "text" \in PartTypes
      BY <1>3, NewRuntimeKept DEF PartTypes
    <2>. QED BY <1>2, <1>3, <2>1
  <1>4. CASE ~request.stream
    BY <1>1, <1>2, <1>4 DEF RtKept, Answered
  <1>5. CASE request.stream /\ stage = "opening"
    BY <1>1, <1>3, <1>5 DEF StageKept
  <1>6. CASE request.stream /\ stage = "reading"
    <2>1. rt \in Kept(0, FALSE) /\ (retries = 0 => Fresh(rt))
      BY <1>1, <1>6 DEF RtKept, RuntimeKept, Live, Kept
    <2>. QED BY <1>6, <2>1, StillOpen
  <1>7. CASE request.stream /\ stage = "retrying"
    <2>1. rt \in Kept(0, FALSE) /\ DoneLast(rt)
      BY <1>1, <1>7 DEF RtKept, RuntimeKept, Closed, Live
    <2>. QED BY <1>7, <2>1, StillOpen
  <1>8. CASE request.stream /\ stage = "over"
    <2>1. CASE rt = NewRuntime /\ reply.status = 500
      BY <1>3, <2>1 DEF Answered
    <2>2. CASE Concluded(rt, retries = 0) /\ reply = ReplyOf(rt)
      <3>1. Concluded(rt, first)
        BY <2>2
      <3>2. (retries = 0) => first
        OBVIOUS
      <3>. HIDE DEF first
      <3>. QED BY <1>1, <2>2, <3>1, <3>2, StreamEnded
    <2>. QED BY <1>1, <1>8, <2>1, <2>2 DEF RtKept, RuntimeKept
  <1>. QED BY <1>1, <1>4, <1>5, <1>6, <1>7, <1>8 DEF StageKept

LEMMA ResponseTypes ==
    ASSUME ResponsesInv
    PROVE  ResponsesTypeOK
  <1>1. StageKept /\ StoreTTL \in Nat /\ StoreTTL > 0 /\ MaxClock \in Nat /\ request.owner \in Owners
    BY RequestRead DEF ResponsesInv
  <1>2. PICK b, n : StreamOf(b, n)
    BY StreamExists
  <1>3. b \in Runtimes /\ MessageKept(b) /\ CallsKept(b)
    BY <1>2 DEF StreamOf, Kept, Well
  <1>4. /\ rt.message = b.message /\ rt.index = b.index /\ rt.added = b.added /\ rt.nextItem = b.nextItem
        /\ rt.nextOutput = b.nextOutput /\ rt.functions = b.functions
    BY <1>2 DEF StreamOf
  <1>5. b.message < b.nextItem /\ b.index < b.nextOutput /\ (b.added => b.message > 0 /\ b.index >= 0)
    <2>1. b.nextItem \in Nat /\ b.nextOutput \in Nat /\ b.added \in BOOLEAN /\ b.nextItem > 0
      BY <1>3 DEF Runtimes, MessageKept
    <2>2. CASE b.added
      <3>1. b.message \in 1..(b.nextItem - 1) /\ b.index \in 0..(b.nextOutput - 1)
        BY <1>3, <2>2 DEF MessageKept
      <3>. QED BY <2>1, <3>1
    <2>3. CASE ~b.added
      <3>1. b.message = 0 /\ b.index = -1
        BY <1>3, <2>3 DEF MessageKept
      <3>. QED BY <2>1, <2>3, <3>1
    <2>. QED BY <2>1, <2>2, <2>3
  <1>6. \A i \in DOMAIN rt.functions : rt.functions[i].item < rt.nextItem /\ rt.functions[i].index < rt.nextOutput
    BY <1>3, <1>4 DEF CallsKept
  <1>7. \A x \in store : x.owner \in Owners /\ x.deadline \in 1..MaxClock + StoreTTL
    <2>1. store \subseteq {Entry}
      BY <1>1 DEF ResponsesInv, StageKept, StoreKept
    <2>2. Entry.owner \in Owners /\ Entry.deadline = StoreTTL
      BY <1>1 DEF Entry
    <2>. QED BY <1>1, <2>1, <2>2
  <1>. QED BY <1>1, <1>4, <1>5, <1>6, <1>7 DEF ResponsesTypeOK, StageKept

LEMMA EventsAgree ==
    ASSUME ResponsesInv
    PROVE  StreamEventsAgree
  <1>1. StageKept /\ retries \in Int /\ (retries = 0 \/ retries > 0)
    BY RequestRead DEF ResponsesInv, StageKept
  <1>2. PICK b, n : StreamOf(b, n)
    BY StreamExists
  <1>3. MessageKept(b) /\ AddedKept(b) /\ DoneKept(b, 0) /\ b \in Runtimes /\ n \in Nat /\ DOMAIN b.sent = 1..n
    BY <1>2 DEF StreamOf, Kept, Well
  <1>4. \A i \in 1..n : i \in DOMAIN rt.sent /\ rt.sent[i] = b.sent[i] /\ b.sent[i].ev \in Names
    BY <1>2 DEF StreamOf
  <1>5. \A i \in DOMAIN rt.sent : i \in 1..n \/
            (i = n + 1 /\ i = Len(rt.sent) /\ rt.sent[i].ev \in {"completed", "failed"} /\ rt.sent[i].item = 0)
    BY <1>2 DEF StreamOf
  <1>6. \A i \in DOMAIN rt.sent : rt.sent[i].item # 0 \/ rt.sent[i].ev \in Names => i \in 1..n
    BY <1>5 DEF Names
  <1>7. rt.message = b.message /\ rt.index = b.index /\ rt.added = b.added
    BY <1>2 DEF StreamOf
  <1>8. ASSUME NEW item \in Items
        PROVE  /\ \E i \in SentOf(item, "item.added") :
                    /\ SentOf(item, "item.added") = {i}
                    /\ \A j \in DOMAIN rt.sent : rt.sent[j].item = item => i <= j
               /\ stage = "over" => SentOf(item, "item.done") # {}
               /\ ~(EmptyRetried /\ item = rt.message) =>
                    \A i \in SentOf(item, "item.done"), j \in DOMAIN rt.sent : rt.sent[j].item = item => j <= i
    <2>1. PICK m \in 1..n : rt.sent[m].item = item /\ item # 0
      BY <1>6 DEF Items
    <2>2. b.sent[m].item = item
      BY <1>4, <2>1
    <2>3. PICK i \in 1..m : Is(b, i, "item.added", item)
      BY <1>3, <2>1, <2>2 DEF AddedKept
    <2>4. i \in 1..n /\ i \in SentOf(item, "item.added")
      <3>1. i \in 1..n
        BY <1>3, <2>1
      <3>. QED BY <1>4, <2>3, <3>1 DEF SentOf, Sent, Is
    <2>5. ASSUME NEW k \in SentOf(item, "item.added") PROVE k = i
      <3>1. k \in 1..n /\ Is(b, k, "item.added", item)
        BY <1>4, <1>6, <2>1, <2>5 DEF SentOf, Sent, Is
      <3>. QED BY <1>3, <2>3, <2>4, <3>1 DEF AddedKept, Is
    <2>6. SentOf(item, "item.added") = {i}
      BY <2>4, <2>5
    <2>7. ASSUME NEW j \in DOMAIN rt.sent, rt.sent[j].item = item PROVE i <= j
      <3>1. j \in 1..n /\ b.sent[j].item = item
        BY <1>4, <1>6, <2>1, <2>7
      <3>2. PICK k \in 1..j : Is(b, k, "item.added", item)
        BY <1>3, <2>1, <3>1 DEF AddedKept
      <3>3. k \in 1..n
        BY <1>3, <3>1
      <3>4. k \in SentOf(item, "item.added")
        BY <1>4, <3>2, <3>3 DEF SentOf, Sent, Is
      <3>. QED BY <2>5, <3>1, <3>2, <3>4
    <2>8. ASSUME stage = "over" PROVE SentOf(item, "item.done") # {}
      <3>1. \E k \in 1..n : Is(b, k, "item.done", item)
        <4>1. CASE item = b.message
          <5>1. b.added
            BY <1>3, <2>1, <4>1 DEF MessageKept
          <5>. QED BY <1>2, <1>3, <2>8, <4>1, <5>1 DEF StreamOf, MessageDone
        <4>2. CASE item # b.message
          BY <1>3, <2>1, <2>2, <4>2 DEF DoneKept
        <4>. QED BY <4>1, <4>2
      <3>. QED BY <1>4, <3>1 DEF SentOf, Sent, Is
    <2>9. ASSUME ~(EmptyRetried /\ item = rt.message), NEW d \in SentOf(item, "item.done"), NEW j \in DOMAIN rt.sent,
                 rt.sent[j].item = item
          PROVE  j <= d
      <3>1. d \in 1..n /\ j \in 1..n /\ Is(b, d, "item.done", item) /\ b.sent[j].item = item
        BY <1>4, <1>6, <2>1, <2>9 DEF SentOf, Sent, Is
      <3>2. CASE item # b.message
        BY <1>3, <3>1, <3>2 DEF DoneKept, Is
      <3>3. CASE item = b.message /\ retries = 0
        BY <1>2, <1>3, <3>1, <3>3 DEF StreamOf, Fresh, DoneLast, Is
      <3>4. CASE item = b.message /\ retries > 0
        <4>1. PICK k \in 1..n : Is(b, k, "text.done", b.message) /\ k + 2 <= d
          BY <1>3, <3>1, <3>4 DEF DoneKept
        <4>2. ASSUME ~(j <= d) PROVE FALSE
          <5>1. k + 3 \in 1..n
            BY <1>3, <3>1, <4>1, <4>2
          <5>2. k + 3 \in DOMAIN rt.sent /\ rt.sent[k + 3].ev \notin {"completed", "failed"}
            BY <1>4, <5>1 DEF Names
          <5>3. k \in Sent("text.done")
            BY <1>4, <4>1 DEF Sent, Is
          <5>4. EmptyRetried
            BY <3>4, <5>2, <5>3 DEF EmptyRetried
          <5>. QED BY <1>7, <2>9, <3>4, <5>4
        <4>. QED BY <4>2
      <3>. QED BY <1>1, <3>2, <3>3, <3>4
    <2>. QED BY <2>4, <2>6, <2>7, <2>8, <2>9
  <1>9. ASSUME NEW i \in Sent("item.added"), NEW j \in Sent("item.added"), i # j PROVE rt.sent[i].index # rt.sent[j].index
    <2>1. i \in 1..n /\ j \in 1..n /\ b.sent[i] = rt.sent[i] /\ b.sent[j] = rt.sent[j]
          /\ b.sent[i].ev = "item.added" /\ b.sent[j].ev = "item.added"
      BY <1>4, <1>6 DEF Sent, Names
    <2>. QED BY <1>3, <1>9, <2>1 DEF AddedKept
  <1>10. ASSUME stage = "over", rt.sent # <<>> PROVE Sent("completed") \union Sent("failed") # {}
    <2>1. n + 1 \in DOMAIN rt.sent /\ n + 1 \notin 1..n
      BY <1>2, <1>3, <1>10 DEF StreamOf
    <2>. QED BY <1>5, <2>1 DEF Sent
  <1>11. \A i \in Sent("completed") \union Sent("failed") : i = Len(rt.sent)
    <2>1. ASSUME NEW i \in DOMAIN rt.sent, rt.sent[i].ev \in {"completed", "failed"} PROVE i = Len(rt.sent)
      <3>1. i \notin 1..n
        BY <1>4, <2>1 DEF Names
      <3>. QED BY <1>5, <3>1
    <2>. QED BY <2>1 DEF Sent
  <1>12. ASSUME Answered, NEW o \in Final(rt.sent).output, o.kind = "message", rt.added
         PROVE  o = [kind |-> "message", item |-> rt.message, index |-> rt.index, text |-> Streamed]
    <2>1. Streamed = b.visible
      BY <1>2 DEF StreamOf, Streamed, DeltasOf
    <2>2. TellsOf(b, Final(rt.sent)) /\ Final(rt.sent).ev = "completed"
      BY <1>2, <1>12 DEF StreamOf
    <2>. QED BY <1>7, <1>12, <2>1, <2>2 DEF TellsOf
  <1>. QED BY <1>8, <1>9, <1>10, <1>11, <1>12 DEF StreamEventsAgree

\* The request, its stream and the store have their types: the ids and places
\* given to the message and to the calls are below those to be given next.
THEOREM ResponsesTyped == ResponsesSpec => []ResponsesTypeOK
  BY ResponseTypes, ResponsesKept, PTL

\* However the upstream's text is cut, and whether the attempt ends, breaks off or
\* is retried, the events of a stream are those of one response: each item is
\* added once and first, at a place of its own, and done once and last; one
\* terminal event ends the stream, and tells the message as it was streamed.
THEOREM ResponseEventsAgree == ResponsesSpec => []StreamEventsAgree
  BY EventsAgree, ResponsesKept, PTL

-----------------------------------------------------------------------------
\* The five front ends together

LEMMA FrontStepApart ==
    ASSUME [FrontNext]_frontVars
    PROVE  /\ [ResponsesNext]_responsesVars /\ [VercelNext]_vercelVars /\ [NodeNext]_nodeVars
           /\ [FilesNext]_uploadVars /\ [TranslatedNext]_translatedVars
  <1>1. CASE UNCHANGED frontVars
    BY <1>1 DEF frontVars
  <1>2. CASE FrontNext
    BY <1>2 DEF FrontNext
  <1>. QED BY <1>1, <1>2

\* A behaviour of the five front ends is, seen through the variables of any one,
\* a behaviour of that one: what is proved of each holds of them together.
THEOREM FrontEndsApart ==
    FrontSpec => ResponsesSpec /\ VercelSpec /\ NodeSpec /\ FilesSpec /\ TranslatedSpec
  <1>1. FrontInit => ResponsesInit /\ VercelInit /\ NodeInit /\ FilesInit /\ TranslatedInit
    BY DEF FrontInit
  <1>2. [FrontNext]_frontVars => /\ [ResponsesNext]_responsesVars /\ [VercelNext]_vercelVars /\ [NodeNext]_nodeVars
                                 /\ [FilesNext]_uploadVars /\ [TranslatedNext]_translatedVars
    BY FrontStepApart
  <1>. QED BY <1>1, <1>2, PTL DEF FrontSpec, ResponsesSpec, VercelSpec, NodeSpec, FilesSpec, TranslatedSpec

\* Whichever front end is at work, the state of each has its type.
THEOREM FrontEndsTyped == FrontSpec => []FrontEndsTypeOK
  <1>1. ResponsesTypeOK /\ VercelTypeOK /\ NodeTypeOK /\ FilesTypeOK /\ TranslatedTypeOK => FrontEndsTypeOK
    BY DEF FrontEndsTypeOK
  <1>. QED BY <1>1, FrontEndsApart, ResponsesTyped, VercelTypeCorrect, NodeTyped, FilesTyped, TranslatedTypes, PTL
=============================================================================
