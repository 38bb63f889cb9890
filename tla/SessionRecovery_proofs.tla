----------------------- MODULE SessionRecovery_proofs -----------------------
(***************************************************************************)
(* Proofs about SessionRecovery, for every set of requests, every size of    *)
(* the pool and every bound on turns, steps and crashes.                    *)
(*                                                                         *)
(* The argument is about logs.  A log is legal when each event follows from  *)
(* the ones before it (Follows); what a legal log leaves open, how its turns *)
(* and steps are numbered and that its closed steps are answered follows by  *)
(* induction on its length.  That every log a session writes is legal, with  *)
(* or without a crash, follows by induction on the steps of the session.     *)
(***************************************************************************)
EXTENDS SessionRecovery, QueueLemmas, FiniteSetTheorems

-----------------------------------------------------------------------------
(* Folds.  Seen and ResultsOf run over a log; what they return for one event  *)
(* more depends on what they returned before it.                            *)

SeenFold(events, n, after) ==
    after = [i \in 0..n |-> IF i = 0 THEN Nothing ELSE Observe(after[i - 1], events[i])]

\* The fold of the first n events exists: a least n without one would be one
\* event longer than a fold.
LEMMA SeenFoldExists ==
    ASSUME NEW events, NEW n \in Nat
    PROVE  \E after : SeenFold(events, n, after)
  <1> DEFINE T == {m \in Nat : ~\E after : SeenFold(events, m, after)}
  <1>1. SUFFICES ASSUME T # {} PROVE FALSE
    OBVIOUS
  <1>2. PICK m \in T : \A k \in T : m <= k
    <2>1. T \subseteq Nat
      OBVIOUS
    <2> HIDE DEF T
    <2> QED
      BY <1>1, <2>1, LeastOf
  <1>3. m # 0
    <2> DEFINE none == [i \in 0..0 |-> Nothing]
    <2>1. none = [i \in 0..0 |-> IF i = 0 THEN Nothing ELSE Observe(none[i - 1], events[i])]
      OBVIOUS
    <2>2. SeenFold(events, 0, none)
      BY <2>1 DEF SeenFold
    <2> QED
      BY <2>2
  <1>4. m - 1 \in Nat /\ m - 1 \notin T
    BY <1>2, <1>3
  <1>5. PICK before : SeenFold(events, m - 1, before)
    BY <1>4
  <1> DEFINE after == [i \in 0..m |-> IF i < m THEN before[i] ELSE Observe(before[m - 1], events[m])]
  <1>6. \A i \in 0..m : after[i] = IF i = 0 THEN Nothing ELSE Observe(after[i - 1], events[i])
    <2>1. \A i \in 0..(m - 1) :
            before[i] = IF i = 0 THEN Nothing ELSE Observe(before[i - 1], events[i])
      BY <1>5 DEF SeenFold
    <2>2. TAKE i \in 0..m
    <2>3. CASE i = m
      <3>1. after[i] = Observe(before[m - 1], events[m]) /\ after[i - 1] = before[m - 1]
        BY <1>3, <2>3
      <3> QED
        BY <1>3, <2>3, <3>1
    <2>4. CASE i = 0
      BY <1>3, <2>1, <2>4
    <2>5. CASE i # m /\ i # 0
      <3>1. i \in 0..(m - 1) /\ i - 1 \in 0..m /\ i < m /\ i - 1 < m
        BY <2>5
      <3>2. after[i] = before[i] /\ after[i - 1] = before[i - 1]
        BY <3>1
      <3> QED
        BY <2>1, <2>5, <3>1, <3>2
    <2> QED
      BY <2>3, <2>4, <2>5
  <1>7. after = [i \in 0..m |-> after[i]]
    OBVIOUS
  <1> HIDE DEF after
  <1>8. SeenFold(events, m, after)
    BY <1>6, <1>7 DEF SeenFold
  <1> QED
    BY <1>2, <1>8

\* Folds of logs that agree so far agree.
LEMMA SeenFoldUnique ==
    ASSUME NEW es, NEW fs, NEW n \in Nat, NEW m \in Nat, NEW g, NEW h,
           SeenFold(es, n, g), SeenFold(fs, m, h), NEW k \in Nat, k <= n, k <= m,
           \A i \in 1..k : es[i] = fs[i]
    PROVE  g[k] = h[k]
  <1> DEFINE T == {i \in 0..k : g[i] # h[i]}
  <1>1. SUFFICES ASSUME T # {} PROVE FALSE
    OBVIOUS
  <1>2. PICK i \in T : \A j \in T : i <= j
    <2>1. T \subseteq Nat
      OBVIOUS
    <2> HIDE DEF T
    <2> QED
      BY <1>1, <2>1, LeastOf
  <1>3. /\ \A j \in 0..n : g[j] = IF j = 0 THEN Nothing ELSE Observe(g[j - 1], es[j])
        /\ \A j \in 0..m : h[j] = IF j = 0 THEN Nothing ELSE Observe(h[j - 1], fs[j])
    BY DEF SeenFold
  <1>4. i # 0
    BY <1>2, <1>3
  <1>5. i - 1 \in 0..k /\ i \in 1..k /\ i \in 0..n /\ i \in 0..m
    BY <1>2, <1>4
  <1>6. i - 1 \notin T
    <2> HIDE DEF T
    <2> QED
      BY <1>2, <1>5
  <1>7. g[i - 1] = h[i - 1]
    BY <1>5, <1>6
  <1> QED
    BY <1>2, <1>3, <1>4, <1>5, <1>7

LEMMA SeenIsFold ==
    ASSUME NEW events, Len(events) \in Nat
    PROVE  \E after : SeenFold(events, Len(events), after) /\ Seen(events) = after[Len(events)]
  <1> DEFINE fold == CHOOSE after : SeenFold(events, Len(events), after)
  <1>1. SeenFold(events, Len(events), fold)
    BY SeenFoldExists
  <1>2. Seen(events) = fold[Len(events)]
    BY DEF Seen, SeenFold
  <1> QED
    BY <1>1, <1>2

LEMMA SeenEmpty == Seen(<<>>) = Nothing
  <1>1. Len(<<>>) = 0
    BY EmptySeq
  <1> QED
    BY <1>1, SeenIsFold DEF SeenFold

\* One event more.
LEMMA SeenAppend ==
    ASSUME NEW S, NEW es \in Seq(S), NEW e \in S
    PROVE  Seen(Append(es, e)) = Observe(Seen(es), e)
  <1> DEFINE fs == Append(es, e)
             n == Len(es)
  <1>1. /\ n \in Nat /\ Len(fs) = n + 1 /\ fs[n + 1] = e
        /\ \A i \in 1..n : es[i] = fs[i]
    OBVIOUS
  <1> HIDE DEF fs
  <1>2. PICK g : SeenFold(es, n, g) /\ Seen(es) = g[n]
    BY <1>1, SeenIsFold
  <1>3. PICK h : SeenFold(fs, n + 1, h) /\ Seen(fs) = h[n + 1]
    BY <1>1, SeenIsFold
  <1>4. h[n + 1] = Observe(h[n], fs[n + 1])
    BY <1>1, <1>3 DEF SeenFold
  <1>5. g[n] = h[n]
    BY <1>1, <1>2, <1>3, SeenFoldUnique
  <1> QED
    BY <1>1, <1>2, <1>3, <1>4, <1>5 DEF fs

ResultsFold(events, t, s, n, after) ==
    after = [i \in 0..n |-> IF i = 0 THEN <<>> ELSE Collected(after[i - 1], events[i], t, s)]

\* The fold of the first n events exists: a least n without one would be one
\* event longer than a fold.
LEMMA ResultsFoldExists ==
    ASSUME NEW events, NEW t, NEW s, NEW n \in Nat
    PROVE  \E after : ResultsFold(events, t, s, n, after)
  <1> DEFINE T == {m \in Nat : ~\E after : ResultsFold(events, t, s, m, after)}
  <1>1. SUFFICES ASSUME T # {} PROVE FALSE
    OBVIOUS
  <1>2. PICK m \in T : \A k \in T : m <= k
    <2>1. T \subseteq Nat
      OBVIOUS
    <2> HIDE DEF T
    <2> QED
      BY <1>1, <2>1, LeastOf
  <1>3. m # 0
    <2> DEFINE none == [i \in 0..0 |-> <<>>]
    <2>1. none = [i \in 0..0 |-> IF i = 0 THEN <<>> ELSE Collected(none[i - 1], events[i], t, s)]
      OBVIOUS
    <2>2. ResultsFold(events, t, s, 0, none)
      BY <2>1 DEF ResultsFold
    <2> QED
      BY <2>2
  <1>4. m - 1 \in Nat /\ m - 1 \notin T
    BY <1>2, <1>3
  <1>5. PICK before : ResultsFold(events, t, s, m - 1, before)
    BY <1>4
  <1> DEFINE after == [i \in 0..m |-> IF i < m THEN before[i] ELSE Collected(before[m - 1], events[m], t, s)]
  <1>6. \A i \in 0..m : after[i] = IF i = 0 THEN <<>> ELSE Collected(after[i - 1], events[i], t, s)
    <2>1. \A i \in 0..(m - 1) :
            before[i] = IF i = 0 THEN <<>> ELSE Collected(before[i - 1], events[i], t, s)
      BY <1>5 DEF ResultsFold
    <2>2. TAKE i \in 0..m
    <2>3. CASE i = m
      <3>1. after[i] = Collected(before[m - 1], events[m], t, s) /\ after[i - 1] = before[m - 1]
        BY <1>3, <2>3
      <3> QED
        BY <1>3, <2>3, <3>1
    <2>4. CASE i = 0
      BY <1>3, <2>1, <2>4
    <2>5. CASE i # m /\ i # 0
      <3>1. i \in 0..(m - 1) /\ i - 1 \in 0..m /\ i < m /\ i - 1 < m
        BY <2>5
      <3>2. after[i] = before[i] /\ after[i - 1] = before[i - 1]
        BY <3>1
      <3> QED
        BY <2>1, <2>5, <3>1, <3>2
    <2> QED
      BY <2>3, <2>4, <2>5
  <1>7. after = [i \in 0..m |-> after[i]]
    OBVIOUS
  <1> HIDE DEF after
  <1>8. ResultsFold(events, t, s, m, after)
    BY <1>6, <1>7 DEF ResultsFold
  <1> QED
    BY <1>2, <1>8

\* Folds of logs that agree so far agree.
LEMMA ResultsFoldUnique ==
    ASSUME NEW es, NEW fs, NEW t, NEW s, NEW n \in Nat, NEW m \in Nat, NEW g, NEW h,
           ResultsFold(es, t, s, n, g), ResultsFold(fs, t, s, m, h), NEW k \in Nat, k <= n, k <= m,
           \A i \in 1..k : es[i] = fs[i]
    PROVE  g[k] = h[k]
  <1> DEFINE T == {i \in 0..k : g[i] # h[i]}
  <1>1. SUFFICES ASSUME T # {} PROVE FALSE
    OBVIOUS
  <1>2. PICK i \in T : \A j \in T : i <= j
    <2>1. T \subseteq Nat
      OBVIOUS
    <2> HIDE DEF T
    <2> QED
      BY <1>1, <2>1, LeastOf
  <1>3. /\ \A j \in 0..n : g[j] = IF j = 0 THEN <<>> ELSE Collected(g[j - 1], es[j], t, s)
        /\ \A j \in 0..m : h[j] = IF j = 0 THEN <<>> ELSE Collected(h[j - 1], fs[j], t, s)
    BY DEF ResultsFold
  <1>4. i # 0
    BY <1>2, <1>3
  <1>5. i - 1 \in 0..k /\ i \in 1..k /\ i \in 0..n /\ i \in 0..m
    BY <1>2, <1>4
  <1>6. i - 1 \notin T
    <2> HIDE DEF T
    <2> QED
      BY <1>2, <1>5
  <1>7. g[i - 1] = h[i - 1]
    BY <1>5, <1>6
  <1> QED
    BY <1>2, <1>3, <1>4, <1>5, <1>7

LEMMA ResultsIsFold ==
    ASSUME NEW events, NEW t, NEW s, Len(events) \in Nat
    PROVE  \E after : ResultsFold(events, t, s, Len(events), after) /\ ResultsOf(events, t, s) = after[Len(events)]
  <1> DEFINE fold == CHOOSE after : ResultsFold(events, t, s, Len(events), after)
  <1>1. ResultsFold(events, t, s, Len(events), fold)
    BY ResultsFoldExists
  <1>2. ResultsOf(events, t, s) = fold[Len(events)]
    BY DEF ResultsOf, ResultsFold
  <1> QED
    BY <1>1, <1>2

LEMMA ResultsEmpty == ASSUME NEW t, NEW s PROVE ResultsOf(<<>>, t, s) = <<>>
  <1>1. Len(<<>>) = 0
    BY EmptySeq
  <1> QED
    BY <1>1, ResultsIsFold DEF ResultsFold

LEMMA ResultsAppend ==
    ASSUME NEW S, NEW es \in Seq(S), NEW e \in S, NEW t, NEW s
    PROVE  ResultsOf(Append(es, e), t, s) = Collected(ResultsOf(es, t, s), e, t, s)
  <1> DEFINE fs == Append(es, e)
             n == Len(es)
  <1>1. /\ n \in Nat /\ Len(fs) = n + 1 /\ fs[n + 1] = e
        /\ \A i \in 1..n : es[i] = fs[i]
    OBVIOUS
  <1> HIDE DEF fs
  <1>2. PICK g : ResultsFold(es, t, s, n, g) /\ ResultsOf(es, t, s) = g[n]
    BY <1>1, ResultsIsFold
  <1>3. PICK h : ResultsFold(fs, t, s, n + 1, h) /\ ResultsOf(fs, t, s) = h[n + 1]
    BY <1>1, ResultsIsFold
  <1>4. h[n + 1] = Collected(h[n], fs[n + 1], t, s)
    BY <1>1, <1>3 DEF ResultsFold
  <1>5. g[n] = h[n]
    <2>1. n \in Nat /\ n + 1 \in Nat /\ n <= n /\ n <= n + 1 /\ \A i \in 1..n : es[i] = fs[i]
      BY <1>1
    <2>2. ResultsFold(es, t, s, n, g) /\ ResultsFold(fs, t, s, n + 1, h)
      BY <1>2, <1>3
    <2> HIDE DEF n
    <2> QED
      BY ONLY <2>1, <2>2, ResultsFoldUnique
  <1> QED
    BY <1>1, <1>2, <1>3, <1>4, <1>5 DEF fs

-----------------------------------------------------------------------------
(* Counts, and the other things said of a log, one event later. *)

\* Places in a sequence, with or without one more at its end.
LEMMA OneMorePlace ==
    ASSUME NEW n \in Nat, NEW P, NEW Q, P \subseteq 1..n, Q \subseteq 1..(n + 1),
           \A i \in 1..n : i \in P <=> i \in Q
    PROVE  /\ IsFiniteSet(P) /\ Cardinality(P) \in Nat
           /\ Cardinality(Q) = IF n + 1 \in Q THEN Cardinality(P) + 1 ELSE Cardinality(P)
  <1>1. IsFiniteSet(1..n)
    BY FS_Interval
  <1>2. IsFiniteSet(P)
    BY <1>1, FS_Subset
  <1>3. n + 1 \notin P
    OBVIOUS
  <1>4. Q = IF n + 1 \in Q THEN P \union {n + 1} ELSE P
    <2>1. \A i \in Q : i \in 1..n \/ i = n + 1
      OBVIOUS
    <2>2. \A i : i \in Q <=> i \in P \/ (i = n + 1 /\ n + 1 \in Q)
      BY <1>3, <2>1
    <2> QED
      BY <2>2
  <1>5. Cardinality(P \union {n + 1}) = Cardinality(P) + 1
    BY <1>2, <1>3, FS_AddElement
  <1> QED
    BY <1>2, <1>4, <1>5, FS_CardinalityType

LEMMA CountAppend ==
    ASSUME NEW S, NEW es \in Seq(S), NEW e \in S, NEW kind
    PROVE  /\ Count(es, kind) \in Nat
           /\ Count(Append(es, e), kind) = IF e.kind = kind THEN Count(es, kind) + 1
                                                            ELSE Count(es, kind)
  <1> DEFINE n == Len(es)
             fs == Append(es, e)
             P == {i \in DOMAIN es : es[i].kind = kind}
             Q == {i \in DOMAIN fs : fs[i].kind = kind}
  <1>1. /\ n \in Nat /\ DOMAIN es = 1..n /\ DOMAIN fs = 1..(n + 1) /\ fs[n + 1] = e
        /\ \A i \in 1..n : es[i] = fs[i]
    OBVIOUS
  <1>2. P \subseteq 1..n /\ Q \subseteq 1..(n + 1)
    BY <1>1
  <1>3. \A i \in 1..n : i \in P <=> i \in Q
    BY <1>1
  <1>4. n + 1 \in Q <=> e.kind = kind
    BY <1>1
  <1>5. Count(es, kind) = Cardinality(P) /\ Count(fs, kind) = Cardinality(Q)
    BY DEF Count
  <1> HIDE DEF P, Q, fs, n
  <1>6. n \in Nat
    BY <1>1
  <1>7. /\ Cardinality(P) \in Nat
        /\ Cardinality(Q) = IF n + 1 \in Q THEN Cardinality(P) + 1 ELSE Cardinality(P)
    BY <1>2, <1>3, <1>6, OneMorePlace
  <1> QED
    BY <1>4, <1>5, <1>7 DEF fs

LEMMA ClosedAppend ==
    ASSUME NEW S, NEW es \in Seq(S), NEW e \in S, NEW t
    PROVE  /\ Closed(es, t) \in Nat
           /\ Closed(Append(es, e), t) = IF e.kind = "step/end" /\ e.turn = t
                                         THEN Closed(es, t) + 1 ELSE Closed(es, t)
  <1> DEFINE n == Len(es)
             fs == Append(es, e)
             P == {i \in DOMAIN es : es[i].kind = "step/end" /\ es[i].turn = t}
             Q == {i \in DOMAIN fs : fs[i].kind = "step/end" /\ fs[i].turn = t}
  <1>1. /\ n \in Nat /\ DOMAIN es = 1..n /\ DOMAIN fs = 1..(n + 1) /\ fs[n + 1] = e
        /\ \A i \in 1..n : es[i] = fs[i]
    OBVIOUS
  <1>2. P \subseteq 1..n /\ Q \subseteq 1..(n + 1)
    BY <1>1
  <1>3. \A i \in 1..n : i \in P <=> i \in Q
    BY <1>1
  <1>4. n + 1 \in Q <=> e.kind = "step/end" /\ e.turn = t
    BY <1>1
  <1>5. Closed(es, t) = Cardinality(P) /\ Closed(fs, t) = Cardinality(Q)
    BY DEF Closed
  <1> HIDE DEF P, Q, fs, n
  <1>6. n \in Nat
    BY <1>1
  <1>7. /\ Cardinality(P) \in Nat
        /\ Cardinality(Q) = IF n + 1 \in Q THEN Cardinality(P) + 1 ELSE Cardinality(P)
    BY <1>2, <1>3, <1>6, OneMorePlace
  <1> QED
    BY <1>4, <1>5, <1>7 DEF fs

\* The steps a turn has closed are among those the log has closed.
LEMMA ClosedBound ==
    ASSUME NEW S, NEW es \in Seq(S), NEW t
    PROVE  /\ Closed(es, t) \in Nat /\ Count(es, "step/end") \in Nat
           /\ Closed(es, t) <= Count(es, "step/end")
           /\ (\A e \in ToSet(es) : e.kind = "step/end" => e.turn # t) => Closed(es, t) = 0
  <1> DEFINE P == {i \in DOMAIN es : es[i].kind = "step/end" /\ es[i].turn = t}
             Q == {i \in DOMAIN es : es[i].kind = "step/end"}
  <1>1. IsFiniteSet(DOMAIN es)
    BY FS_Interval
  <1>2. IsFiniteSet(Q)
    BY <1>1, FS_Subset
  <1>3. IsFiniteSet(P) /\ Cardinality(P) <= Cardinality(Q)
    BY <1>2, FS_Subset
  <1>4. (\A e \in ToSet(es) : e.kind = "step/end" => e.turn # t) => P = {}
    BY DEF ToSet
  <1>5. Cardinality(P) \in Nat /\ Cardinality(Q) \in Nat /\ (P = {} => Cardinality(P) = 0)
    BY <1>2, <1>3, FS_CardinalityType, FS_EmptySet
  <1> QED
    BY <1>3, <1>4, <1>5 DEF Closed, Count

LEMMA AskedAppend ==
    ASSUME NEW S, NEW es \in Seq(S), NEW e \in S, NEW t, NEW s
    PROVE  Asked(Append(es, e), t, s) =
                Asked(es, t, s) \union IF e.kind = "assistant/message" /\ e.turn = t /\ e.step = s
                                       THEN {Len(es) + 1} ELSE {}
  BY DEF Asked

-----------------------------------------------------------------------------
(* Events, and what Observe makes of each kind. *)

Boundary == {"turn/start", "turn/end"}
InnerKinds == {"step/start", "step/end", "user/message", "assistant/message", "tool/call", "tool/result"}

\* The fields of an event.
LEMMA EventFields ==
    ASSUME NEW e \in Event
    PROVE  /\ e.kind \in Boundary \union InnerKinds \union {"session/end-seed"}
           /\ e.kind \in Boundary \union InnerKinds => e.turn \in Nat
           /\ e.kind \in InnerKinds => e.step \in Nat
           /\ e.kind = "assistant/message" => e.calls \in Requests
           /\ e.kind \in {"tool/call", "tool/result"} => e.call \in Calls
           /\ e.kind = "tool/result" => e.code \in Codes
           /\ e.kind = "step/start" => e = StepStart(e.turn, e.step)
           /\ e.kind = "step/end" => e = StepEnd(e.turn, e.step)
           /\ e.kind = "tool/call" => e = ToolCall(e.turn, e.step, e.call)
  BY DEF Event, EndSeed, Boundary, InnerKinds, StepStart, StepEnd, ToolCall

\* What the events of the model are.
LEMMA EventTypes ==
    /\ \A t \in Nat : TurnStart(t) \in Event /\ TurnStart(t).kind = "turn/start" /\ TurnStart(t).turn = t
    /\ \A t \in Nat, r \in TurnReasons :
            TurnEnd(t, r) \in Event /\ TurnEnd(t, r).kind = "turn/end" /\ TurnEnd(t, r).turn = t
    /\ \A t, s \in Nat :
        /\ StepStart(t, s) \in Event /\ StepStart(t, s).kind = "step/start"
        /\ StepStart(t, s).turn = t /\ StepStart(t, s).step = s
        /\ StepEnd(t, s) \in Event /\ StepEnd(t, s).kind = "step/end"
        /\ StepEnd(t, s).turn = t /\ StepEnd(t, s).step = s
        /\ Input(t, s) \in Event /\ Input(t, s).kind = "user/message"
        /\ Input(t, s).turn = t /\ Input(t, s).step = s
    /\ \A t, s \in Nat : \A r \in Requests :
        /\ Assistant(t, s, r) \in Event /\ Assistant(t, s, r).kind = "assistant/message"
        /\ Assistant(t, s, r).turn = t /\ Assistant(t, s, r).step = s
        /\ Assistant(t, s, r).calls = r
    /\ \A t, s \in Nat : \A c \in Calls :
        /\ ToolCall(t, s, c) \in Event /\ ToolCall(t, s, c).kind = "tool/call"
        /\ ToolCall(t, s, c).turn = t /\ ToolCall(t, s, c).step = s /\ ToolCall(t, s, c).call = c
    /\ \A t, s \in Nat : \A c \in Calls, k \in Codes :
        /\ ToolResult(t, s, c, k) \in Event /\ ToolResult(t, s, c, k).kind = "tool/result"
        /\ ToolResult(t, s, c, k).turn = t /\ ToolResult(t, s, c, k).step = s
        /\ ToolResult(t, s, c, k).call = c /\ ToolResult(t, s, c, k).code = k
    /\ EndSeed \in Event /\ EndSeed.kind = "session/end-seed"
  <1>1. \A t \in Nat : TurnStart(t) \in Event /\ TurnStart(t).kind = "turn/start" /\ TurnStart(t).turn = t
    BY DEF Event, TurnStart
  <1>2. \A t \in Nat, r \in TurnReasons :
            TurnEnd(t, r) \in Event /\ TurnEnd(t, r).kind = "turn/end" /\ TurnEnd(t, r).turn = t
    BY DEF Event, TurnEnd
  <1>3. \A t, s \in Nat :
        /\ StepStart(t, s) \in Event /\ StepStart(t, s).kind = "step/start"
        /\ StepStart(t, s).turn = t /\ StepStart(t, s).step = s
        /\ StepEnd(t, s) \in Event /\ StepEnd(t, s).kind = "step/end"
        /\ StepEnd(t, s).turn = t /\ StepEnd(t, s).step = s
        /\ Input(t, s) \in Event /\ Input(t, s).kind = "user/message"
        /\ Input(t, s).turn = t /\ Input(t, s).step = s
    BY DEF Event, StepStart, StepEnd, Input
  <1>4. \A t, s \in Nat : \A r \in Requests :
        /\ Assistant(t, s, r) \in Event /\ Assistant(t, s, r).kind = "assistant/message"
        /\ Assistant(t, s, r).turn = t /\ Assistant(t, s, r).step = s
        /\ Assistant(t, s, r).calls = r
    BY DEF Event, Assistant
  <1>5. \A t, s \in Nat : \A c \in Calls :
        /\ ToolCall(t, s, c) \in Event /\ ToolCall(t, s, c).kind = "tool/call"
        /\ ToolCall(t, s, c).turn = t /\ ToolCall(t, s, c).step = s /\ ToolCall(t, s, c).call = c
    BY DEF Event, ToolCall
  <1>6. \A t, s \in Nat : \A c \in Calls, k \in Codes :
        /\ ToolResult(t, s, c, k) \in Event /\ ToolResult(t, s, c, k).kind = "tool/result"
        /\ ToolResult(t, s, c, k).turn = t /\ ToolResult(t, s, c, k).step = s
        /\ ToolResult(t, s, c, k).call = c /\ ToolResult(t, s, c, k).code = k
    BY DEF Event, ToolResult
  <1>7. EndSeed \in Event /\ EndSeed.kind = "session/end-seed"
    BY DEF Event, EndSeed
  <1> QED
    BY <1>1, <1>2, <1>3, <1>4, <1>5, <1>6, <1>7

\* The two events of one call.
LEMMA ToolEvents ==
    ASSUME NEW t \in Nat, NEW s \in Nat, NEW c \in Calls, NEW k \in Codes
    PROVE  /\ ToolCall(t, s, c) \in Event /\ ToolCall(t, s, c).kind = "tool/call"
           /\ ToolCall(t, s, c).turn = t /\ ToolCall(t, s, c).step = s /\ ToolCall(t, s, c).call = c
           /\ ToolResult(t, s, c, k) \in Event /\ ToolResult(t, s, c, k).kind = "tool/result"
           /\ ToolResult(t, s, c, k).turn = t /\ ToolResult(t, s, c, k).step = s
           /\ ToolResult(t, s, c, k).call = c /\ ToolResult(t, s, c, k).code = k
  BY EventTypes

Entry == [call : Calls, turn : Nat, step : Nat, recorded : BOOLEAN]
OpenState == [turn : Nat, step : Nat, pending : Seq(Entry)]

LEMMA NothingType == Nothing \in OpenState
  <1>1. <<>> \in Seq(Entry)
    BY EmptySeq
  <1> QED
    BY <1>1 DEF Nothing, OpenState

\* Turn and step boundaries.
LEMMA ObserveBoundary ==
    ASSUME NEW seen \in OpenState, NEW e \in Event
    PROVE  /\ e.kind = "turn/start" => Observe(seen, e) = [Nothing EXCEPT !.turn = e.turn]
           /\ e.kind = "turn/end" => Observe(seen, e) = Nothing
           /\ e.kind = "step/start" => Observe(seen, e) = [seen EXCEPT !.step = e.step]
           /\ e.kind = "step/end" => Observe(seen, e) = [seen EXCEPT !.step = 0, !.pending = <<>>]
           /\ e.kind \in {"user/message", "session/end-seed"} => Observe(seen, e) = seen
  BY DEF Observe

\* A reply asks for its calls, none of which is recorded yet.
LEMMA PendingIs ==
    ASSUME NEW e \in Event, e.kind = "assistant/message"
    PROVE  /\ Pending(e) \in Seq(Entry) /\ Len(Pending(e)) = Len(e.calls)
           /\ \A i \in 1..Len(e.calls) :
                /\ Pending(e)[i] = [call |-> e.calls[i], turn |-> e.turn, step |-> e.step, recorded |-> FALSE]
                /\ Pending(e)[i].call = e.calls[i] /\ Pending(e)[i].turn = e.turn
                /\ Pending(e)[i].step = e.step /\ ~Pending(e)[i].recorded
  <1>1. e.calls \in Seq(Calls) /\ e.turn \in Nat /\ e.step \in Nat
    BY EventFields, RecoveryAssumption DEF InnerKinds
  <1>2. DOMAIN e.calls = 1..Len(e.calls) /\ Len(e.calls) \in Nat /\ \A i \in 1..Len(e.calls) : e.calls[i] \in Calls
    BY <1>1, LenProperties
  <1> DEFINE p == [i \in 1..Len(e.calls) |->
                    [call |-> e.calls[i], turn |-> e.turn, step |-> e.step, recorded |-> FALSE]]
  <1>3. \A i \in 1..Len(e.calls) :
            [call |-> e.calls[i], turn |-> e.turn, step |-> e.step, recorded |-> FALSE] \in Entry
    BY <1>1, <1>2 DEF Entry
  <1>4. p \in [1..Len(e.calls) -> Entry]
    BY <1>3
  <1>5. p \in Seq(Entry) /\ Len(p) = Len(e.calls)
    BY <1>2, <1>4
  <1>6. Pending(e) = p
    BY <1>2 DEF Pending
  <1>7. \A i \in 1..Len(e.calls) :
            p[i] = [call |-> e.calls[i], turn |-> e.turn, step |-> e.step, recorded |-> FALSE]
    OBVIOUS
  <1> HIDE DEF p
  <1>8. \A i \in 1..Len(e.calls) :
            p[i].call = e.calls[i] /\ p[i].turn = e.turn /\ p[i].step = e.step /\ ~p[i].recorded
    <2> TAKE i \in 1..Len(e.calls)
    <2> DEFINE c == e.calls[i]
    <2>1. p[i] = [call |-> c, turn |-> e.turn, step |-> e.step, recorded |-> FALSE]
      BY <1>7
    <2> HIDE DEF c
    <2>2. p[i].call = c /\ p[i].turn = e.turn /\ p[i].step = e.step /\ ~p[i].recorded
      BY ONLY <2>1
    <2> QED
      BY <2>2 DEF c
  <1> QED
    BY <1>5, <1>6, <1>7, <1>8

LEMMA ObserveAssistant ==
    ASSUME NEW seen \in OpenState, NEW e \in Event, e.kind = "assistant/message", seen.pending = <<>>
    PROVE  Observe(seen, e) = [seen EXCEPT !.pending = Pending(e)]
  <1>1. Observe(seen, e) = [seen EXCEPT !.pending = seen.pending \o Pending(e)]
    BY DEF Observe, OpenState
  <1>2. <<>> \o Pending(e) = Pending(e)
    BY PendingIs, ConcatEmptySeq
  <1> QED
    BY <1>1, <1>2

\* A recorded call stays where it is among the open requests.
LEMMA ObserveCall ==
    ASSUME NEW seen \in OpenState, NEW e \in Event, e.kind = "tool/call"
    PROVE  LET after == Observe(seen, e)
           IN  /\ after \in OpenState /\ after.turn = seen.turn /\ after.step = seen.step
               /\ Len(after.pending) = Len(seen.pending)
               /\ \A i \in 1..Len(seen.pending) :
                    after.pending[i] = IF seen.pending[i].call = e.call
                                       THEN [seen.pending[i] EXCEPT !.recorded = TRUE] ELSE seen.pending[i]
  <1> DEFINE p == seen.pending
             q == [i \in 1..Len(p) |-> IF p[i].call = e.call THEN [p[i] EXCEPT !.recorded = TRUE] ELSE p[i]]
  <1>1. p \in Seq(Entry) /\ DOMAIN p = 1..Len(p) /\ Len(p) \in Nat /\ \A i \in 1..Len(p) : p[i] \in Entry
    BY LenProperties DEF OpenState
  <1>2. \A i \in 1..Len(p) : [p[i] EXCEPT !.recorded = TRUE] \in Entry
    BY <1>1 DEF Entry
  <1>3. q \in [1..Len(p) -> Entry]
    BY <1>1, <1>2
  <1>4. q \in Seq(Entry) /\ Len(q) = Len(p)
    BY <1>1, <1>3
  <1>5. Observe(seen, e) = [seen EXCEPT !.pending = q]
    BY <1>1 DEF Observe, OpenState
  <1>6. \A i \in 1..Len(p) : q[i] = IF p[i].call = e.call THEN [p[i] EXCEPT !.recorded = TRUE] ELSE p[i]
    OBVIOUS
  <1>7. Observe(seen, e) = [turn |-> seen.turn, step |-> seen.step, pending |-> q]
    BY <1>5 DEF OpenState
  <1> HIDE DEF q
  <1> QED
    BY <1>4, <1>6, <1>7 DEF OpenState

\* The answer of the first open request closes it, and it alone.
LEMMA ObserveResult ==
    ASSUME NEW seen \in OpenState, NEW e \in Event, e.kind = "tool/result", seen.pending # <<>>,
           Head(seen.pending).call = e.call, Head(seen.pending).turn = e.turn,
           Head(seen.pending).step = e.step,
           \A i, k \in 1..Len(seen.pending) : seen.pending[i].call = seen.pending[k].call => i = k
    PROVE  Observe(seen, e) = [seen EXCEPT !.pending = Tail(seen.pending)]
  <1> DEFINE p == seen.pending
             answered == {i \in DOMAIN p : /\ p[i].call = e.call /\ p[i].turn = e.turn /\ p[i].step = e.step}
  <1>1. p \in Seq(Entry) /\ DOMAIN p = 1..Len(p) /\ Len(p) \in Nat \ {0}
    BY LenProperties, EmptySeq DEF OpenState
  <1>2. Head(p) = p[1]
    BY <1>1
  <1>3. answered = {1}
    BY <1>1, <1>2
  <1>4. (CHOOSE i \in answered : TRUE) = 1 /\ answered # {}
    BY <1>3
  <1>5. Without(p, e) = RemoveAt(p, 1)
    <2> HIDE DEF p
    <2> QED
      BY <1>4 DEF Without
  <1>6. SubSeq(p, 1, 0) = <<>>
    BY SubSeqEmpty
  <1>7. SubSeq(p, 2, Len(p)) = Tail(p) /\ Tail(p) \in Seq(Entry)
    BY <1>1, TailIsSubSeq, HeadTailProperties
  <1>8. RemoveAt(p, 1) = Tail(p)
    <2>1. RemoveAt(p, 1) = <<>> \o Tail(p)
      BY <1>6, <1>7 DEF RemoveAt
    <2> QED
      BY <1>7, <2>1, ConcatEmptySeq
  <1> QED
    BY <1>5, <1>8 DEF Observe, OpenState

-----------------------------------------------------------------------------
(* What holds of a legal log. *)

Legal(events) == \A i \in DOMAIN events : Follows(SubSeq(events, 1, i - 1), events[i])

\* Turns and steps count from 1 and nest.
OpenGood(es) ==
    LET seen == Seen(es)
    IN  /\ seen \in OpenState
        /\ seen.turn \in {0, LastTurn(es)}
        /\ seen.step \in {0, Closed(es, LastTurn(es)) + 1}
        /\ seen.turn = 0 => seen.step = 0
        /\ seen.step = 0 => seen.pending = <<>>
        /\ LastTurn(es) = Count(es, "turn/end") + IF seen.turn = 0 THEN 0 ELSE 1
        /\ Count(es, "step/start") = Count(es, "step/end") + IF seen.step = 0 THEN 0 ELSE 1

\* No event is ahead of them.
NumbersGood(es) ==
    \A e \in ToSet(es) :
        /\ e.kind \in Boundary \union InnerKinds => e.turn # 0 /\ e.turn <= LastTurn(es)
        /\ e.kind \in InnerKinds =>
            /\ e.step # 0
            /\ e.turn = LastTurn(es) =>
                e.step <= Closed(es, LastTurn(es)) + IF Seen(es).step = 0 THEN 0 ELSE 1

\* An open request is of the open step, is recorded when its call is in the log,
\* and has no result.
PendingGood(es) ==
    LET seen == Seen(es)
    IN  /\ seen.pending # <<>> => Asked(es, seen.turn, seen.step) # {}
        /\ \A i \in 1..Len(seen.pending) :
            LET p == seen.pending[i]
            IN  /\ p.turn = seen.turn /\ p.step = seen.step
                /\ p.recorded <=> ToolCall(p.turn, p.step, p.call) \in ToSet(es)
                /\ \A e \in ToSet(es) : e.kind = "tool/result" /\ e.turn = p.turn /\ e.step = p.step
                        => e.call # p.call
                /\ \A k \in 1..Len(seen.pending) : seen.pending[k].call = p.call => k = i

\* Events lie in their step, and every step but the open one has ended.
StepsGood(es) ==
    LET seen == Seen(es)
    IN  /\ seen.step # 0 => StepStart(seen.turn, seen.step) \in ToSet(es)
        /\ \A e \in ToSet(es) :
            /\ e.kind \in InnerKinds => StepStart(e.turn, e.step) \in ToSet(es)
            /\ e.kind = "step/start" => \/ StepEnd(e.turn, e.step) \in ToSet(es)
                                        \/ e.turn = seen.turn /\ e.step = seen.step
            /\ e.kind = "step/end" => ~(e.turn = seen.turn /\ e.step = seen.step)
            /\ e.kind \in {"tool/call", "tool/result"} => Asked(es, e.turn, e.step) # {}
            /\ e.kind = "tool/result" /\ e.code # "not-started"
                    => ToolCall(e.turn, e.step, e.call) \in ToSet(es)

\* The results of a step answer its requests in order; the open step leaves the rest
\* of its requests open.
Rest(es, t, s) ==
    IF t = Seen(es).turn /\ s = Seen(es).step THEN Seen(es).pending ELSE <<>>

AnswersGood(es) ==
    \A e \in ToSet(es) : e.kind = "assistant/message" =>
        LET answers == ResultsOf(es, e.turn, e.step)
            rest    == Rest(es, e.turn, e.step)
        IN  /\ Len(answers) + Len(rest) = Len(e.calls)
            /\ \A k \in 1..Len(answers) : answers[k].call = e.calls[k]
            /\ \A k \in 1..Len(rest) : rest[k].call = e.calls[Len(answers) + k]

\* Results are what they are collected from.
ResultsGood(es) ==
    \A t, s \in Nat :
        ResultsOf(es, t, s) \in Seq({e \in ToSet(es) : e.kind = "tool/result" /\ e.turn = t /\ e.step = s})

Good(es) ==
    /\ OpenGood(es) /\ NumbersGood(es) /\ PendingGood(es)
    /\ StepsGood(es) /\ AnswersGood(es) /\ ResultsGood(es)

\* An empty log.
LEMMA EmptyCounts ==
    /\ \A kind : Count(<<>>, kind) = 0
    /\ \A t : Closed(<<>>, t) = 0
    /\ LastTurn(<<>>) = 0
  <1>1. DOMAIN <<>> = {}
    <2>1. Len(<<>>) = 0 /\ <<>> \in Seq({0})
      BY EmptySeq
    <2> QED
      BY <2>1
  <1>2. ASSUME NEW kind PROVE Count(<<>>, kind) = 0
    <2>1. {i \in DOMAIN <<>> : <<>>[i].kind = kind} = {}
      BY <1>1
    <2> QED
      BY <2>1, FS_EmptySet DEF Count
  <1>3. ASSUME NEW t PROVE Closed(<<>>, t) = 0
    <2>1. {i \in DOMAIN <<>> : <<>>[i].kind = "step/end" /\ <<>>[i].turn = t} = {}
      BY <1>1
    <2> QED
      BY <2>1, FS_EmptySet DEF Closed
  <1> QED
    BY <1>2, <1>3 DEF LastTurn

LEMMA EmptyGood == Good(<<>>)
  <1>1. ToSet(<<>>) = {}
    <2>1. <<>> \in Seq({0})
      BY EmptySeq
    <2> QED
      BY <2>1, ElementsOf
  <1>2. Seen(<<>>) = Nothing /\ Nothing \in OpenState /\ LastTurn(<<>>) = 0
    BY SeenEmpty, NothingType, EmptyCounts
  <1>3. OpenGood(<<>>)
    BY <1>2, EmptyCounts DEF OpenGood, Nothing
  <1>4. NumbersGood(<<>>) /\ StepsGood(<<>>) /\ AnswersGood(<<>>)
    BY <1>1, <1>2 DEF NumbersGood, StepsGood, AnswersGood, Nothing
  <1>5. PendingGood(<<>>)
    <2>1. Len(<<>>) = 0
      BY EmptySeq
    <2> QED
      BY <1>2, <2>1 DEF PendingGood, Nothing
  <1>6. ResultsGood(<<>>)
    BY ResultsEmpty, EmptySeq DEF ResultsGood
  <1> QED
    BY <1>3, <1>4, <1>5, <1>6 DEF Good

-----------------------------------------------------------------------------
(* One legal event more. *)

\* What a legal event leaves open.
LEMMA AfterIs ==
    ASSUME NEW es \in Seq(Event), NEW e, Good(es), Follows(es, e)
    PROVE  LET seen  == Seen(es)
               after == Seen(Append(es, e))
           IN  /\ e \in Event /\ after \in OpenState
               /\ e.kind = "turn/start" => after = [turn |-> LastTurn(es) + 1, step |-> 0, pending |-> <<>>]
               /\ e.kind = "turn/end" => after = Nothing
               /\ e.kind = "step/start" =>
                    after = [turn |-> seen.turn, step |-> Closed(es, seen.turn) + 1, pending |-> <<>>]
               /\ e.kind = "step/end" => after = [turn |-> seen.turn, step |-> 0, pending |-> <<>>]
               /\ e.kind \in {"user/message", "session/end-seed"} => after = seen
               /\ e.kind = "assistant/message" =>
                    /\ seen.pending = <<>>
                    /\ after = [turn |-> seen.turn, step |-> seen.step, pending |-> Pending(e)]
               /\ e.kind = "tool/call" =>
                    /\ after.turn = seen.turn /\ after.step = seen.step
                    /\ Len(after.pending) = Len(seen.pending)
                    /\ \A i \in 1..Len(seen.pending) :
                        after.pending[i] = IF seen.pending[i].call = e.call
                                           THEN [seen.pending[i] EXCEPT !.recorded = TRUE]
                                           ELSE seen.pending[i]
               /\ e.kind = "tool/result" =>
                    after = [turn |-> seen.turn, step |-> seen.step, pending |-> Tail(seen.pending)]
  <1> DEFINE seen  == Seen(es)
             after == Seen(Append(es, e))
  <1>1. e \in Event
    BY DEF Follows
  <1>2. seen \in OpenState
    BY DEF Good, OpenGood
  <1>3. after = Observe(seen, e)
    BY <1>1, SeenAppend
  <1>4. seen = [turn |-> seen.turn, step |-> seen.step, pending |-> seen.pending]
        /\ seen.turn \in Nat /\ seen.step \in Nat /\ seen.pending \in Seq(Entry)
    BY <1>2 DEF OpenState
  <1>5. /\ seen.step = 0 => seen.pending = <<>>
        /\ seen.turn \in {0, LastTurn(es)}
    BY DEF Good, OpenGood
  <1>6. LastTurn(es) \in Nat /\ Closed(es, seen.turn) \in Nat /\ <<>> \in Seq(Entry)
    BY <1>1, CountAppend, ClosedAppend, EmptySeq DEF LastTurn
  <1>o. \A t, n \in Nat : \A p \in Seq(Entry) : [turn |-> t, step |-> n, pending |-> p] \in OpenState
    BY DEF OpenState
  <1> HIDE DEF seen, after
  <1>7. CASE e.kind = "turn/start"
    <2>1. e.turn = LastTurn(es) + 1
      BY <1>7 DEF Follows
    <2>2. after = [turn |-> LastTurn(es) + 1, step |-> 0, pending |-> <<>>]
      <3>1. after = [Nothing EXCEPT !.turn = e.turn]
        BY <1>1, <1>2, <1>3, <1>7, ObserveBoundary
      <3> QED
        BY <2>1, <3>1 DEF Nothing
    <2>3. LastTurn(es) + 1 \in Nat /\ 0 \in Nat
      BY <1>6
    <2>4. after \in OpenState
      BY <1>6, <1>o, <2>2, <2>3
    <2> QED
      BY <1>1, <1>7, <2>2, <2>4 DEF after, seen
  <1>8. CASE e.kind = "turn/end"
    <2>1. after = Nothing
      BY <1>1, <1>2, <1>3, <1>8, ObserveBoundary
    <2> QED
      BY <1>1, <1>8, <2>1, NothingType DEF after, seen
  <1>9. CASE e.kind = "step/start"
    <2>1. e.turn = seen.turn /\ seen.step = 0 /\ e.step = Closed(es, seen.turn) + 1
      BY <1>9 DEF Follows, seen
    <2>2. after = [seen EXCEPT !.step = e.step]
      BY <1>1, <1>2, <1>3, <1>9, ObserveBoundary
    <2>3. after = [turn |-> seen.turn, step |-> Closed(es, seen.turn) + 1, pending |-> <<>>]
      BY <1>4, <1>5, <2>1, <2>2
    <2>4. Closed(es, seen.turn) + 1 \in Nat
      BY <1>6
    <2>5. after \in OpenState
      BY <1>4, <1>6, <1>o, <2>3, <2>4
    <2> QED
      BY <1>1, <1>9, <2>3, <2>5 DEF after, seen
  <1>10. CASE e.kind = "step/end"
    <2>1. after = [seen EXCEPT !.step = 0, !.pending = <<>>]
      BY <1>1, <1>2, <1>3, <1>10, ObserveBoundary
    <2>2. after = [turn |-> seen.turn, step |-> 0, pending |-> <<>>]
      BY <1>4, <2>1
    <2> QED
      BY <1>1, <1>4, <1>6, <1>10, <1>o, <2>2 DEF after, seen
  <1>11. CASE e.kind \in {"user/message", "session/end-seed"}
    <2>1. after = seen
      BY <1>1, <1>2, <1>3, <1>11, ObserveBoundary
    <2> QED
      BY <1>1, <1>2, <1>11, <2>1 DEF after, seen
  <1>12. CASE e.kind = "assistant/message"
    <2>1. e.turn = seen.turn /\ e.step = seen.step /\ Asked(es, e.turn, e.step) = {}
      BY <1>12 DEF Follows, seen
    <2>2. seen.pending = <<>>
      BY <2>1 DEF Good, PendingGood, seen
    <2>3. after = [seen EXCEPT !.pending = Pending(e)]
      BY <1>1, <1>2, <1>3, <1>12, <2>2, ObserveAssistant
    <2>4. after = [turn |-> seen.turn, step |-> seen.step, pending |-> Pending(e)]
      BY <1>4, <2>3
    <2> QED
      BY <1>1, <1>4, <1>12, <1>o, <2>2, <2>4, PendingIs DEF after, seen
  <1>13. CASE e.kind = "tool/call"
    <2>1. /\ after \in OpenState /\ after.turn = seen.turn /\ after.step = seen.step
          /\ Len(after.pending) = Len(seen.pending)
          /\ \A i \in 1..Len(seen.pending) :
               after.pending[i] = IF seen.pending[i].call = e.call
                                  THEN [seen.pending[i] EXCEPT !.recorded = TRUE] ELSE seen.pending[i]
      BY <1>1, <1>2, <1>3, <1>13, ObserveCall
    <2> QED
      BY <1>1, <1>13, <2>1 DEF after, seen
  <1>14. CASE e.kind = "tool/result"
    <2>1. /\ e.turn = seen.turn /\ e.step = seen.step /\ seen.pending # <<>>
          /\ Head(seen.pending).call = e.call
      BY <1>14 DEF Follows, seen
    <2>2. \A i \in 1..Len(seen.pending) :
            /\ seen.pending[i].turn = seen.turn /\ seen.pending[i].step = seen.step
            /\ \A k \in 1..Len(seen.pending) : seen.pending[k].call = seen.pending[i].call => k = i
      BY DEF Good, PendingGood, seen
    <2>3. Len(seen.pending) \in Nat \ {0} /\ Head(seen.pending) = seen.pending[1]
      BY <1>4, <2>1, EmptySeq
    <2>4. Head(seen.pending).turn = e.turn /\ Head(seen.pending).step = e.step
      BY <2>1, <2>2, <2>3
    <2>5. after = [seen EXCEPT !.pending = Tail(seen.pending)]
      BY <1>1, <1>2, <1>3, <1>14, <2>1, <2>2, <2>4, ObserveResult
    <2>6. after = [turn |-> seen.turn, step |-> seen.step, pending |-> Tail(seen.pending)]
      BY <1>4, <2>5
    <2>7. Tail(seen.pending) \in Seq(Entry)
      BY <1>4, <2>1, HeadTailProperties
    <2> QED
      BY <1>1, <1>4, <1>14, <1>o, <2>6, <2>7 DEF after, seen
  <1> QED
    BY <1>1, <1>7, <1>8, <1>9, <1>10, <1>11, <1>12, <1>13, <1>14, EventFields
       DEF Boundary, InnerKinds

\* What the counts, the requests and the elements of the longer log are.
LEMMA LongerIs ==
    ASSUME NEW es \in Seq(Event), NEW e \in Event
    PROVE  LET fs == Append(es, e)
           IN  /\ fs \in Seq(Event) /\ ToSet(fs) = ToSet(es) \union {e} /\ ToSet(es) \subseteq Event
               /\ LastTurn(es) \in Nat
               /\ LastTurn(fs) = IF e.kind = "turn/start" THEN LastTurn(es) + 1 ELSE LastTurn(es)
               /\ \A kind : /\ Count(es, kind) \in Nat
                            /\ Count(fs, kind) = IF e.kind = kind THEN Count(es, kind) + 1
                                                                  ELSE Count(es, kind)
               /\ \A t : /\ Closed(es, t) \in Nat
                         /\ Closed(fs, t) = IF e.kind = "step/end" /\ e.turn = t
                                            THEN Closed(es, t) + 1 ELSE Closed(es, t)
               /\ \A t, s : Asked(fs, t, s) =
                    Asked(es, t, s) \union IF e.kind = "assistant/message" /\ e.turn = t /\ e.step = s
                                           THEN {Len(es) + 1} ELSE {}
  <1> DEFINE fs == Append(es, e)
  <1>1. /\ fs \in Seq(Event) /\ ToSet(fs) = ToSet(es) \union {e} /\ ToSet(es) \subseteq Event
    BY ElementsOf, ElementsOfAppend
  <1>2. \A kind : /\ Count(es, kind) \in Nat
                  /\ Count(fs, kind) = IF e.kind = kind THEN Count(es, kind) + 1 ELSE Count(es, kind)
    BY CountAppend
  <1>3. \A t : /\ Closed(es, t) \in Nat
               /\ Closed(fs, t) = IF e.kind = "step/end" /\ e.turn = t
                                  THEN Closed(es, t) + 1 ELSE Closed(es, t)
    BY ClosedAppend
  <1>4. \A t, s : Asked(fs, t, s) =
            Asked(es, t, s) \union IF e.kind = "assistant/message" /\ e.turn = t /\ e.step = s
                                   THEN {Len(es) + 1} ELSE {}
    BY AskedAppend
  <1>5. /\ LastTurn(es) \in Nat
        /\ LastTurn(fs) = IF e.kind = "turn/start" THEN LastTurn(es) + 1 ELSE LastTurn(es)
    BY <1>2 DEF LastTurn
  <1> HIDE DEF fs
  <1> QED
    BY <1>1, <1>2, <1>3, <1>4, <1>5 DEF fs

\* Only a reply asks.
LEMMA AskedStays ==
    ASSUME NEW es \in Seq(Event), NEW e \in Event, e.kind # "assistant/message", NEW t, NEW s
    PROVE  Asked(Append(es, e), t, s) = Asked(es, t, s)
  <1> DEFINE fs == Append(es, e)
  <1>1. \A u, v : Asked(fs, u, v) =
            Asked(es, u, v) \union IF e.kind = "assistant/message" /\ e.turn = u /\ e.step = v
                                   THEN {Len(es) + 1} ELSE {}
    BY LongerIs
  <1> HIDE DEF fs
  <1>2. Asked(fs, t, s) = Asked(es, t, s) \union {}
    BY <1>1
  <1> QED
    BY <1>2 DEF fs

LEMMA OpenStep ==
    ASSUME NEW es \in Seq(Event), NEW e, Good(es), Follows(es, e)
    PROVE  OpenGood(Append(es, e))
  <1> DEFINE fs == Append(es, e)
             seen == Seen(es)
             after == Seen(fs)
             T == LastTurn(es)
  <1>1. e \in Event /\ e.kind \in Boundary \union InnerKinds \union {"session/end-seed"}
    BY EventFields DEF Follows
  <1>2. /\ seen \in OpenState
        /\ seen.turn \in {0, T} /\ seen.step \in {0, Closed(es, T) + 1}
        /\ seen.turn = 0 => seen.step = 0
        /\ seen.step = 0 => seen.pending = <<>>
        /\ T = Count(es, "turn/end") + IF seen.turn = 0 THEN 0 ELSE 1
        /\ Count(es, "step/start") = Count(es, "step/end") + IF seen.step = 0 THEN 0 ELSE 1
    BY DEF Good, OpenGood
  <1>3. /\ T \in Nat /\ LastTurn(fs) = IF e.kind = "turn/start" THEN T + 1 ELSE T
        /\ \A kind : /\ Count(es, kind) \in Nat
                     /\ Count(fs, kind) = IF e.kind = kind THEN Count(es, kind) + 1 ELSE Count(es, kind)
        /\ \A t : /\ Closed(es, t) \in Nat
                  /\ Closed(fs, t) = IF e.kind = "step/end" /\ e.turn = t
                                     THEN Closed(es, t) + 1 ELSE Closed(es, t)
    BY <1>1, LongerIs
  <1>4. /\ after \in OpenState
        /\ e.kind = "turn/start" => after = [turn |-> T + 1, step |-> 0, pending |-> <<>>]
        /\ e.kind = "turn/end" => after = Nothing
        /\ e.kind = "step/start" =>
             after = [turn |-> seen.turn, step |-> Closed(es, seen.turn) + 1, pending |-> <<>>]
        /\ e.kind = "step/end" => after = [turn |-> seen.turn, step |-> 0, pending |-> <<>>]
        /\ e.kind \in {"user/message", "session/end-seed"} => after = seen
        /\ e.kind \in {"assistant/message", "tool/call", "tool/result"} =>
             after.turn = seen.turn /\ after.step = seen.step
    BY AfterIs
  <1>5. /\ e.kind = "turn/start" => seen.turn = 0
        /\ e.kind \in {"turn/end", "step/start"} =>
                seen.turn # 0 /\ e.turn = seen.turn /\ seen.step = 0
        /\ e.kind \in {"user/message", "assistant/message", "tool/call", "tool/result", "step/end"} =>
                seen.step # 0 /\ e.turn = seen.turn /\ e.step = seen.step
    BY DEF Follows
  <1> HIDE DEF fs, seen, after, T
  <1> SUFFICES /\ after.turn \in {0, LastTurn(fs)}
               /\ after.step \in {0, Closed(fs, LastTurn(fs)) + 1}
               /\ after.turn = 0 => after.step = 0
               /\ after.step = 0 => after.pending = <<>>
               /\ LastTurn(fs) = Count(fs, "turn/end") + IF after.turn = 0 THEN 0 ELSE 1
               /\ Count(fs, "step/start") = Count(fs, "step/end") + IF after.step = 0 THEN 0 ELSE 1
    BY <1>4 DEF OpenGood, after, fs
  <1>6. CASE e.kind = "turn/start"
    BY <1>2, <1>3, <1>4, <1>5, <1>6
  <1>7. CASE e.kind = "turn/end"
    BY <1>2, <1>3, <1>4, <1>5, <1>7 DEF Nothing
  <1>8. CASE e.kind = "step/start"
    BY <1>2, <1>3, <1>4, <1>5, <1>8
  <1>9. CASE e.kind = "step/end"
    BY <1>2, <1>3, <1>4, <1>5, <1>9
  <1>10. CASE e.kind \in {"user/message", "session/end-seed"}
    BY <1>2, <1>3, <1>4, <1>5, <1>10
  <1>11. CASE e.kind \in {"assistant/message", "tool/call", "tool/result"}
    BY <1>2, <1>3, <1>4, <1>5, <1>11
  <1> QED
    BY <1>1, <1>6, <1>7, <1>8, <1>9, <1>10, <1>11 DEF Boundary, InnerKinds

LEMMA NumbersStep ==
    ASSUME NEW es \in Seq(Event), NEW e, Good(es), Follows(es, e)
    PROVE  NumbersGood(Append(es, e))
  <1> DEFINE fs == Append(es, e)
             seen == Seen(es)
             after == Seen(fs)
             T == LastTurn(es)
             Bound(es1) == Closed(es1, LastTurn(es1)) + IF Seen(es1).step = 0 THEN 0 ELSE 1
  <1>1. e \in Event /\ e.kind \in Boundary \union InnerKinds \union {"session/end-seed"}
        /\ (e.kind \in Boundary \union InnerKinds => e.turn \in Nat)
        /\ (e.kind \in InnerKinds => e.step \in Nat)
    BY EventFields DEF Follows
  <1>2. /\ seen.turn \in {0, T} /\ seen.step \in {0, Closed(es, T) + 1}
        /\ seen.turn = 0 => seen.step = 0
    BY DEF Good, OpenGood
  <1>3. /\ T \in Nat /\ LastTurn(fs) = IF e.kind = "turn/start" THEN T + 1 ELSE T
        /\ ToSet(fs) = ToSet(es) \union {e} /\ ToSet(es) \subseteq Event
        /\ \A t : /\ Closed(es, t) \in Nat
                  /\ Closed(fs, t) = IF e.kind = "step/end" /\ e.turn = t
                                     THEN Closed(es, t) + 1 ELSE Closed(es, t)
    BY <1>1, LongerIs
  <1>4. /\ e.kind = "turn/start" => after = [turn |-> T + 1, step |-> 0, pending |-> <<>>]
        /\ e.kind = "turn/end" => after = Nothing
        /\ e.kind = "step/start" =>
             after = [turn |-> seen.turn, step |-> Closed(es, seen.turn) + 1, pending |-> <<>>]
        /\ e.kind = "step/end" => after = [turn |-> seen.turn, step |-> 0, pending |-> <<>>]
        /\ e.kind \in {"user/message", "session/end-seed"} => after = seen
        /\ e.kind \in {"assistant/message", "tool/call", "tool/result"} =>
             after.turn = seen.turn /\ after.step = seen.step
    BY AfterIs
  <1>5. /\ e.kind = "turn/start" => seen.turn = 0 /\ e.turn = T + 1
        /\ e.kind \in {"turn/end", "step/start"} =>
                seen.turn # 0 /\ e.turn = seen.turn /\ seen.step = 0
        /\ e.kind = "step/start" => e.step = Closed(es, e.turn) + 1
        /\ e.kind \in {"user/message", "assistant/message", "tool/call", "tool/result", "step/end"} =>
                seen.step # 0 /\ e.turn = seen.turn /\ e.step = seen.step
    BY DEF Follows
  <1>6. \A d \in ToSet(es) :
            /\ d.kind \in Boundary \union InnerKinds => d.turn # 0 /\ d.turn <= T
            /\ d.kind \in InnerKinds => d.step # 0 /\ (d.turn = T => d.step <= Bound(es))
    BY DEF Good, NumbersGood
  <1>7. \A d \in ToSet(es) :
            /\ d.kind \in Boundary \union InnerKinds => d.turn \in Nat
            /\ d.kind \in InnerKinds => d.step \in Nat /\ d.kind \in Boundary \union InnerKinds
    BY <1>3, EventFields
  <1>8. Bound(es) = Closed(es, T) + (IF seen.step = 0 THEN 0 ELSE 1) /\ Bound(es) \in Nat
    BY <1>3
  <1>9. Bound(fs) = Closed(fs, LastTurn(fs)) + (IF after.step = 0 THEN 0 ELSE 1)
    OBVIOUS
  <1> HIDE DEF fs, seen, after, T, Bound
  <1> SUFFICES \A d \in ToSet(es) \union {e} :
                /\ d.kind \in Boundary \union InnerKinds => d.turn # 0 /\ d.turn <= LastTurn(fs)
                /\ d.kind \in InnerKinds =>
                    d.step # 0 /\ (d.turn = LastTurn(fs) => d.step <= Bound(fs))
    BY <1>3 DEF NumbersGood, fs, Bound, after
  <1>10. CASE e.kind = "turn/start"
    <2>1. LastTurn(fs) = T + 1 /\ e.turn = T + 1 /\ e.kind \notin InnerKinds
      BY <1>3, <1>5, <1>10 DEF InnerKinds
    <2>2. \A d \in ToSet(es) : d.kind \in InnerKinds => d.turn # T + 1
      BY <1>3, <1>6, <1>7
    <2> QED
      BY <1>3, <1>6, <1>7, <2>1, <2>2
  <1>11. CASE e.kind = "turn/end"
    <2>1. LastTurn(fs) = T /\ e.turn = T /\ e.turn # 0 /\ e.kind \notin InnerKinds
      BY <1>2, <1>3, <1>5, <1>11 DEF InnerKinds
    <2>2. Bound(fs) = Closed(es, T)
      BY <1>3, <1>4, <1>9, <1>11, <2>1 DEF Nothing
    <2>3. Bound(es) = Closed(es, T)
      BY <1>3, <1>5, <1>8, <1>11
    <2> QED
      BY <1>3, <1>6, <1>7, <2>1, <2>2, <2>3
  <1>12. CASE e.kind = "step/start"
    <2>1. LastTurn(fs) = T /\ e.turn = T /\ e.turn # 0 /\ e.step = Closed(es, T) + 1
      BY <1>2, <1>3, <1>5, <1>12
    <2>2. after.step = Closed(es, T) + 1 /\ Closed(es, T) \in Nat
      BY <1>2, <1>3, <1>4, <1>5, <1>12
    <2>3. Bound(fs) = Closed(es, T) + 1 /\ Bound(es) = Closed(es, T)
      BY <1>3, <1>5, <1>8, <1>9, <1>12, <2>1, <2>2
    <2> QED
      BY <1>6, <1>7, <1>3, <2>1, <2>2, <2>3
  <1>13. CASE e.kind = "step/end"
    <2>1. LastTurn(fs) = T /\ e.turn = T /\ e.turn # 0 /\ e.step = Closed(es, T) + 1
      BY <1>2, <1>3, <1>5, <1>13
    <2>2. after.step = 0 /\ Closed(es, T) \in Nat /\ Closed(fs, T) = Closed(es, T) + 1
      BY <1>3, <1>4, <1>13, <2>1
    <2>3. Bound(fs) = Closed(es, T) + 1 /\ Bound(es) = Closed(es, T) + 1
      BY <1>3, <1>5, <1>8, <1>9, <1>13, <2>1, <2>2
    <2> QED
      BY <1>6, <1>7, <1>3, <2>1, <2>2, <2>3
  <1>14. CASE e.kind \in {"user/message", "assistant/message", "tool/call", "tool/result"}
    <2>1. LastTurn(fs) = T /\ e.turn = T /\ e.turn # 0 /\ e.step = Closed(es, T) + 1
      BY <1>2, <1>3, <1>5, <1>14
    <2>2. after.step = seen.step /\ seen.step # 0 /\ Closed(fs, T) = Closed(es, T) /\ Closed(es, T) \in Nat
      BY <1>3, <1>4, <1>5, <1>14
    <2>3. Bound(fs) = Closed(es, T) + 1 /\ Bound(es) = Closed(es, T) + 1
      BY <1>8, <1>9, <2>1, <2>2
    <2> QED
      BY <1>6, <1>7, <1>3, <2>1, <2>2, <2>3
  <1>15. CASE e.kind = "session/end-seed"
    <2>1. LastTurn(fs) = T /\ e.kind \notin Boundary \union InnerKinds /\ after = seen
      BY <1>3, <1>4, <1>15 DEF Boundary, InnerKinds
    <2>2. Bound(fs) = Bound(es)
      BY <1>3, <1>8, <1>9, <1>15, <2>1
    <2> QED
      BY <1>6, <1>7, <1>3, <2>1, <2>2
  <1> QED
    BY <1>1, <1>10, <1>11, <1>12, <1>13, <1>14, <1>15 DEF Boundary, InnerKinds

LEMMA PendingStep ==
    ASSUME NEW es \in Seq(Event), NEW e, Good(es), Follows(es, e)
    PROVE  PendingGood(Append(es, e))
  <1> DEFINE fs == Append(es, e)
             seen == Seen(es)
             after == Seen(fs)
             p == seen.pending
             q == after.pending
  <1>1. e \in Event /\ e.kind \in Boundary \union InnerKinds \union {"session/end-seed"}
        /\ (e.kind = "assistant/message" => e.calls \in Requests)
        /\ (e.kind = "tool/call" => e = ToolCall(e.turn, e.step, e.call))
    BY EventFields DEF Follows
  <1>2. /\ seen.turn \in Nat /\ seen.step \in Nat /\ p \in Seq(Entry) /\ Len(p) \in Nat
        /\ \A i \in 1..Len(p) : p[i] \in Entry
    BY LenProperties DEF Good, OpenGood, OpenState
  <1>3. /\ ToSet(fs) = ToSet(es) \union {e} /\ ToSet(es) \subseteq Event
        /\ \A t, s : Asked(fs, t, s) =
             Asked(es, t, s) \union IF e.kind = "assistant/message" /\ e.turn = t /\ e.step = s
                                    THEN {Len(es) + 1} ELSE {}
    BY <1>1, LongerIs
  <1>4. /\ e.kind = "turn/start" => after = [turn |-> LastTurn(es) + 1, step |-> 0, pending |-> <<>>]
        /\ e.kind = "turn/end" => after = Nothing
        /\ e.kind = "step/start" =>
             after = [turn |-> seen.turn, step |-> Closed(es, seen.turn) + 1, pending |-> <<>>]
        /\ e.kind = "step/end" => after = [turn |-> seen.turn, step |-> 0, pending |-> <<>>]
        /\ e.kind \in {"user/message", "session/end-seed"} => after = seen
        /\ e.kind = "assistant/message" =>
             after = [turn |-> seen.turn, step |-> seen.step, pending |-> Pending(e)]
        /\ e.kind = "tool/call" =>
             /\ after.turn = seen.turn /\ after.step = seen.step
             /\ Len(q) = Len(p)
             /\ \A i \in 1..Len(p) : q[i] = IF p[i].call = e.call
                                            THEN [p[i] EXCEPT !.recorded = TRUE] ELSE p[i]
        /\ e.kind = "tool/result" =>
             after = [turn |-> seen.turn, step |-> seen.step, pending |-> Tail(p)]
    BY AfterIs
  <1>5. /\ e.kind \in {"assistant/message", "tool/call", "tool/result"} =>
                e.turn = seen.turn /\ e.step = seen.step
        /\ e.kind = "assistant/message" => Asked(es, e.turn, e.step) = {}
        /\ e.kind = "tool/result" => p # <<>> /\ Head(p).call = e.call
    BY DEF Follows
  <1>6. /\ p # <<>> => Asked(es, seen.turn, seen.step) # {}
        /\ \A i \in 1..Len(p) :
            /\ p[i].turn = seen.turn /\ p[i].step = seen.step
            /\ p[i].recorded <=> ToolCall(p[i].turn, p[i].step, p[i].call) \in ToSet(es)
            /\ \A d \in ToSet(es) : d.kind = "tool/result" /\ d.turn = p[i].turn /\ d.step = p[i].step
                    => d.call # p[i].call
            /\ \A k \in 1..Len(p) : p[k].call = p[i].call => k = i
    BY DEF Good, PendingGood
  <1>7. \A d \in ToSet(es) : d.kind \in {"tool/call", "tool/result"} => Asked(es, d.turn, d.step) # {}
    BY DEF Good, StepsGood
  <1>8. \A t, s, c : /\ ToolCall(t, s, c).kind = "tool/call" /\ ToolCall(t, s, c).turn = t
                     /\ ToolCall(t, s, c).step = s /\ ToolCall(t, s, c).call = c
    BY DEF ToolCall
  <1> HIDE DEF fs, seen, after
  <1> SUFFICES /\ q # <<>> => Asked(fs, after.turn, after.step) # {}
               /\ \A i \in 1..Len(q) :
                    /\ q[i].turn = after.turn /\ q[i].step = after.step
                    /\ q[i].recorded <=> ToolCall(q[i].turn, q[i].step, q[i].call) \in ToSet(fs)
                    /\ \A d \in ToSet(fs) :
                        d.kind = "tool/result" /\ d.turn = q[i].turn /\ d.step = q[i].step
                            => d.call # q[i].call
                    /\ \A k \in 1..Len(q) : q[k].call = q[i].call => k = i
    BY DEF PendingGood, after, fs
  <1>10. CASE e.kind \in {"turn/start", "turn/end", "step/start", "step/end"}
    <2>1. q = <<>> /\ Len(q) = 0
      BY <1>4, <1>10, EmptySeq DEF Nothing
    <2> QED
      BY <2>1
  <1>11. CASE e.kind \in {"user/message", "session/end-seed"}
    <2>1. after = seen /\ q = p
      BY <1>4, <1>11
    <2>2. Asked(fs, seen.turn, seen.step) = Asked(es, seen.turn, seen.step)
      <3>1. Asked(fs, seen.turn, seen.step) = Asked(es, seen.turn, seen.step) \union {}
        BY <1>3, <1>11
      <3> QED
        BY <3>1
    <2>3. \A t, s, c : ToolCall(t, s, c) \in ToSet(fs) <=> ToolCall(t, s, c) \in ToSet(es)
      BY <1>3, <1>8, <1>11
    <2>4. e.kind # "tool/result"
      BY <1>11
    <2> QED
      BY <1>3, <1>6, <2>1, <2>2, <2>3, <2>4
  <1>12. CASE e.kind = "assistant/message"
    <2>1. after.turn = e.turn /\ after.step = e.step /\ q = Pending(e)
      BY <1>4, <1>5, <1>12
    <2>2. Len(q) = Len(e.calls)
      BY <1>1, <1>12, <2>1, PendingIs
    <2>3. Len(es) + 1 \in Asked(fs, e.turn, e.step)
      BY <1>3, <1>12
    <2>4. \A c : ToolCall(e.turn, e.step, c) \notin ToSet(fs)
      BY <1>3, <1>5, <1>7, <1>8, <1>12
    <2>5. \A d \in ToSet(fs) : d.kind = "tool/result" => ~(d.turn = e.turn /\ d.step = e.step)
      BY <1>3, <1>5, <1>7, <1>12
    <2>6. \A i, k \in 1..Len(e.calls) : e.calls[i] = e.calls[k] => i = k
      <3>1. e.calls \in Seq(Calls) /\ IsInjective(e.calls)
        BY <1>1, <1>12, RecoveryAssumption
      <3>2. DOMAIN e.calls = 1..Len(e.calls)
        BY <3>1, LenProperties
      <3> QED
        BY <3>1, <3>2 DEF IsInjective
    <2>7. \A i \in 1..Len(q) : /\ q[i].call = e.calls[i] /\ q[i].turn = e.turn
                               /\ q[i].step = e.step /\ ~q[i].recorded
      <3>1. /\ Len(Pending(e)) = Len(e.calls)
            /\ \A i \in 1..Len(e.calls) :
                    /\ Pending(e)[i].call = e.calls[i] /\ Pending(e)[i].turn = e.turn
                    /\ Pending(e)[i].step = e.step /\ ~Pending(e)[i].recorded
        <4>1. e \in Event /\ e.kind = "assistant/message"
          BY <1>1, <1>12
        <4> QED
          BY ONLY <4>1, PendingIs
      <3> HIDE DEF q
      <3> QED
        BY <2>1, <3>1
    <2> HIDE DEF p, q
    <2>8. \A i, k \in 1..Len(q) : q[k].call = q[i].call => k = i
      BY <2>2, <2>6, <2>7
    <2>9. \A i \in 1..Len(q) : q[i].recorded <=> ToolCall(q[i].turn, q[i].step, q[i].call) \in ToSet(fs)
      BY <2>4, <2>7
    <2>10. \A i \in 1..Len(q) : \A d \in ToSet(fs) :
                d.kind = "tool/result" => ~(d.turn = q[i].turn /\ d.step = q[i].step)
      BY <2>5, <2>7
    <2> QED
      BY <2>1, <2>3, <2>7, <2>8, <2>9, <2>10
  <1>13. CASE e.kind = "tool/call"
    <2>1. after.turn = seen.turn /\ after.step = seen.step /\ Len(q) = Len(p) /\ e.turn = seen.turn /\ e.step = seen.step
      BY <1>4, <1>5, <1>13
    <2>2. \A i \in 1..Len(p) :
            /\ q[i].call = p[i].call /\ q[i].turn = p[i].turn /\ q[i].step = p[i].step
            /\ q[i].recorded = (p[i].recorded \/ p[i].call = e.call)
      BY <1>2, <1>4, <1>13 DEF Entry
    <2>3. Asked(fs, seen.turn, seen.step) # {}
      <3>1. \E x \in ToSet(p) : x.call = e.call
        BY <1>13 DEF Follows, seen
      <3>2. p # <<>>
        BY <1>2, <3>1, ElementsOf
      <3> QED
        BY <1>3, <1>6, <3>2
    <2>4. \A c : ToolCall(seen.turn, seen.step, c) \in ToSet(fs) <=>
                    \/ ToolCall(seen.turn, seen.step, c) \in ToSet(es) \/ c = e.call
      <3>1. e = ToolCall(seen.turn, seen.step, e.call)
        BY <1>1, <1>13, <2>1
      <3> QED
        BY <1>3, <1>8, <3>1
    <2>5. \A i \in 1..Len(p) :
            q[i].recorded <=> ToolCall(q[i].turn, q[i].step, q[i].call) \in ToSet(fs)
      <3> TAKE i \in 1..Len(p)
      <3>1. /\ q[i].turn = seen.turn /\ q[i].step = seen.step /\ q[i].call = p[i].call
            /\ p[i].recorded <=> ToolCall(seen.turn, seen.step, p[i].call) \in ToSet(es)
        BY <1>6, <2>2
      <3>2. q[i].recorded = (p[i].recorded \/ p[i].call = e.call)
        BY <2>2
      <3>3. ToolCall(seen.turn, seen.step, p[i].call) \in ToSet(fs) <=>
                \/ ToolCall(seen.turn, seen.step, p[i].call) \in ToSet(es) \/ p[i].call = e.call
        BY <2>4
      <3> HIDE DEF p, q
      <3> QED
        BY <3>1, <3>2, <3>3
    <2>6. \A d \in ToSet(fs) : d.kind = "tool/result" => d \in ToSet(es)
      BY <1>3, <1>13
    <2> QED
      BY <1>6, <2>1, <2>2, <2>3, <2>5, <2>6
  <1>14. CASE e.kind = "tool/result"
    <2>1. after.turn = seen.turn /\ after.step = seen.step /\ q = Tail(p)
      BY <1>4, <1>14
    <2>2. /\ Len(p) \in Nat \ {0} /\ Head(p) = p[1] /\ Len(q) = Len(p) - 1
          /\ \A i \in 1..Len(q) : q[i] = p[i + 1] /\ i + 1 \in 1..Len(p)
      BY <1>2, <1>5, <1>14, <2>1, EmptySeq, HeadTailProperties
    <2>3. Asked(fs, seen.turn, seen.step) # {}
      BY <1>3, <1>5, <1>6, <1>14
    <2>4. \A t, s, c : ToolCall(t, s, c) \in ToSet(fs) <=> ToolCall(t, s, c) \in ToSet(es)
      BY <1>3, <1>8, <1>14
    <2>5. e.call = p[1].call /\ 1 \in 1..Len(p)
      BY <1>5, <1>14, <2>2
    <2>6. \A i \in 1..Len(q) : e.call # q[i].call
      <3>1. \A i \in 1..Len(q) : i + 1 # 1
        BY <2>2
      <3> QED
        BY <1>6, <2>2, <2>5, <3>1
    <2>7. \A i \in 1..Len(q) : \A k \in 1..Len(q) : q[k].call = q[i].call => k = i
      <3> HIDE DEF p, q
      <3> TAKE i \in 1..Len(q)
      <3> TAKE k \in 1..Len(q)
      <3> HAVE q[k].call = q[i].call
      <3>1. p[k + 1].call = p[i + 1].call /\ k + 1 \in 1..Len(p) /\ i + 1 \in 1..Len(p)
        BY <2>2
      <3>2. k + 1 = i + 1
        BY <1>6, <3>1
      <3> QED
        BY <3>2
    <2>8. \A i \in 1..Len(q) : \A d \in ToSet(fs) :
                d.kind = "tool/result" /\ d.turn = q[i].turn /\ d.step = q[i].step => d.call # q[i].call
      BY <1>3, <1>6, <2>2, <2>6
    <2>9. \A i \in 1..Len(q) :
            /\ q[i].turn = seen.turn /\ q[i].step = seen.step
            /\ q[i].recorded <=> ToolCall(q[i].turn, q[i].step, q[i].call) \in ToSet(fs)
      <3> HIDE DEF p, q
      <3> QED
        BY <1>6, <2>2, <2>4
    <2> HIDE DEF p, q
    <2> QED
      BY <2>1, <2>3, <2>7, <2>8, <2>9
  <1> QED
    BY <1>1, <1>10, <1>11, <1>12, <1>13, <1>14 DEF Boundary, InnerKinds

LEMMA StepsStep ==
    ASSUME NEW es \in Seq(Event), NEW e, Good(es), Follows(es, e)
    PROVE  StepsGood(Append(es, e))
  <1> DEFINE fs == Append(es, e)
             seen == Seen(es)
             after == Seen(fs)
             T == LastTurn(es)
             p == seen.pending
  <1>1. e \in Event /\ e.kind \in Boundary \union InnerKinds \union {"session/end-seed"}
        /\ (e.kind = "step/start" => e = StepStart(e.turn, e.step))
        /\ (e.kind = "step/end" => e = StepEnd(e.turn, e.step))
    BY EventFields DEF Follows
  <1>2. /\ seen.turn \in {0, T} /\ (seen.turn = 0 => seen.step = 0)
        /\ p \in Seq(Entry) /\ Len(p) \in Nat
    BY LenProperties DEF Good, OpenGood, OpenState
  <1>3. /\ ToSet(fs) = ToSet(es) \union {e} /\ ToSet(es) \subseteq Event
        /\ \A t, s : Asked(es, t, s) \subseteq Asked(fs, t, s)
        /\ T \in Nat /\ \A t : Closed(es, t) \in Nat
    BY <1>1, LongerIs
  <1>4. /\ e.kind = "turn/start" => after.step = 0
        /\ e.kind = "turn/end" => after.step = 0
        /\ e.kind = "step/start" => after.turn = seen.turn /\ after.step = Closed(es, seen.turn) + 1
        /\ e.kind = "step/end" => after.turn = seen.turn /\ after.step = 0
        /\ e.kind \in {"user/message", "session/end-seed", "assistant/message", "tool/call", "tool/result"} =>
             after.turn = seen.turn /\ after.step = seen.step
    BY AfterIs DEF Nothing
  <1>5. /\ e.kind = "turn/start" => seen.turn = 0
        /\ e.kind \in {"turn/end", "step/start"} =>
                seen.turn # 0 /\ e.turn = seen.turn /\ seen.step = 0
        /\ e.kind = "step/start" => e.step = Closed(es, e.turn) + 1
        /\ e.kind \in {"user/message", "assistant/message", "tool/call", "tool/result", "step/end"} =>
                seen.step # 0 /\ e.turn = seen.turn /\ e.step = seen.step
        /\ e.kind = "tool/call" => \E x \in ToSet(p) : x.call = e.call
        /\ e.kind = "tool/result" =>
            p # <<>> /\ Head(p).call = e.call /\ (e.code = "not-started" <=> ~Head(p).recorded)
    BY DEF Follows
  <1>6. /\ p # <<>> => Asked(es, seen.turn, seen.step) # {}
        /\ \A i \in 1..Len(p) :
            /\ p[i].turn = seen.turn /\ p[i].step = seen.step
            /\ p[i].recorded <=> ToolCall(p[i].turn, p[i].step, p[i].call) \in ToSet(es)
    BY DEF Good, PendingGood
  <1>7. /\ seen.step # 0 => StepStart(seen.turn, seen.step) \in ToSet(es)
        /\ \A d \in ToSet(es) :
            /\ d.kind \in InnerKinds => StepStart(d.turn, d.step) \in ToSet(es)
            /\ d.kind = "step/start" => \/ StepEnd(d.turn, d.step) \in ToSet(es)
                                        \/ d.turn = seen.turn /\ d.step = seen.step
            /\ d.kind = "step/end" => ~(d.turn = seen.turn /\ d.step = seen.step)
            /\ d.kind \in {"tool/call", "tool/result"} => Asked(es, d.turn, d.step) # {}
            /\ d.kind = "tool/result" /\ d.code # "not-started"
                    => ToolCall(d.turn, d.step, d.call) \in ToSet(es)
    BY DEF Good, StepsGood
  <1>8. \A d \in ToSet(es) : d.kind \in InnerKinds =>
            /\ d.turn # 0 /\ d.step # 0 /\ d.step \in Nat
            /\ d.turn = T => d.step <= Closed(es, T) + IF seen.step = 0 THEN 0 ELSE 1
    BY <1>3, EventFields DEF Good, NumbersGood, InnerKinds
  <1> HIDE DEF fs, seen, after, T
  <1>9. after.step # 0 => StepStart(after.turn, after.step) \in ToSet(fs)
    <2>1. CASE e.kind = "step/start"
      BY <1>1, <1>3, <1>4, <1>5, <2>1
    <2>2. CASE e.kind # "step/start" /\ after.step # 0
      BY <1>1, <1>3, <1>4, <1>7, <2>2 DEF Boundary, InnerKinds
    <2> QED
      BY <2>1, <2>2
  <1>10. \A d \in ToSet(fs) : d.kind \in InnerKinds => StepStart(d.turn, d.step) \in ToSet(fs)
    <2>1. e.kind \in InnerKinds => StepStart(e.turn, e.step) \in ToSet(fs)
      BY <1>1, <1>3, <1>5, <1>7 DEF InnerKinds
    <2> QED
      BY <1>3, <1>7, <2>1
  <1>11. \A d \in ToSet(fs) : d.kind = "step/start" =>
            StepEnd(d.turn, d.step) \in ToSet(fs) \/ (d.turn = after.turn /\ d.step = after.step)
    <2>1. e.kind = "step/start" => e.turn = after.turn /\ e.step = after.step
      BY <1>4, <1>5
    <2>2. ASSUME NEW d \in ToSet(es), d.kind = "step/start", d.turn = seen.turn, d.step = seen.step
          PROVE  StepEnd(d.turn, d.step) \in ToSet(fs) \/ (d.turn = after.turn /\ d.step = after.step)
      <3>1. d.turn # 0 /\ d.step # 0
        BY <1>8, <2>2 DEF InnerKinds
      <3>2. CASE e.kind = "step/end"
        BY <1>1, <1>3, <1>5, <2>2, <3>2
      <3>3. CASE e.kind # "step/end"
        BY <1>1, <1>4, <1>5, <2>2, <3>1, <3>3 DEF Boundary, InnerKinds
      <3> QED
        BY <3>2, <3>3
    <2> QED
      BY <1>3, <1>7, <2>1, <2>2
  <1>12. \A d \in ToSet(fs) : d.kind = "step/end" => ~(d.turn = after.turn /\ d.step = after.step)
    <2>1. e.kind = "step/end" => e.step # after.step
      BY <1>4, <1>5
    <2>2. ASSUME NEW d \in ToSet(es), d.kind = "step/end"
          PROVE  ~(d.turn = after.turn /\ d.step = after.step)
      <3>1. d.step # 0 /\ ~(d.turn = seen.turn /\ d.step = seen.step)
        BY <1>7, <1>8, <2>2 DEF InnerKinds
      <3>2. CASE e.kind = "step/start"
        <4>1. seen.turn = T /\ seen.step = 0 /\ after.turn = T /\ after.step = Closed(es, T) + 1
          BY <1>2, <1>4, <1>5, <3>2
        <4>2. d.turn = T => d.step <= Closed(es, T)
          BY <1>3, <1>8, <2>2, <4>1 DEF InnerKinds
        <4>3. d.step \in Nat /\ Closed(es, T) \in Nat
          BY <1>3, <1>8, <2>2 DEF InnerKinds
        <4> QED
          BY <4>1, <4>2, <4>3
      <3>3. CASE e.kind # "step/start"
        BY <1>1, <1>4, <3>1, <3>3 DEF Boundary, InnerKinds
      <3> QED
        BY <3>2, <3>3
    <2> QED
      BY <1>3, <2>1, <2>2
  <1>13. \A d \in ToSet(fs) : d.kind \in {"tool/call", "tool/result"} => Asked(fs, d.turn, d.step) # {}
    <2>1. e.kind = "tool/call" => p # <<>>
      BY <1>2, <1>5, ElementsOf
    <2>2. e.kind \in {"tool/call", "tool/result"} => Asked(es, e.turn, e.step) # {}
      BY <1>5, <1>6, <2>1
    <2> QED
      BY <1>3, <1>7, <2>2
  <1>14. \A d \in ToSet(fs) : d.kind = "tool/result" /\ d.code # "not-started"
                => ToolCall(d.turn, d.step, d.call) \in ToSet(fs)
    <2>1. p # <<>> => Head(p) = p[1] /\ 1 \in 1..Len(p)
      BY <1>2, EmptySeq
    <2>2. e.kind = "tool/result" /\ e.code # "not-started" => ToolCall(e.turn, e.step, e.call) \in ToSet(es)
      BY <1>5, <1>6, <2>1
    <2> QED
      BY <1>3, <1>7, <2>2
  <1> QED
    BY <1>9, <1>10, <1>11, <1>12, <1>13, <1>14 DEF StepsGood, after, fs

\* A sequence over a set is one over any larger set.
LEMMA SeqWiden ==
    ASSUME NEW A, NEW B, A \subseteq B, NEW s \in Seq(A)
    PROVE  s \in Seq(B)
  OBVIOUS

LEMMA ResultsStep ==
    ASSUME NEW es \in Seq(Event), NEW e, Good(es), Follows(es, e)
    PROVE  ResultsGood(Append(es, e))
  <1> DEFINE fs == Append(es, e)
             Of(es1, t, s) == {d \in ToSet(es1) : d.kind = "tool/result" /\ d.turn = t /\ d.step = s}
  <1>1. e \in Event
    BY DEF Follows
  <1>2. ToSet(fs) = ToSet(es) \union {e}
    BY <1>1, LongerIs
  <1>3. \A t, s \in Nat : ResultsOf(es, t, s) \in Seq(Of(es, t, s))
    BY DEF Good, ResultsGood
  <1>4. \A t, s \in Nat : ResultsOf(fs, t, s) = Collected(ResultsOf(es, t, s), e, t, s)
    BY <1>1, ResultsAppend
  <1> HIDE DEF fs
  <1>5. ASSUME NEW t \in Nat, NEW s \in Nat PROVE ResultsOf(fs, t, s) \in Seq(Of(fs, t, s))
    <2>1. Of(es, t, s) \subseteq Of(fs, t, s)
      BY <1>2
    <2>2. ResultsOf(es, t, s) \in Seq(Of(fs, t, s))
      BY <1>3, <2>1, SeqWiden
    <2>3. CASE e.kind = "tool/result" /\ e.turn = t /\ e.step = s
      <3>1. e \in Of(fs, t, s)
        BY <1>2, <2>3
      <3>2. ResultsOf(fs, t, s) = Append(ResultsOf(es, t, s), e)
        BY <1>4, <2>3 DEF Collected
      <3> HIDE DEF Of
      <3> QED
        BY <2>2, <3>1, <3>2, AppendProperties
    <2>4. CASE ~(e.kind = "tool/result" /\ e.turn = t /\ e.step = s)
      <3>1. ResultsOf(fs, t, s) = ResultsOf(es, t, s)
        BY <1>4, <2>4 DEF Collected
      <3> QED
        BY <2>2, <3>1
    <2> QED
      BY <2>3, <2>4
  <1> QED
    BY <1>5 DEF ResultsGood, fs

LEMMA AnswersStep ==
    ASSUME NEW es \in Seq(Event), NEW e, Good(es), Follows(es, e)
    PROVE  AnswersGood(Append(es, e))
  <1> DEFINE fs == Append(es, e)
             seen == Seen(es)
             after == Seen(fs)
             p == seen.pending
             q == after.pending
             Of(d) == ResultsOf(es, d.turn, d.step)
  <1>1. e \in Event /\ e.kind \in Boundary \union InnerKinds \union {"session/end-seed"}
        /\ (e.kind = "assistant/message" => e.calls \in Requests /\ e.turn \in Nat /\ e.step \in Nat)
    BY EventFields DEF Follows, InnerKinds
  <1>2. /\ seen.turn \in Nat /\ seen.step \in Nat /\ p \in Seq(Entry) /\ Len(p) \in Nat
        /\ seen.step = 0 => p = <<>>
        /\ \A i \in 1..Len(p) : p[i] \in Entry
    BY LenProperties DEF Good, OpenGood, OpenState
  <1>3. ToSet(fs) = ToSet(es) \union {e} /\ ToSet(es) \subseteq Event
    BY <1>1, LongerIs
  <1>4. /\ e.kind \in {"turn/start", "turn/end", "step/start", "step/end"} => q = <<>>
        /\ e.kind \in {"user/message", "session/end-seed"} => after = seen
        /\ e.kind = "assistant/message" =>
             /\ p = <<>>
             /\ after = [turn |-> seen.turn, step |-> seen.step, pending |-> Pending(e)]
        /\ e.kind = "tool/call" =>
             /\ after.turn = seen.turn /\ after.step = seen.step
             /\ Len(q) = Len(p)
             /\ \A i \in 1..Len(p) : q[i] = IF p[i].call = e.call
                                            THEN [p[i] EXCEPT !.recorded = TRUE] ELSE p[i]
        /\ e.kind = "tool/result" =>
             after = [turn |-> seen.turn, step |-> seen.step, pending |-> Tail(p)]
    BY AfterIs DEF Nothing
  <1>5. /\ e.kind \in {"turn/end", "step/start"} => seen.step = 0
        /\ e.kind = "turn/start" => seen.turn = 0
        /\ e.kind \in {"assistant/message", "tool/call", "tool/result"} =>
                e.turn = seen.turn /\ e.step = seen.step
        /\ e.kind = "assistant/message" => Asked(es, e.turn, e.step) = {}
        /\ e.kind = "tool/result" => p # <<>> /\ Head(p).call = e.call
        /\ e.kind = "step/end" => p = <<>>
    BY DEF Follows
  <1>6. \A d \in ToSet(es) : d.kind = "assistant/message" =>
            /\ Len(Of(d)) + Len(Rest(es, d.turn, d.step)) = Len(d.calls)
            /\ \A k \in 1..Len(Of(d)) : Of(d)[k].call = d.calls[k]
            /\ \A k \in 1..Len(Rest(es, d.turn, d.step)) :
                    Rest(es, d.turn, d.step)[k].call = d.calls[Len(Of(d)) + k]
    BY DEF Good, AnswersGood
  <1>7. \A d \in ToSet(es) : d.kind = "assistant/message" => d.turn \in Nat /\ d.step \in Nat
    BY <1>3, EventFields DEF InnerKinds
  <1>8. \A t, s \in Nat : /\ Len(ResultsOf(es, t, s)) \in Nat
                          /\ ResultsOf(es, t, s) \in Seq(ToSet(es))
                          /\ (Asked(es, t, s) = {} => ResultsOf(es, t, s) = <<>>)
    <2> TAKE t, s \in Nat
    <2> DEFINE R == {d \in ToSet(es) : d.kind = "tool/result" /\ d.turn = t /\ d.step = s}
    <2>1. ResultsOf(es, t, s) \in Seq(R) /\ R \subseteq ToSet(es)
      BY DEF Good, ResultsGood
    <2>2. Asked(es, t, s) = {} => R = {}
      BY DEF Good, StepsGood
    <2>3. ResultsOf(es, t, s) \in Seq(ToSet(es))
      BY <2>1, SeqWiden
    <2>4. R = {} => ResultsOf(es, t, s) = <<>>
      <3> HIDE DEF R
      <3>1. ToSet(ResultsOf(es, t, s)) \subseteq R
        BY <2>1, ElementsOf
      <3>2. ToSet(ResultsOf(es, t, s)) = {} => ResultsOf(es, t, s) = <<>>
        BY <2>1, ElementsOf
      <3> QED
        BY <3>1, <3>2
    <2> HIDE DEF R
    <2> QED
      BY <2>1, <2>2, <2>3, <2>4, LenProperties
  <1>9. \A t, s \in Nat : ResultsOf(fs, t, s) = Collected(ResultsOf(es, t, s), e, t, s)
    BY <1>1, ResultsAppend
  <1>10. (seen.turn = 0 => seen.step = 0)
    BY DEF Good, OpenGood
  <1>11. \A d \in ToSet(es) : d.kind = "assistant/message" => Asked(es, d.turn, d.step) # {}
    BY DEF Asked, ToSet
  <1>12. /\ \A t, s : Rest(es, t, s) = IF t = seen.turn /\ s = seen.step THEN p ELSE <<>>
         /\ \A t, s : Rest(fs, t, s) = IF t = after.turn /\ s = after.step THEN q ELSE <<>>
    BY DEF Rest
  <1>13. Len(<<>>) = 0
    BY EmptySeq
  <1> DEFINE New(d) == ResultsOf(fs, d.turn, d.step)
  <1> HIDE DEF fs, seen, after
  <1> SUFFICES ASSUME NEW d \in ToSet(es) \union {e}, d.kind = "assistant/message"
               PROVE  /\ Len(New(d)) + Len(Rest(fs, d.turn, d.step)) = Len(d.calls)
                      /\ \A k \in 1..Len(New(d)) : New(d)[k].call = d.calls[k]
                      /\ \A k \in 1..Len(Rest(fs, d.turn, d.step)) :
                            Rest(fs, d.turn, d.step)[k].call = d.calls[Len(New(d)) + k]
    BY <1>3 DEF AnswersGood, fs
  <1>14. CASE d = e
    <2>1. /\ e.kind = "assistant/message" /\ New(d) = <<>>
      <3>1. ResultsOf(fs, e.turn, e.step) = ResultsOf(es, e.turn, e.step)
        BY <1>1, <1>9, <1>14 DEF Collected
      <3> QED
        BY <1>1, <1>5, <1>8, <1>14, <3>1
    <2>2. Rest(fs, d.turn, d.step) = Pending(e)
      BY <1>4, <1>5, <1>12, <1>14, <2>1
    <2>3. /\ Len(Pending(e)) = Len(e.calls)
          /\ \A k \in 1..Len(e.calls) : Pending(e)[k].call = e.calls[k]
      BY <1>1, <2>1, PendingIs
    <2>4. Len(e.calls) \in Nat
      BY <1>1, <2>1, RecoveryAssumption, LenProperties
    <2> QED
      BY <1>13, <1>14, <2>1, <2>2, <2>3, <2>4
  <1>15. CASE d \in ToSet(es) /\ (e.kind # "tool/result" \/ ~(d.turn = seen.turn /\ d.step = seen.step))
    <2>1. New(d) = Of(d)
      <3>1. ~(e.kind = "tool/result" /\ e.turn = d.turn /\ e.step = d.step)
        BY <1>5, <1>15
      <3>2. d.turn \in Nat /\ d.step \in Nat
        BY <1>7, <1>15
      <3> QED
        BY <1>9, <3>1, <3>2 DEF Collected
    <2>2. /\ Len(Rest(fs, d.turn, d.step)) = Len(Rest(es, d.turn, d.step))
          /\ \A k \in 1..Len(Rest(es, d.turn, d.step)) :
                Rest(fs, d.turn, d.step)[k].call = Rest(es, d.turn, d.step)[k].call
      <3>1. CASE e.kind \in {"turn/start", "turn/end", "step/start", "step/end"}
        <4>1. p = <<>> /\ q = <<>>
          BY <1>2, <1>4, <1>5, <1>10, <3>1
        <4> QED
          BY <1>12, <4>1
      <3>2. CASE e.kind \in {"user/message", "session/end-seed"}
        BY <1>4, <1>12, <3>2
      <3>3. CASE e.kind = "assistant/message"
        <4>1. ~(d.turn = seen.turn /\ d.step = seen.step)
          BY <1>5, <1>11, <1>15, <3>3
        <4>2. after.turn = seen.turn /\ after.step = seen.step
          BY <1>4, <3>3
        <4> QED
          BY <1>12, <4>1, <4>2
      <3>4. CASE e.kind = "tool/call"
        <4>1. /\ after.turn = seen.turn /\ after.step = seen.step /\ Len(q) = Len(p)
              /\ \A i \in 1..Len(p) : q[i].call = p[i].call
          BY <1>2, <1>4, <3>4 DEF Entry
        <4> QED
          BY <1>12, <4>1
      <3>5. CASE e.kind = "tool/result"
        <4>1. ~(d.turn = seen.turn /\ d.step = seen.step)
          BY <1>15, <3>5
        <4>2. after.turn = seen.turn /\ after.step = seen.step
          BY <1>4, <3>5
        <4> QED
          BY <1>12, <4>1, <4>2
      <3> QED
        BY <1>1, <3>1, <3>2, <3>3, <3>4, <3>5 DEF Boundary, InnerKinds
    <2> QED
      BY <1>6, <1>15, <2>1, <2>2
  <1>16. CASE d \in ToSet(es) /\ e.kind = "tool/result" /\ d.turn = seen.turn /\ d.step = seen.step
    <2>1. d.turn \in Nat /\ d.step \in Nat
      BY <1>7, <1>16
    <2>2. New(d) = Append(Of(d), e)
      BY <1>5, <1>9, <1>16, <2>1 DEF Collected
    <2>3. Rest(es, d.turn, d.step) = p /\ Rest(fs, d.turn, d.step) = Tail(p)
      <3>1. after.turn = seen.turn /\ after.step = seen.step /\ q = Tail(p)
        BY <1>4, <1>16
      <3> QED
        BY <1>12, <1>16, <3>1
    <2>4. /\ Len(p) \in Nat \ {0} /\ Head(p) = p[1] /\ Len(Tail(p)) = Len(p) - 1
          /\ \A i \in 1 .. Len(p) - 1 : Tail(p)[i] = p[i + 1]
      BY <1>2, <1>5, <1>16, EmptySeq, HeadTailProperties
    <2>5. /\ Len(Of(d)) \in Nat /\ Of(d) \in Seq(Event)
      BY <1>3, <1>8, <2>1, SeqWiden
    <2>6. /\ Len(New(d)) = Len(Of(d)) + 1 /\ New(d)[Len(Of(d)) + 1] = e
          /\ \A k \in 1..Len(Of(d)) : New(d)[k] = Of(d)[k]
      BY <1>1, <2>2, <2>5, AppendProperties
    <2>7. /\ Len(Of(d)) + Len(p) = Len(d.calls)
          /\ \A k \in 1..Len(Of(d)) : Of(d)[k].call = d.calls[k]
          /\ \A k \in 1..Len(p) : p[k].call = d.calls[Len(Of(d)) + k]
      BY <1>6, <1>16, <2>3
    <2>8. e.call = p[1].call
      BY <1>5, <1>16, <2>4
    <2> HIDE DEF New, Of, p
    <2>9. Len(New(d)) + Len(Tail(p)) = Len(d.calls)
      BY <2>4, <2>5, <2>6, <2>7
    <2>10. \A k \in 1..Len(New(d)) : New(d)[k].call = d.calls[k]
      <3> TAKE k \in 1..Len(New(d))
      <3>1. CASE k <= Len(Of(d))
        BY <2>5, <2>6, <2>7, <3>1
      <3>2. CASE k = Len(Of(d)) + 1
        <4>1. p[1].call = d.calls[Len(Of(d)) + 1]
          BY <2>4, <2>7
        <4> QED
          BY <2>6, <2>8, <3>2, <4>1
      <3> QED
        BY <2>5, <2>6, <3>1, <3>2
    <2>11. \A k \in 1..Len(Tail(p)) : Tail(p)[k].call = d.calls[Len(New(d)) + k]
      <3> TAKE k \in 1..Len(Tail(p))
      <3>1. k + 1 \in 1..Len(p) /\ Tail(p)[k] = p[k + 1] /\ Len(New(d)) + k = Len(Of(d)) + (k + 1)
        BY <2>4, <2>5, <2>6
      <3> QED
        BY <2>7, <3>1
    <2> QED
      BY <2>3, <2>9, <2>10, <2>11
  <1> QED
    BY <1>14, <1>15, <1>16

\* A good log stays good by an event that follows from it.
LEMMA GoodStep ==
    ASSUME NEW es \in Seq(Event), NEW e, Good(es), Follows(es, e)
    PROVE  Append(es, e) \in Seq(Event) /\ Good(Append(es, e))
  <1>1. Append(es, e) \in Seq(Event)
    BY AppendProperties DEF Follows
  <1> QED
    BY <1>1, OpenStep, NumbersStep, PendingStep, StepsStep, AnswersStep, ResultsStep DEF Good

\* A good log has answered every step it closed.
LEMMA GoodIsAnswered ==
    ASSUME NEW es \in Seq(Event), Good(es)
    PROVE  Answered(es)
  <1> SUFFICES ASSUME NEW f \in ToSet(es), f.kind = "step/end",
                      NEW i \in Asked(es, f.turn, f.step)
               PROVE  LET answers == ResultsOf(es, f.turn, f.step)
                      IN  /\ [k \in DOMAIN answers |-> answers[k].call] = es[i].calls
                          /\ \A k \in DOMAIN answers : answers[k].code # "not-started" =>
                                ToolCall(f.turn, f.step, answers[k].call) \in ToSet(es)
    BY DEF Answered, ClosedSteps
  <1> DEFINE answers == ResultsOf(es, f.turn, f.step)
             R == {d \in ToSet(es) : d.kind = "tool/result" /\ d.turn = f.turn /\ d.step = f.step}
  <1>1. f.turn \in Nat /\ f.step \in Nat /\ ToSet(es) \subseteq Event
    BY ElementsOf, EventFields DEF InnerKinds
  <1>2. /\ es[i] \in ToSet(es) /\ es[i].kind = "assistant/message"
        /\ es[i].turn = f.turn /\ es[i].step = f.step
    BY DEF Asked, ToSet
  <1>3. es[i].calls \in Seq(Calls) /\ DOMAIN es[i].calls = 1..Len(es[i].calls)
    BY <1>1, <1>2, EventFields, RecoveryAssumption, LenProperties
  <1>4. Rest(es, f.turn, f.step) = <<>>
    BY DEF Good, StepsGood, Rest
  <1>5. /\ Len(answers) + Len(Rest(es, f.turn, f.step)) = Len(es[i].calls)
        /\ \A k \in 1..Len(answers) : answers[k].call = es[i].calls[k]
    BY <1>2 DEF Good, AnswersGood
  <1>6. answers \in Seq(R)
    BY <1>1 DEF Good, ResultsGood
  <1>7. DOMAIN answers = 1..Len(answers) /\ Len(answers) \in Nat /\ \A k \in 1..Len(answers) : answers[k] \in R
    <2> HIDE DEF answers, R
    <2> QED
      BY <1>6, LenProperties
  <1>8. Len(answers) = Len(es[i].calls)
    BY <1>4, <1>5, <1>7, EmptySeq
  <1>9. [k \in DOMAIN answers |-> answers[k].call] = es[i].calls
    <2> HIDE DEF answers
    <2>1. DOMAIN es[i].calls = DOMAIN answers /\ \A k \in DOMAIN answers : answers[k].call = es[i].calls[k]
      BY <1>3, <1>5, <1>7, <1>8
    <2>2. es[i].calls = [k \in DOMAIN es[i].calls |-> es[i].calls[k]]
      <3> DEFINE q == es[i].calls
      <3>1. q \in Seq(Calls)
        BY <1>3
      <3> HIDE DEF q
      <3>2. q = [k \in DOMAIN q |-> q[k]]
        BY ONLY <3>1
      <3> QED
        BY <3>2 DEF q
    <2> QED
      BY <2>1, <2>2
  <1>10. \A k \in DOMAIN answers : answers[k].code # "not-started" =>
            ToolCall(f.turn, f.step, answers[k].call) \in ToSet(es)
    <2> TAKE k \in DOMAIN answers
    <2>1. answers[k] \in R
      BY <1>7
    <2> QED
      BY <2>1 DEF Good, StepsGood
  <1> QED
    BY <1>9, <1>10

-----------------------------------------------------------------------------
(* Legal logs. *)

\* The log so far does not change when an event is appended.
LEMMA PrefixOfAppend ==
    ASSUME NEW S, NEW es \in Seq(S), NEW e \in S, NEW n \in 0..Len(es)
    PROVE  SubSeq(Append(es, e), 1, n) = SubSeq(es, 1, n)
  <1>1. Append(es, e) = es \o <<e>> /\ <<e>> \in Seq(S) /\ Len(es) \in Nat
    BY AppendIsConcat, LenProperties
  <1>2. CASE n = 0
    BY <1>2, SubSeqEmpty
  <1>3. CASE n # 0
    <2>1. 1 \in 1..Len(es) /\ n \in 1..Len(es)
      BY <1>1, <1>3
    <2> QED
      BY <1>1, <2>1, SubSeqOfConcat1
  <1> QED
    BY <1>2, <1>3

\* The same for any tail.
LEMMA PrefixOfConcat ==
    ASSUME NEW S, NEW es \in Seq(S), NEW fs \in Seq(S), NEW n \in 0..Len(es)
    PROVE  SubSeq(es \o fs, 1, n) = SubSeq(es, 1, n)
  <1>1. Len(es) \in Nat
    BY LenProperties
  <1>2. CASE n = 0
    BY <1>2, SubSeqEmpty
  <1>3. CASE n # 0
    <2>1. 1 \in 1..Len(es) /\ n \in 1..Len(es)
      BY <1>1, <1>3
    <2> QED
      BY <2>1, SubSeqOfConcat1
  <1> QED
    BY <1>2, <1>3

\* A prefix and the element after it.
LEMMA PrefixGrows ==
    ASSUME NEW S, NEW c \in Seq(S), NEW k \in 1..Len(c)
    PROVE  /\ SubSeq(c, 1, k - 1) \in Seq(S) /\ c[k] \in S
           /\ SubSeq(c, 1, k) = Append(SubSeq(c, 1, k - 1), c[k])
  <1>1. Len(c) \in Nat /\ \A i \in 1..Len(c) : c[i] \in S
    BY LenProperties
  <1>2. SubSeq(c, 1, k - 1) \in Seq(S)
    BY <1>1, SubSeqProperties
  <1>3. SubSeq(c, 1, k) = SubSeq(c, 1, k - 1) \o <<c[k]>>
    BY <1>1, SubSeqRecursiveSecond
  <1> QED
    BY <1>1, <1>2, <1>3, AppendIsConcat

\* A suffix and the element before it.
LEMMA SuffixShrinks ==
    ASSUME NEW S, NEW c \in Seq(S), NEW k \in 1..Len(c)
    PROVE  /\ SubSeq(c, k, Len(c)) \in Seq(S) /\ SubSeq(c, k, Len(c)) # <<>>
           /\ Head(SubSeq(c, k, Len(c))) = c[k]
           /\ Tail(SubSeq(c, k, Len(c))) = SubSeq(c, k + 1, Len(c))
  <1>1. Len(c) \in Nat /\ \A i \in 1..Len(c) : c[i] \in S
    BY LenProperties
  <1>2. SubSeq(c, k, Len(c)) \in Seq(S) /\ Len(SubSeq(c, k, Len(c))) = Len(c) - k + 1
    BY <1>1, SubSeqProperties
  <1>3. SubSeq(c, k, Len(c)) # <<>>
    <2>1. Len(<<>>) = 0
      BY EmptySeq
    <2>2. Len(c) - k + 1 # 0
      BY <1>1
    <2> QED
      BY <1>2, <2>1, <2>2
  <1>4. Len(c) \in k..Len(c)
    BY <1>1
  <1> QED
    BY <1>2, <1>3, <1>4, HeadTailOfSubSeq

\* An element may be appended before or after a prefix is put in front.
LEMMA ConcatAppend ==
    ASSUME NEW S, NEW es \in Seq(S), NEW fs \in Seq(S), NEW e \in S
    PROVE  /\ es \o Append(fs, e) = Append(es \o fs, e)
           /\ es \o fs \in Seq(S) /\ Append(fs, e) \in Seq(S)
  <1>1. es \o fs \in Seq(S) /\ Append(fs, e) \in Seq(S) /\ <<e>> \in Seq(S)
    BY ConcatProperties, AppendProperties
  <1>2. Append(fs, e) = fs \o <<e>> /\ Append(es \o fs, e) = (es \o fs) \o <<e>>
    BY <1>1, AppendIsConcat
  <1>3. (es \o fs) \o <<e>> = es \o (fs \o <<e>>)
    BY <1>1, ConcatAssociative
  <1> QED
    BY <1>1, <1>2, <1>3

LEMMA LegalEmpty == Legal(<<>>)
  <1>1. DOMAIN <<>> = {}
    <2>1. Len(<<>>) = 0 /\ <<>> \in Seq({0})
      BY EmptySeq
    <2> QED
      BY <2>1
  <1> QED
    BY <1>1 DEF Legal

LEMMA LegalAppend ==
    ASSUME NEW es \in Seq(Event), NEW e \in Event
    PROVE  Legal(Append(es, e)) <=> Legal(es) /\ Follows(es, e)
  <1> DEFINE fs == Append(es, e)
             n  == Len(es)
  <1>1. n \in Nat /\ DOMAIN es = 1..n /\ DOMAIN fs = 1..(n + 1) /\ fs[n + 1] = e
        /\ \A i \in 1..n : fs[i] = es[i]
    BY LenProperties
  <1>2. \A i \in 1..(n + 1) : SubSeq(fs, 1, i - 1) = SubSeq(es, 1, i - 1)
    <2> TAKE i \in 1..(n + 1)
    <2>1. i - 1 \in 0..Len(es)
      BY <1>1
    <2> QED
      BY <2>1, PrefixOfAppend
  <1>3. SubSeq(fs, 1, (n + 1) - 1) = es
    <2>1. (n + 1) - 1 = Len(es) /\ n + 1 \in 1..(n + 1)
      BY <1>1
    <2> QED
      BY <1>2, <2>1, SubSeqFull
  <1> HIDE DEF fs, n
  <1>4. Legal(fs) <=> \A i \in 1..(n + 1) : Follows(SubSeq(fs, 1, i - 1), fs[i])
    BY <1>1 DEF Legal
  <1>5. Legal(es) <=> \A i \in 1..n : Follows(SubSeq(es, 1, i - 1), es[i])
    BY <1>1 DEF Legal
  <1>6. \A i \in 1..(n + 1) : i \in 1..n \/ i = n + 1
    BY <1>1
  <1>7. n + 1 \in 1..(n + 1) /\ \A i \in 1..n : i \in 1..(n + 1)
    BY <1>1
  <1>8. \A i \in 1..n : Follows(SubSeq(fs, 1, i - 1), fs[i]) <=> Follows(SubSeq(es, 1, i - 1), es[i])
    BY <1>1, <1>2, <1>7
  <1>9. Follows(SubSeq(fs, 1, (n + 1) - 1), fs[n + 1]) <=> Follows(es, e)
    BY <1>1, <1>3
  <1>10. Legal(fs) <=> Legal(es) /\ Follows(es, e)
    BY <1>4, <1>5, <1>6, <1>7, <1>8, <1>9
  <1> QED
    BY <1>10 DEF fs

\* What is left of a legal log after a cut is legal.
LEMMA LegalPrefix ==
    ASSUME NEW es \in Seq(Event), NEW fs \in Seq(Event), Legal(es \o fs)
    PROVE  Legal(es)
  <1>1. /\ Len(es) \in Nat /\ Len(fs) \in Nat /\ DOMAIN es = 1..Len(es)
        /\ DOMAIN (es \o fs) = 1..(Len(es) + Len(fs))
        /\ \A i \in 1..Len(es) : (es \o fs)[i] = es[i]
    BY LenProperties, ConcatProperties
  <1>2. ASSUME NEW i \in 1..Len(es)
        PROVE  Follows(SubSeq(es, 1, i - 1), es[i])
    <2>1. i \in DOMAIN (es \o fs) /\ i - 1 \in 0..Len(es)
      BY <1>1
    <2>2. SubSeq(es \o fs, 1, i - 1) = SubSeq(es, 1, i - 1)
      BY <2>1, PrefixOfConcat
    <2>3. Follows(SubSeq(es \o fs, 1, i - 1), (es \o fs)[i])
      BY <2>1 DEF Legal
    <2> QED
      BY <1>1, <2>2, <2>3
  <1> QED
    BY <1>1, <1>2 DEF Legal

\* Every legal log is good.
LEMMA LegalIsGood ==
    ASSUME NEW es \in Seq(Event), Legal(es)
    PROVE  Good(es)
  <1> DEFINE Upto(n) == SubSeq(es, 1, n)
             T == {n \in 0..Len(es) : ~Good(Upto(n))}
  <1>1. Len(es) \in Nat /\ DOMAIN es = 1..Len(es) /\ Upto(Len(es)) = es
    BY LenProperties, SubSeqFull
  <1>2. T = {}
    <2>1. SUFFICES ASSUME T # {} PROVE FALSE
      OBVIOUS
    <2>2. PICK n \in T : \A k \in T : n <= k
      <3>1. T \subseteq Nat
        BY <1>1
      <3> HIDE DEF T
      <3> QED
        BY <2>1, <3>1, LeastOf
    <2>3. n # 0
      <3>1. Upto(0) = <<>>
        BY SubSeqEmpty
      <3> QED
        BY <2>2, <3>1, EmptyGood
    <2>4. n \in 1..Len(es) /\ n - 1 \in 0..Len(es) /\ ~(n <= n - 1)
      BY <1>1, <2>2, <2>3
    <2>5. Good(Upto(n - 1))
      BY <2>2, <2>4
    <2>6. Upto(n - 1) \in Seq(Event) /\ Upto(n) = Append(Upto(n - 1), es[n])
      BY <2>4, PrefixGrows
    <2>7. Follows(Upto(n - 1), es[n])
      BY <1>1, <2>4 DEF Legal
    <2> HIDE DEF Upto
    <2>8. Good(Upto(n))
      BY <2>5, <2>6, <2>7, GoodStep
    <2> QED
      BY <2>2, <2>8
  <1>3. Len(es) \in 0..Len(es)
    BY <1>1
  <1> QED
    BY <1>1, <1>2, <1>3

-----------------------------------------------------------------------------
(* The closers of repair.ts continue a legal log, one after the other. *)

\* The conservative answers are tool results of the open requests, in their order.
LEMMA ResultsAre ==
    ASSUME NEW seen \in OpenState
    PROVE  /\ Results(seen) \in Seq(Event) /\ Len(Results(seen)) = Len(seen.pending)
           /\ \A i \in 1..Len(seen.pending) :
                Results(seen)[i] = ToolResult(seen.pending[i].turn, seen.pending[i].step, seen.pending[i].call,
                                       IF seen.pending[i].recorded THEN "outcome-unknown" ELSE "not-started")
  <1> DEFINE p == seen.pending
             A(i) == ToolResult(p[i].turn, p[i].step, p[i].call,
                                IF p[i].recorded THEN "outcome-unknown" ELSE "not-started")
             r == [i \in 1..Len(p) |-> A(i)]
  <1>1. p \in Seq(Entry) /\ DOMAIN p = 1..Len(p) /\ Len(p) \in Nat /\ \A i \in 1..Len(p) : p[i] \in Entry
    BY LenProperties DEF OpenState
  <1>2. \A i \in 1..Len(p) : p[i].turn \in Nat /\ p[i].step \in Nat /\ p[i].call \in Calls
    BY <1>1 DEF Entry
  <1>3. ASSUME NEW i \in 1..Len(p) PROVE A(i) \in Event
    <2> DEFINE t == p[i].turn
               s == p[i].step
               c == p[i].call
               k == IF p[i].recorded THEN "outcome-unknown" ELSE "not-started"
    <2>1. t \in Nat /\ s \in Nat /\ c \in Calls
      BY <1>2
    <2>2. k \in Codes
      BY DEF Codes
    <2>3. A(i) = ToolResult(t, s, c, k)
      OBVIOUS
    <2> HIDE DEF t, s, c, k, A
    <2>4. ToolResult(t, s, c, k) \in Event
      BY ONLY <2>1, <2>2, ToolEvents
    <2> QED
      BY <2>3, <2>4
  <1>4. r \in [1..Len(p) -> Event]
    <2> HIDE DEF A
    <2> QED
      BY <1>3
  <1>5. r \in Seq(Event) /\ Len(r) = Len(p)
    <2> HIDE DEF A
    <2> QED
      BY <1>1, <1>4
  <1>6. Results(seen) = r
    BY <1>1 DEF Results
  <1>7. \A i \in 1..Len(p) : r[i] = A(i)
    OBVIOUS
  <1> HIDE DEF r
  <1> QED
    BY <1>5, <1>6, <1>7

\* Dropping the first open request drops its answer.
LEMMA ResultsTail ==
    ASSUME NEW seen \in OpenState, NEW next \in OpenState, seen.pending # <<>>,
           next.pending = Tail(seen.pending)
    PROVE  Results(seen) # <<>> /\ Results(next) = Tail(Results(seen))
  <1> DEFINE p == seen.pending
             q == next.pending
             rs == Results(seen)
             qs == Results(next)
  <1>1. /\ rs \in Seq(Event) /\ Len(rs) = Len(p)
        /\ \A i \in 1..Len(p) :
              rs[i] = ToolResult(p[i].turn, p[i].step, p[i].call,
                                 IF p[i].recorded THEN "outcome-unknown" ELSE "not-started")
    BY ResultsAre
  <1>2. /\ qs \in Seq(Event) /\ Len(qs) = Len(q)
        /\ \A i \in 1..Len(q) :
              qs[i] = ToolResult(q[i].turn, q[i].step, q[i].call,
                                 IF q[i].recorded THEN "outcome-unknown" ELSE "not-started")
    BY ResultsAre
  <1>3. p \in Seq(Entry) /\ Len(p) \in Nat \ {0}
    BY EmptySeq DEF OpenState
  <1>4. Len(q) = Len(p) - 1 /\ \A i \in 1 .. Len(p) - 1 : q[i] = p[i + 1]
    BY <1>3, HeadTailProperties
  <1> HIDE DEF p, q, rs, qs
  <1>5. rs # <<>>
    BY <1>1, <1>3, EmptySeq
  <1>6. /\ Tail(rs) \in Seq(Event) /\ Len(Tail(rs)) = Len(p) - 1
        /\ \A i \in 1 .. Len(p) - 1 : Tail(rs)[i] = rs[i + 1]
    BY <1>1, <1>5, HeadTailProperties
  <1>7. \A i \in 1..Len(qs) : qs[i] = Tail(rs)[i]
    <2> TAKE i \in 1..Len(qs)
    <2>1. i \in 1..Len(q) /\ i \in 1 .. Len(p) - 1 /\ i + 1 \in 1..Len(p) /\ q[i] = p[i + 1]
      BY <1>2, <1>3, <1>4
    <2> QED
      BY <1>1, <1>2, <1>6, <2>1
  <1>8. Len(qs) = Len(Tail(rs))
    BY <1>2, <1>4, <1>6
  <1>9. qs = Tail(rs)
    BY <1>2, <1>6, <1>7, <1>8, SeqEqual
  <1> QED
    BY <1>5, <1>9 DEF rs, qs

\* The head and the tail of a concatenation.
LEMMA ConcatHeadTail ==
    ASSUME NEW S, NEW s \in Seq(S), NEW t \in Seq(S), s # <<>>
    PROVE  s \o t # <<>> /\ Head(s \o t) = Head(s) /\ Tail(s \o t) = Tail(s) \o t
  <1>1. Len(s) \in Nat \ {0} /\ Len(t) \in Nat
    BY EmptySeq, LenProperties
  <1>2. /\ s \o t \in Seq(S) /\ Len(s \o t) = Len(s) + Len(t)
        /\ \A i \in 1 .. Len(s) + Len(t) : (s \o t)[i] = IF i <= Len(s) THEN s[i] ELSE t[i - Len(s)]
    BY ConcatProperties
  <1>3. s \o t # <<>>
    BY <1>1, <1>2, EmptySeq
  <1>4. /\ Tail(s) \in Seq(S) /\ Len(Tail(s)) = Len(s) - 1
        /\ \A i \in 1 .. Len(s) - 1 : Tail(s)[i] = s[i + 1]
    BY <1>1, HeadTailProperties
  <1>5. /\ Tail(s \o t) \in Seq(S) /\ Len(Tail(s \o t)) = Len(s) + Len(t) - 1
        /\ \A i \in 1 .. Len(s) + Len(t) - 1 : Tail(s \o t)[i] = (s \o t)[i + 1]
    BY <1>2, <1>3, HeadTailProperties
  <1>6. /\ Tail(s) \o t \in Seq(S) /\ Len(Tail(s) \o t) = Len(s) - 1 + Len(t)
        /\ \A i \in 1 .. Len(s) - 1 + Len(t) :
             (Tail(s) \o t)[i] = IF i <= Len(s) - 1 THEN Tail(s)[i] ELSE t[i - (Len(s) - 1)]
    BY <1>4, ConcatProperties
  <1>7. Head(s \o t) = Head(s)
    BY <1>1, <1>2
  <1>8. \A i \in 1 .. Len(Tail(s \o t)) : Tail(s \o t)[i] = (Tail(s) \o t)[i]
    <2> TAKE i \in 1 .. Len(Tail(s \o t))
    <2>1. i \in 1 .. Len(s) + Len(t) - 1 /\ i \in 1 .. Len(s) - 1 + Len(t) /\ i + 1 \in 1 .. Len(s) + Len(t)
      BY <1>1, <1>5
    <2>2. CASE i <= Len(s) - 1
      <3>1. i + 1 <= Len(s) /\ i \in 1 .. Len(s) - 1
        BY <1>1, <2>1, <2>2
      <3> QED
        BY <1>2, <1>4, <1>5, <1>6, <2>1, <2>2, <3>1
    <2>3. CASE ~(i <= Len(s) - 1)
      <3>1. ~(i + 1 <= Len(s)) /\ (i + 1) - Len(s) = i - (Len(s) - 1)
        BY <1>1, <2>1, <2>3
      <3> QED
        BY <1>2, <1>5, <1>6, <2>1, <2>3, <3>1
    <2> QED
      BY <2>2, <2>3
  <1>9. Len(Tail(s \o t)) = Len(Tail(s) \o t)
    BY <1>1, <1>5, <1>6
  <1>10. Tail(s \o t) = Tail(s) \o t
    BY <1>5, <1>6, <1>8, <1>9, SeqEqual
  <1> QED
    BY <1>3, <1>7, <1>10

\* Closers, piece by piece.
LEMMA ClosersAre ==
    ASSUME NEW es, NEW cause \in TurnReasons, Seen(es) \in OpenState
    PROVE  LET seen == Seen(es)
               ends == IF seen.step = 0 THEN <<TurnEnd(seen.turn, cause)>>
                       ELSE <<StepEnd(seen.turn, seen.step), TurnEnd(seen.turn, cause)>>
           IN  /\ ends \in Seq(Event)
               /\ Closers(es, cause) = IF seen.turn = 0 THEN <<>> ELSE Results(seen) \o ends
  <1> DEFINE seen == Seen(es)
             last == IF seen.step = 0 THEN <<>> ELSE <<StepEnd(seen.turn, seen.step)>>
             end  == <<TurnEnd(seen.turn, cause)>>
             ends == IF seen.step = 0 THEN <<TurnEnd(seen.turn, cause)>>
                     ELSE <<StepEnd(seen.turn, seen.step), TurnEnd(seen.turn, cause)>>
  <1>1. TurnEnd(seen.turn, cause) \in Event /\ StepEnd(seen.turn, seen.step) \in Event
    BY EventTypes DEF OpenState
  <1>2. last \in Seq(Event) /\ end \in Seq(Event) /\ Results(seen) \in Seq(Event)
    BY <1>1, EmptySeq, ResultsAre
  <1>3. last \o end = ends /\ ends \in Seq(Event)
    <2>1. CASE seen.step = 0
      BY <1>1, <1>2, <2>1, ConcatEmptySeq
    <2>2. CASE seen.step # 0
      <3> DEFINE a == StepEnd(seen.turn, seen.step)
                 b == TurnEnd(seen.turn, cause)
      <3>1. a \in Event /\ b \in Event /\ last = <<a>> /\ end = <<b>> /\ ends = <<a, b>>
        BY <1>1, <2>2
      <3> HIDE DEF a, b, last, end, ends
      <3>2. <<a>> \in Seq(Event) /\ <<b>> \in Seq(Event) /\ <<a, b>> \in Seq(Event)
        BY <3>1
      <3>3. Append(<<a>>, b) = <<a>> \o <<b>>
        BY <3>1, <3>2, AppendIsConcat
      <3>4. Append(<<a>>, b) = <<a, b>>
        <4> DEFINE x == <<a>>
                   y == <<a, b>>
        <4>1. x \in Seq(Event) /\ Len(x) = 1 /\ x[1] = a
          BY <3>2
        <4>2. y \in Seq(Event) /\ Len(y) = 2 /\ y[1] = a /\ y[2] = b
          BY <3>2
        <4> HIDE DEF x, y
        <4>3. /\ Append(x, b) \in Seq(Event) /\ Len(Append(x, b)) = 2
              /\ Append(x, b)[1] = a /\ Append(x, b)[2] = b
          <5>1. /\ Append(x, b) \in Seq(Event) /\ Len(Append(x, b)) = Len(x) + 1
                /\ \A i \in 1..Len(x) : Append(x, b)[i] = x[i]
                /\ Append(x, b)[Len(x) + 1] = b
            <6>1. b \in Event /\ x \in Seq(Event)
              BY <3>1, <4>1
            <6> QED
              BY ONLY <6>1, AppendProperties
          <5>2. Len(x) + 1 = 2 /\ 1 \in 1..Len(x)
            BY <4>1
          <5> QED
            BY <4>1, <5>1, <5>2
        <4>4. \A i \in 1..2 : Append(x, b)[i] = y[i]
          BY <4>2, <4>3
        <4>5. Append(x, b) = y
          BY <4>2, <4>3, <4>4, SeqEqual
        <4> QED
          BY <4>5 DEF x, y
      <3> QED
        BY <3>1, <3>2, <3>3, <3>4
    <2> QED
      BY <2>1, <2>2
  <1>4. Closers(es, cause) = IF seen.turn = 0 THEN <<>> ELSE (Results(seen) \o last) \o end
    BY DEF Closers
  <1> HIDE DEF last, end, ends
  <1>5. (Results(seen) \o last) \o end = Results(seen) \o (last \o end)
    BY <1>2, ConcatAssociative
  <1> QED
    BY <1>3, <1>4, <1>5 DEF ends

\* The first closer of a good log follows from it, and leaves the other closers to do.
LEMMA CloserFollows ==
    ASSUME NEW es \in Seq(Event), Good(es), NEW cause \in TurnReasons, Seen(es).turn # 0
    PROVE  LET c == Closers(es, cause)
           IN  /\ c # <<>> /\ Follows(es, Head(c)) /\ Head(c).kind # "turn/start"
               /\ Closers(Append(es, Head(c)), cause) = Tail(c)
  <1> DEFINE seen == Seen(es)
             p == seen.pending
             c == Closers(es, cause)
             e == Head(c)
             fs == Append(es, e)
             next == Seen(fs)
  <1>1. /\ seen \in OpenState /\ (seen.step = 0 => p = <<>>)
        /\ seen.turn \in Nat /\ seen.step \in Nat /\ p \in Seq(Entry)
    BY DEF Good, OpenGood, OpenState
  <1>2. c = Results(seen) \o IF seen.step = 0 THEN <<TurnEnd(seen.turn, cause)>>
                             ELSE <<StepEnd(seen.turn, seen.step), TurnEnd(seen.turn, cause)>>
    BY <1>1, ClosersAre
  <1>3. TurnEnd(seen.turn, cause) \in Event /\ StepEnd(seen.turn, seen.step) \in Event
    BY <1>1, EventTypes
  <1>4. Results(seen) \in Seq(Event) /\ Len(Results(seen)) = Len(p)
    BY <1>1, ResultsAre
  <1> HIDE DEF seen, c
  <1>5. CASE p # <<>>
    <2> DEFINE ends == <<StepEnd(seen.turn, seen.step), TurnEnd(seen.turn, cause)>>
    <2>1. seen.step # 0 /\ c = Results(seen) \o ends /\ ends \in Seq(Event)
      BY <1>1, <1>2, <1>3, <1>5
    <2>2. Len(p) \in Nat \ {0} /\ Head(p) = p[1] /\ 1 \in 1..Len(p) /\ p[1] \in Entry
      BY <1>1, <1>5, EmptySeq, LenProperties
    <2>3. Results(seen) # <<>>
      BY <1>4, <2>2, EmptySeq
    <2>4. c # <<>> /\ Head(c) = Head(Results(seen)) /\ Tail(c) = Tail(Results(seen)) \o ends
      <3> HIDE DEF ends
      <3> QED
        BY <1>4, <2>1, <2>3, ConcatHeadTail
    <2>5. e = ToolResult(p[1].turn, p[1].step, p[1].call,
                         IF p[1].recorded THEN "outcome-unknown" ELSE "not-started")
      <3>1. Head(Results(seen)) = Results(seen)[1]
        BY <1>4, <2>2, <2>3
      <3> QED
        BY <1>1, <2>2, <2>4, <3>1, ResultsAre
    <2>6. p[1].turn = seen.turn /\ p[1].step = seen.step
      BY <2>2 DEF Good, PendingGood, seen
    <2>7. /\ e \in Event /\ e.kind = "tool/result" /\ e.turn = seen.turn /\ e.step = seen.step
          /\ e.call = p[1].call
          /\ e.code = IF p[1].recorded THEN "outcome-unknown" ELSE "not-started"
      <3>1. p[1].turn \in Nat /\ p[1].step \in Nat /\ p[1].call \in Calls
        BY <2>2 DEF Entry
      <3> HIDE DEF e
      <3> QED
        BY <2>5, <2>6, <3>1, EventTypes DEF Codes
    <2> HIDE DEF e
    <2>8. Follows(es, e)
      BY <1>5, <2>1, <2>2, <2>7 DEF Follows, seen
    <2>9. next = [turn |-> seen.turn, step |-> seen.step, pending |-> Tail(p)] /\ next \in OpenState
      BY <2>7, <2>8, AfterIs DEF seen
    <2>10. next.turn = seen.turn /\ next.step = seen.step /\ next.pending = Tail(p)
      BY <2>9
    <2> HIDE DEF next
    <2>11. Results(next) = Tail(Results(seen))
      BY <1>1, <1>5, <2>9, <2>10, ResultsTail
    <2>12. Closers(fs, cause) = Results(next) \o ends
      <3>1. Closers(fs, cause) = IF next.turn = 0 THEN <<>> ELSE Results(next) \o
                IF next.step = 0 THEN <<TurnEnd(next.turn, cause)>>
                                 ELSE <<StepEnd(next.turn, next.step), TurnEnd(next.turn, cause)>>
        BY <2>9, ClosersAre DEF next
      <3>2. next.turn # 0 /\ next.step # 0
        BY <2>1, <2>10 DEF seen
      <3> QED
        BY <2>10, <3>1, <3>2
    <2> QED
      BY <2>4, <2>7, <2>8, <2>11, <2>12 DEF e, c
  <1>6. CASE p = <<>> /\ seen.step # 0
    <2>1. Results(seen) = <<>>
      BY <1>4, <1>6, EmptySeq
    <2>2. c = <<StepEnd(seen.turn, seen.step), TurnEnd(seen.turn, cause)>>
      <3>1. <<StepEnd(seen.turn, seen.step), TurnEnd(seen.turn, cause)>> \in Seq(Event)
        BY <1>3
      <3> QED
        BY <1>2, <1>6, <2>1, <3>1, ConcatEmptySeq
    <2>3. c # <<>> /\ e = StepEnd(seen.turn, seen.step) /\ Tail(c) = <<TurnEnd(seen.turn, cause)>>
      BY <2>2
    <2>4. e \in Event /\ e.kind = "step/end" /\ e.turn = seen.turn /\ e.step = seen.step
      BY <1>1, <2>3, EventTypes
    <2> HIDE DEF e
    <2>5. Follows(es, e)
      BY <1>6, <2>4 DEF Follows, seen
    <2>6. next = [turn |-> seen.turn, step |-> 0, pending |-> <<>>] /\ next \in OpenState
      BY <2>4, <2>5, AfterIs DEF seen
    <2>7. next.turn = seen.turn /\ next.step = 0 /\ next.pending = <<>>
      BY <2>6
    <2> HIDE DEF next
    <2>8. Results(next) = <<>>
      BY <2>6, <2>7, ResultsAre, EmptySeq
    <2>9. Closers(fs, cause) = <<>> \o <<TurnEnd(seen.turn, cause)>>
      <3>1. Closers(fs, cause) = IF next.turn = 0 THEN <<>> ELSE Results(next) \o
                IF next.step = 0 THEN <<TurnEnd(next.turn, cause)>>
                                 ELSE <<StepEnd(next.turn, next.step), TurnEnd(next.turn, cause)>>
        BY <2>6, ClosersAre DEF next
      <3>2. next.turn # 0
        BY <2>7 DEF seen
      <3> QED
        BY <2>7, <2>8, <3>1, <3>2
    <2>10. <<>> \o <<TurnEnd(seen.turn, cause)>> = <<TurnEnd(seen.turn, cause)>>
      <3>1. <<TurnEnd(seen.turn, cause)>> \in Seq(Event)
        BY <1>3
      <3> QED
        BY <3>1, ConcatEmptySeq
    <2> QED
      BY <2>3, <2>4, <2>5, <2>9, <2>10 DEF e, c
  <1>7. CASE seen.step = 0
    <2>1. Results(seen) = <<>> /\ p = <<>>
      BY <1>1, <1>4, <1>7, EmptySeq
    <2>2. c = <<TurnEnd(seen.turn, cause)>>
      <3>1. <<TurnEnd(seen.turn, cause)>> \in Seq(Event)
        BY <1>3
      <3> QED
        BY <1>2, <1>7, <2>1, <3>1, ConcatEmptySeq
    <2>3. c # <<>> /\ e = TurnEnd(seen.turn, cause) /\ Tail(c) = <<>>
      BY <2>2
    <2>4. e \in Event /\ e.kind = "turn/end" /\ e.turn = seen.turn
      BY <1>1, <2>3, EventTypes
    <2> HIDE DEF e
    <2>5. Follows(es, e)
      BY <1>7, <2>4 DEF Follows, seen
    <2>6. next = Nothing
      BY <2>4, <2>5, AfterIs
    <2>7. Closers(fs, cause) = <<>>
      BY <2>6 DEF Closers, Nothing
    <2> QED
      BY <2>3, <2>4, <2>5, <2>7 DEF e, c
  <1> QED
    BY <1>5, <1>6, <1>7

\* Any number of closers may have been stored: the log is legal, and the others
\* are what is left to do.
LEMMA ClosersRun ==
    ASSUME NEW es \in Seq(Event), Legal(es), NEW cause \in TurnReasons
    PROVE  LET c == Closers(es, cause)
           IN  /\ c \in Seq(Event)
               /\ \A k \in 0..Len(c) :
                    /\ es \o SubSeq(c, 1, k) \in Seq(Event)
                    /\ Legal(es \o SubSeq(c, 1, k))
                    /\ LastTurn(es \o SubSeq(c, 1, k)) = LastTurn(es)
                    /\ Closers(es \o SubSeq(c, 1, k), cause) = SubSeq(c, k + 1, Len(c))
  <1> DEFINE c == Closers(es, cause)
             So(k) == es \o SubSeq(c, 1, k)
             Fine(k) == /\ So(k) \in Seq(Event) /\ Legal(So(k)) /\ LastTurn(So(k)) = LastTurn(es)
                        /\ Closers(So(k), cause) = SubSeq(c, k + 1, Len(c))
             T == {k \in 0..Len(c) : ~Fine(k)}
  <1>1. Good(es)
    BY LegalIsGood
  <1>2. c \in Seq(Event)
    <2>1. Seen(es) \in OpenState
      BY <1>1 DEF Good, OpenGood
    <2> DEFINE ends == IF Seen(es).step = 0 THEN <<TurnEnd(Seen(es).turn, cause)>>
                       ELSE <<StepEnd(Seen(es).turn, Seen(es).step), TurnEnd(Seen(es).turn, cause)>>
    <2>2. ends \in Seq(Event) /\ c = IF Seen(es).turn = 0 THEN <<>> ELSE Results(Seen(es)) \o ends
      BY <2>1, ClosersAre
    <2>3. Results(Seen(es)) \in Seq(Event)
      BY <2>1, ResultsAre
    <2> HIDE DEF ends, c
    <2> QED
      BY <2>2, <2>3, ConcatProperties, EmptySeq
  <1>3. Len(c) \in Nat
    BY <1>2, LenProperties
  <1> HIDE DEF c
  <1>4. T = {}
    <2>1. SUFFICES ASSUME T # {} PROVE FALSE
      OBVIOUS
    <2>2. PICK k \in T : \A j \in T : k <= j
      <3>1. T \subseteq Nat
        BY <1>3
      <3> HIDE DEF T
      <3> QED
        BY <2>1, <3>1, LeastOf
    <2>3. k # 0
      <3>1. SubSeq(c, 1, 0) = <<>> /\ SubSeq(c, 0 + 1, Len(c)) = c
        BY <1>2, SubSeqEmpty, SubSeqFull
      <3>2. So(0) = es
        BY <3>1, ConcatEmptySeq
      <3>3. Fine(0)
        BY <3>1, <3>2 DEF c
      <3> HIDE DEF Fine
      <3> QED
        BY <2>2, <3>3
    <2>4. k \in 1..Len(c) /\ k - 1 \in 0..Len(c) /\ ~(k <= k - 1)
      BY <1>3, <2>2, <2>3
    <2> DEFINE fs == So(k - 1)
    <2>5. Fine(k - 1)
      <3> HIDE DEF Fine
      <3> QED
        BY <2>2, <2>4
    <2>6. /\ fs \in Seq(Event) /\ Legal(fs) /\ LastTurn(fs) = LastTurn(es)
          /\ Closers(fs, cause) = SubSeq(c, k, Len(c))
      <3>1. (k - 1) + 1 = k
        BY <2>4
      <3> QED
        BY <2>5, <3>1
    <2>7. /\ SubSeq(c, k, Len(c)) # <<>> /\ Head(SubSeq(c, k, Len(c))) = c[k]
          /\ Tail(SubSeq(c, k, Len(c))) = SubSeq(c, k + 1, Len(c))
      BY <1>2, <2>4, SuffixShrinks
    <2>8. SubSeq(c, 1, k - 1) \in Seq(Event) /\ c[k] \in Event /\ SubSeq(c, 1, k) = Append(SubSeq(c, 1, k - 1), c[k])
      BY <1>2, <2>4, PrefixGrows
    <2>9. So(k) = Append(fs, c[k])
      <3>1. /\ SubSeq(c, 1, k) = SubSeq(c, 1, k - 1) \o <<c[k]>> /\ <<c[k]>> \in Seq(Event)
            /\ Append(fs, c[k]) = fs \o <<c[k]>>
        <4> DEFINE front == SubSeq(c, 1, k - 1)
                   x     == c[k]
        <4>1. front \in Seq(Event) /\ x \in Event /\ fs \in Seq(Event) /\ SubSeq(c, 1, k) = Append(front, x)
          BY <2>6, <2>8
        <4> HIDE DEF front, x, fs
        <4>2. Append(front, x) = front \o <<x>> /\ Append(fs, x) = fs \o <<x>> /\ <<x>> \in Seq(Event)
          BY ONLY <4>1, AppendIsConcat
        <4> QED
          BY <4>1, <4>2 DEF front, x
      <3>2. (es \o SubSeq(c, 1, k - 1)) \o <<c[k]>> = es \o (SubSeq(c, 1, k - 1) \o <<c[k]>>)
        <4> DEFINE front == SubSeq(c, 1, k - 1)
                   one   == <<c[k]>>
        <4>1. es \in Seq(Event) /\ front \in Seq(Event) /\ one \in Seq(Event)
          BY <2>8, <3>1
        <4> HIDE DEF front, one
        <4>2. (es \o front) \o one = es \o (front \o one)
          BY ONLY <4>1, ConcatAssociative
        <4> QED
          BY <4>2 DEF front, one
      <3> QED
        BY <3>1, <3>2
    <2> HIDE DEF fs
    <2>10. Seen(fs).turn # 0
      <3>1. Seen(fs).turn = 0 => Closers(fs, cause) = <<>>
        BY DEF Closers
      <3> QED
        BY <2>6, <2>7, <3>1
    <2>11. Good(fs)
      BY <2>6, LegalIsGood
    <2>12. Follows(fs, c[k]) /\ c[k].kind # "turn/start" /\ Closers(Append(fs, c[k]), cause) = SubSeq(c, k + 1, Len(c))
      BY <2>6, <2>7, <2>10, <2>11, CloserFollows
    <2>13. Legal(Append(fs, c[k])) /\ Append(fs, c[k]) \in Seq(Event)
      BY <2>6, <2>8, <2>12, LegalAppend, AppendProperties
    <2>14. LastTurn(Append(fs, c[k])) = LastTurn(fs)
      BY <2>6, <2>8, <2>12, LongerIs
    <2>15. Fine(k)
      <3> HIDE DEF So
      <3> QED
        BY <2>6, <2>9, <2>12, <2>13, <2>14
    <2> HIDE DEF Fine
    <2> QED
      BY <2>2, <2>15
  <1>5. \A k \in 0..Len(c) : Fine(k)
    <2> HIDE DEF Fine
    <2> QED
      BY <1>4
  <1> QED
    BY <1>2, <1>5 DEF c

\* A log with all its closers leaves nothing open.
LEMMA ClosersClose ==
    ASSUME NEW es \in Seq(Event), Legal(es), NEW cause \in TurnReasons
    PROVE  LET fs == es \o Closers(es, cause)
           IN  /\ Closers(es, cause) \in Seq(Event) /\ fs \in Seq(Event) /\ Legal(fs)
               /\ LastTurn(fs) = LastTurn(es) /\ Seen(fs) = Nothing
  <1> DEFINE c == Closers(es, cause)
             fs == es \o c
  <1>1. c \in Seq(Event)
    BY ClosersRun
  <1>2. Len(c) \in 0..Len(c) /\ SubSeq(c, 1, Len(c)) = c /\ SubSeq(c, Len(c) + 1, Len(c)) = <<>>
    <2> HIDE DEF c
    <2>1. Len(c) \in Nat
      BY <1>1, LenProperties
    <2> QED
      BY <1>1, <2>1, SubSeqFull, SubSeqEmpty
  <1>3. fs \in Seq(Event) /\ Legal(fs) /\ LastTurn(fs) = LastTurn(es) /\ Closers(fs, cause) = <<>>
    <2>1. \A k \in 0..Len(c) :
            /\ es \o SubSeq(c, 1, k) \in Seq(Event) /\ Legal(es \o SubSeq(c, 1, k))
            /\ LastTurn(es \o SubSeq(c, 1, k)) = LastTurn(es)
            /\ Closers(es \o SubSeq(c, 1, k), cause) = SubSeq(c, k + 1, Len(c))
      BY ClosersRun
    <2> DEFINE n == Len(c)
    <2>2. n \in 0..Len(c) /\ es \o SubSeq(c, 1, n) = fs /\ SubSeq(c, n + 1, Len(c)) = <<>>
      BY <1>2
    <2> HIDE DEF c, n, fs
    <2>3. /\ es \o SubSeq(c, 1, n) \in Seq(Event) /\ Legal(es \o SubSeq(c, 1, n))
          /\ LastTurn(es \o SubSeq(c, 1, n)) = LastTurn(es)
          /\ Closers(es \o SubSeq(c, 1, n), cause) = SubSeq(c, n + 1, Len(c))
      BY <2>1, <2>2
    <2> QED
      BY <2>2, <2>3
  <1> HIDE DEF fs
  <1>4. Good(fs)
    BY <1>3, LegalIsGood
  <1>5. Seen(fs).turn = 0
    BY <1>3, <1>4, CloserFollows
  <1>6. Seen(fs) = Nothing
    <2>1. Seen(fs) \in OpenState /\ Seen(fs).step = 0 /\ Seen(fs).pending = <<>>
      BY <1>4, <1>5 DEF Good, OpenGood
    <2> QED
      BY <1>5, <2>1 DEF OpenState, Nothing
  <1> QED
    BY <1>1, <1>3, <1>6 DEF fs

\* What a prefix of the closers leaves to do, as the property states it.
LEMMA LegalResumes ==
    ASSUME NEW es \in Seq(Event), Legal(es), NEW cause \in TurnReasons
    PROVE  LET closers == Closers(es, cause)
           IN  \A k \in 0..Len(closers) :
                  Closers(es \o SubSeq(closers, 1, k), cause) = SubSeq(closers, k + 1, Len(closers))
  BY ClosersRun

\* A cut log with its end-of-seed mark and its closers is closed.
LEMMA SeedIsClosed ==
    ASSUME NEW es \in Seq(Event), Legal(es), NEW cause \in TurnReasons
    PROVE  LET prefix == Append(es, EndSeed)
               child  == prefix \o Closers(prefix, cause)
           IN  /\ child \in Seq(Event) /\ Legal(child) /\ Seen(child) = Nothing
               /\ SubSeq(child, 1, Len(es)) = es
  <1> DEFINE prefix == Append(es, EndSeed)
             c == Closers(prefix, cause)
             child == prefix \o c
  <1>1. EndSeed \in Event /\ EndSeed.kind = "session/end-seed"
    BY EventTypes
  <1>2. Follows(es, EndSeed)
    BY <1>1 DEF Follows
  <1>3. prefix \in Seq(Event) /\ Legal(prefix) /\ Len(prefix) = Len(es) + 1 /\ SubSeq(prefix, 1, Len(es)) = es
    <2>1. Len(es) \in 0..Len(es) /\ Len(es) \in Nat
      BY LenProperties
    <2>2. SubSeq(prefix, 1, Len(es)) = SubSeq(es, 1, Len(es))
      BY <1>1, <2>1, PrefixOfAppend
    <2> QED
      BY <1>1, <1>2, <2>1, <2>2, LegalAppend, AppendProperties, SubSeqFull
  <1> HIDE DEF prefix
  <1>4. c \in Seq(Event) /\ child \in Seq(Event) /\ Legal(child) /\ Seen(child) = Nothing
    BY <1>3, ClosersClose
  <1>5. SubSeq(child, 1, Len(es)) = SubSeq(prefix, 1, Len(es))
    <2>1. Len(es) \in 0..Len(prefix)
      BY <1>3, LenProperties
    <2> HIDE DEF c
    <2> QED
      BY <1>3, <1>4, <2>1, PrefixOfConcat
  <1> QED
    BY <1>3, <1>4, <1>5 DEF prefix

\* In a legal log that leaves nothing open every step has ended.
LEMMA StepsHaveEnded ==
    ASSUME NEW es \in Seq(Event), Legal(es), Seen(es).step = 0
    PROVE  \A e \in ToSet(es) : e.kind = "step/start" => <<e.turn, e.step>> \in ClosedSteps(es)
  <1> SUFFICES ASSUME NEW e \in ToSet(es), e.kind = "step/start"
               PROVE  <<e.turn, e.step>> \in ClosedSteps(es)
    OBVIOUS
  <1>1. Good(es)
    BY LegalIsGood
  <1>2. e.step # 0
    BY <1>1 DEF Good, NumbersGood, InnerKinds
  <1>3. StepEnd(e.turn, e.step) \in ToSet(es)
    BY <1>1, <1>2 DEF Good, StepsGood
  <1>4. /\ StepEnd(e.turn, e.step).kind = "step/end"
        /\ StepEnd(e.turn, e.step).turn = e.turn /\ StepEnd(e.turn, e.step).step = e.step
    BY DEF StepEnd
  <1> QED
    BY <1>3, <1>4 DEF ClosedSteps

-----------------------------------------------------------------------------
(* Calls skipped after an abort: each is recorded and answered, in order. *)

\* One of them.
LEMMA SkipOne ==
    ASSUME NEW es \in Seq(Event), Legal(es), Seen(es).pending # <<>>, ~Head(Seen(es).pending).recorded
    PROVE  LET seen == Seen(es)
               c    == Head(seen.pending).call
               one  == ToolCall(seen.turn, seen.step, c)
               two  == ToolResult(seen.turn, seen.step, c, "aborted-before-dispatch")
               fs   == Append(Append(es, one), two)
               next == Seen(fs)
           IN  /\ one \in Event /\ two \in Event /\ fs \in Seq(Event) /\ Legal(fs)
               /\ next.turn = seen.turn /\ next.step = seen.step
               /\ Len(next.pending) = Len(seen.pending) - 1
               /\ \A k \in 1 .. Len(seen.pending) - 1 :
                    /\ next.pending[k].call = seen.pending[k + 1].call
                    /\ next.pending[k].recorded <=> seen.pending[k + 1].recorded
  <1> DEFINE seen == Seen(es)
             p    == seen.pending
             c    == Head(p).call
             one  == ToolCall(seen.turn, seen.step, c)
             two  == ToolResult(seen.turn, seen.step, c, "aborted-before-dispatch")
             ms   == Append(es, one)
             mid  == Seen(ms)
             q    == mid.pending
             fs   == Append(ms, two)
             next == Seen(fs)
  <1>1. Good(es)
    BY LegalIsGood
  <1>2. /\ seen \in OpenState /\ p \in Seq(Entry) /\ (seen.step = 0 => p = <<>>)
        /\ seen.turn \in Nat /\ seen.step \in Nat
    BY <1>1 DEF Good, OpenGood, OpenState
  <1>3. /\ Len(p) \in Nat \ {0} /\ Head(p) = p[1] /\ 1 \in 1..Len(p) /\ p[1] \in Entry
        /\ \A i \in 1..Len(p) : p[i] \in Entry
    BY <1>2, EmptySeq, LenProperties
  <1>4. c \in Calls
    BY <1>3 DEF Entry
  <1>5. /\ one \in Event /\ one.kind = "tool/call" /\ one.turn = seen.turn /\ one.step = seen.step /\ one.call = c
        /\ two \in Event /\ two.kind = "tool/result" /\ two.turn = seen.turn /\ two.step = seen.step
        /\ two.call = c /\ two.code = "aborted-before-dispatch"
    <2>1. "aborted-before-dispatch" \in Codes
      BY DEF Codes
    <2> HIDE DEF c, seen
    <2> QED
      BY <1>2, <1>4, <2>1, ToolEvents
  <1>6. \A i, k \in 1..Len(p) : p[k].call = p[i].call => k = i
    BY <1>1 DEF Good, PendingGood
  <1> HIDE DEF seen, one, two
  <1>7. Follows(es, one)
    <2>1. p[1] \in ToSet(p)
      BY <1>2, <1>3, ElementsOf
    <2>2. \E x \in ToSet(p) : x.call = c /\ ~x.recorded
      BY <1>3, <2>1 DEF seen
    <2>3. seen.step # 0
      BY <1>2 DEF seen
    <2> QED
      BY <1>5, <2>2, <2>3 DEF Follows, seen
  <1>8. ms \in Seq(Event) /\ Legal(ms) /\ Good(ms)
    BY <1>5, <1>7, LegalAppend, AppendProperties, LegalIsGood
  <1>9. /\ mid \in OpenState /\ mid.turn = seen.turn /\ mid.step = seen.step /\ Len(q) = Len(p)
        /\ \A i \in 1..Len(p) : q[i] = IF p[i].call = c THEN [p[i] EXCEPT !.recorded = TRUE] ELSE p[i]
    BY <1>1, <1>5, <1>7, AfterIs DEF seen
  <1>10. q \in Seq(Entry) /\ q # <<>> /\ Head(q) = q[1]
    <2>1. q \in Seq(Entry)
      BY <1>9 DEF OpenState
    <2>2. q # <<>>
      BY <1>3, <1>9, EmptySeq
    <2> QED
      BY <2>1, <2>2
  <1>11. q[1].call = c /\ q[1].recorded
    <2>1. q[1] = [p[1] EXCEPT !.recorded = TRUE]
      BY <1>3, <1>9
    <2> QED
      BY <1>3, <2>1 DEF Entry
  <1>12. \A i \in 1..Len(p) : i # 1 => q[i] = p[i]
    BY <1>3, <1>6, <1>9
  <1> HIDE DEF ms, mid
  <1>13. Follows(ms, two)
    <2>1. mid.step # 0
      BY <1>2, <1>9 DEF seen
    <2> QED
      BY <1>5, <1>9, <1>10, <1>11, <2>1 DEF Follows, mid
  <1>14. fs \in Seq(Event) /\ Legal(fs)
    BY <1>5, <1>8, <1>13, LegalAppend, AppendProperties
  <1>15. next = [turn |-> mid.turn, step |-> mid.step, pending |-> Tail(q)]
    BY <1>5, <1>8, <1>13, AfterIs DEF mid
  <1>16. next.turn = mid.turn /\ next.step = mid.step /\ next.pending = Tail(q)
    BY <1>15
  <1>17. Len(Tail(q)) = Len(p) - 1 /\ \A k \in 1 .. Len(p) - 1 : Tail(q)[k] = q[k + 1]
    BY <1>9, <1>10, HeadTailProperties
  <1>18. \A k \in 1 .. Len(p) - 1 : next.pending[k] = p[k + 1]
    <2> TAKE k \in 1 .. Len(p) - 1
    <2>1. k + 1 \in 1..Len(p) /\ k + 1 # 1
      BY <1>3
    <2> QED
      BY <1>12, <1>16, <1>17, <2>1
  <1> HIDE DEF next
  <1> QED
    BY <1>5, <1>9, <1>14, <1>16, <1>17, <1>18 DEF seen, one, two, fs, ms, next

\* The events of skipped calls.
LEMMA SkippedAre ==
    ASSUME NEW calls \in Seq(Calls), turn \in Nat, step \in Nat
    PROVE  LET sk == Skipped(calls)
           IN  /\ sk \in Seq(Event) /\ Len(sk) = 2 * Len(calls)
               /\ \A j \in 1..Len(calls) :
                    /\ sk[2 * j - 1] = ToolCall(turn, step, calls[j])
                    /\ sk[2 * j] = ToolResult(turn, step, calls[j], "aborted-before-dispatch")
               /\ \A e \in ToSet(sk) :
                    /\ e.kind \in {"tool/call", "tool/result"}
                    /\ e.kind = "tool/result" => /\ e.turn = turn /\ e.step = step
                                                 /\ e.call \in ToSet(calls)
                                                 /\ e.code = "aborted-before-dispatch"
  <1> DEFINE n == Len(calls)
             A(k) == IF k % 2 = 1 THEN ToolCall(turn, step, calls[(k + 1) \div 2])
                     ELSE ToolResult(turn, step, calls[(k + 1) \div 2], "aborted-before-dispatch")
             sk == [k \in 1..(2 * n) |-> A(k)]
  <1>1. n \in Nat /\ 2 * n \in Nat /\ DOMAIN calls = 1..n /\ \A j \in 1..n : calls[j] \in Calls
    BY LenProperties
  <1>2. \A k \in 1..(2 * n) : (k + 1) \div 2 \in 1..n
    BY <1>1
  <1>3. \A c \in Calls : /\ ToolCall(turn, step, c) \in Event
                         /\ ToolResult(turn, step, c, "aborted-before-dispatch") \in Event
    BY EventTypes DEF Codes
  <1>4. \A k \in 1..(2 * n) : A(k) \in Event
    <2> TAKE k \in 1..(2 * n)
    <2>1. calls[(k + 1) \div 2] \in Calls
      BY <1>1, <1>2
    <2> QED
      BY <1>3, <2>1
  <1>5. Skipped(calls) = sk
    BY DEF Skipped
  <1>6. \A k \in 1..(2 * n) : sk[k] = A(k)
    OBVIOUS
  <1>7. sk \in [1..(2 * n) -> Event]
    <2> HIDE DEF A
    <2> QED
      BY <1>4
  <1>8. sk \in Seq(Event) /\ Len(sk) = 2 * n /\ DOMAIN sk = 1..(2 * n)
    <2> HIDE DEF A, n
    <2> QED
      BY <1>1, <1>7
  <1>9. \A j \in 1..n : /\ 2 * j - 1 \in 1..(2 * n) /\ 2 * j \in 1..(2 * n)
                        /\ (2 * j - 1) % 2 = 1 /\ (2 * j) % 2 = 0
                        /\ ((2 * j - 1) + 1) \div 2 = j /\ (2 * j + 1) \div 2 = j
    BY <1>1
  <1>10. \A j \in 1..n : /\ sk[2 * j - 1] = ToolCall(turn, step, calls[j])
                         /\ sk[2 * j] = ToolResult(turn, step, calls[j], "aborted-before-dispatch")
    <2> TAKE j \in 1..n
    <2>1. sk[2 * j - 1] = A(2 * j - 1) /\ sk[2 * j] = A(2 * j)
      BY <1>6, <1>9
    <2> HIDE DEF sk
    <2> QED
      BY <1>9, <2>1
  <1>11. \A e \in ToSet(sk) :
            /\ e.kind \in {"tool/call", "tool/result"}
            /\ e.kind = "tool/result" => /\ e.turn = turn /\ e.step = step
                                         /\ e.call \in ToSet(calls)
                                         /\ e.code = "aborted-before-dispatch"
    <2> TAKE e \in ToSet(sk)
    <2>1. PICK k \in 1..(2 * n) : e = A(k)
      BY <1>6, <1>8 DEF ToSet
    <2>2. calls[(k + 1) \div 2] \in Calls /\ calls[(k + 1) \div 2] \in ToSet(calls)
      BY <1>1, <1>2 DEF ToSet
    <2> DEFINE c == calls[(k + 1) \div 2]
    <2>3. /\ ToolCall(turn, step, c).kind = "tool/call"
          /\ ToolResult(turn, step, c, "aborted-before-dispatch").kind = "tool/result"
          /\ ToolResult(turn, step, c, "aborted-before-dispatch").turn = turn
          /\ ToolResult(turn, step, c, "aborted-before-dispatch").step = step
          /\ ToolResult(turn, step, c, "aborted-before-dispatch").call = c
          /\ ToolResult(turn, step, c, "aborted-before-dispatch").code = "aborted-before-dispatch"
      <3> HIDE DEF c, A, n, sk
      <3> QED
        BY DEF ToolCall, ToolResult
    <2>4. e \in {ToolCall(turn, step, c), ToolResult(turn, step, c, "aborted-before-dispatch")}
      BY <2>1
    <2> HIDE DEF c
    <2> QED
      BY <2>2, <2>3, <2>4 DEF c
  <1> HIDE DEF sk
  <1> QED
    BY <1>5, <1>8, <1>10, <1>11

\* A legal log goes on with the skipped calls when they are what it leaves open.
LEMMA SkippedRun ==
    ASSUME NEW es \in Seq(Event), Legal(es), NEW calls \in Seq(Calls), turn \in Nat, step \in Nat,
           Seen(es).turn = turn, Seen(es).step = step, Len(Seen(es).pending) = Len(calls),
           \A k \in 1..Len(calls) : Seen(es).pending[k].call = calls[k] /\ ~Seen(es).pending[k].recorded
    PROVE  LET fs == es \o Skipped(calls)
           IN  /\ fs \in Seq(Event) /\ Legal(fs)
               /\ Seen(fs).turn = turn /\ Seen(fs).step = step /\ Seen(fs).pending = <<>>
  <1> DEFINE n == Len(calls)
             sk == Skipped(calls)
             So(j) == es \o SubSeq(sk, 1, 2 * j)
             Fine(j) == /\ So(j) \in Seq(Event) /\ Legal(So(j))
                        /\ Seen(So(j)).turn = turn /\ Seen(So(j)).step = step
                        /\ Len(Seen(So(j)).pending) = n - j
                        /\ \A k \in 1 .. n - j : /\ Seen(So(j)).pending[k].call = calls[j + k]
                                                 /\ ~Seen(So(j)).pending[k].recorded
             T == {j \in 0..n : ~Fine(j)}
  <1>1. /\ sk \in Seq(Event) /\ Len(sk) = 2 * n
        /\ \A j \in 1..n : /\ sk[2 * j - 1] = ToolCall(turn, step, calls[j])
                           /\ sk[2 * j] = ToolResult(turn, step, calls[j], "aborted-before-dispatch")
    BY SkippedAre
  <1>2. n \in Nat
    BY LenProperties
  <1> HIDE DEF sk, n
  <1>3. T = {}
    <2>1. SUFFICES ASSUME T # {} PROVE FALSE
      OBVIOUS
    <2>2. PICK j \in T : \A i \in T : j <= i
      <3>1. T \subseteq Nat
        BY <1>2
      <3> HIDE DEF T
      <3> QED
        BY <2>1, <3>1, LeastOf
    <2>3. j # 0
      <3>1. 2 * 0 = 0 /\ SubSeq(sk, 1, 0) = <<>>
        BY SubSeqEmpty
      <3>2. So(0) = es
        BY <3>1, ConcatEmptySeq
      <3> HIDE DEF So
      <3>3. Fine(0)
        <4>1. n - 0 = n /\ \A k \in 1..n : 0 + k = k
          BY <1>2
        <4> QED
          BY <3>2, <4>1 DEF n
      <3> HIDE DEF Fine
      <3> QED
        BY <2>2, <3>3
    <2>4. /\ j \in 1..n /\ j - 1 \in 0..n /\ ~(j <= j - 1)
          /\ 2 * j \in 1..(2 * n) /\ 2 * j - 1 \in 1..(2 * n) /\ (2 * j - 1) - 1 = 2 * (j - 1)
      BY <1>2, <2>2, <2>3
    <2> DEFINE fs == So(j - 1)
               front == SubSeq(sk, 1, 2 * (j - 1))
               p == Seen(fs).pending
               a == sk[2 * j - 1]
               b == sk[2 * j]
    <2>5. Fine(j - 1)
      <3> HIDE DEF Fine
      <3> QED
        BY <2>2, <2>4
    <2>6. /\ fs \in Seq(Event) /\ Legal(fs) /\ Seen(fs).turn = turn /\ Seen(fs).step = step
          /\ Len(p) = n - j + 1
          /\ \A k \in 1 .. n - j + 1 : p[k].call = calls[(j - 1) + k] /\ ~p[k].recorded
      <3>1. n - (j - 1) = n - j + 1
        BY <1>2, <2>4
      <3> QED
        BY <2>5, <3>1
    <2>7. /\ front \in Seq(Event) /\ a \in Event /\ b \in Event
          /\ SubSeq(sk, 1, 2 * j) = Append(Append(front, a), b)
      <3>1. /\ SubSeq(sk, 1, (2 * j - 1) - 1) \in Seq(Event) /\ a \in Event
            /\ SubSeq(sk, 1, 2 * j - 1) = Append(SubSeq(sk, 1, (2 * j - 1) - 1), a)
        BY <1>1, <2>4, PrefixGrows
      <3>2. /\ b \in Event /\ SubSeq(sk, 1, 2 * j) = Append(SubSeq(sk, 1, 2 * j - 1), b)
        BY <1>1, <2>4, PrefixGrows
      <3> QED
        BY <2>4, <3>1, <3>2
    <2>8. So(j) = Append(Append(fs, a), b)
      <3>1. So(j) = es \o Append(Append(front, a), b) /\ fs = es \o front
        BY <2>7
      <3> HIDE DEF So, front, a, b, fs
      <3>2. es \o Append(Append(front, a), b) = Append(Append(es \o front, a), b)
        <4>1. es \o Append(front, a) = Append(es \o front, a) /\ Append(front, a) \in Seq(Event)
          <5>1. es \in Seq(Event) /\ front \in Seq(Event) /\ a \in Event
            BY <2>7
          <5> QED
            BY ONLY <5>1, ConcatAppend
        <4>2. es \o Append(Append(front, a), b) = Append(es \o Append(front, a), b)
          <5> DEFINE mid == Append(front, a)
          <5>1. es \in Seq(Event) /\ mid \in Seq(Event) /\ b \in Event
            BY <2>7, <4>1
          <5> HIDE DEF mid
          <5>2. es \o Append(mid, b) = Append(es \o mid, b)
            BY ONLY <5>1, ConcatAppend
          <5> QED
            BY <5>2 DEF mid
        <4> QED
          BY <4>1, <4>2
      <3> QED
        BY <3>1, <3>2
    <2>9. a = ToolCall(turn, step, calls[j]) /\ b = ToolResult(turn, step, calls[j], "aborted-before-dispatch")
      BY <1>1, <2>4
    <2>10. /\ 1 \in 1 .. n - j + 1 /\ (j - 1) + 1 = j /\ n - j + 1 \in Nat /\ n - j + 1 # 0
           /\ (n - j + 1) - 1 = n - j
      <3>1. n \in Nat /\ j \in 1..n
        BY <1>2, <2>4
      <3> QED
        BY ONLY <3>1
    <2> HIDE DEF fs, front, a, b, So
    <2>11. p # <<>> /\ Head(p) = p[1] /\ Head(p).call = calls[j] /\ ~Head(p).recorded
      <3>1. p \in Seq(Entry)
        BY <2>6, LegalIsGood DEF Good, OpenGood, OpenState
      <3>2. p # <<>>
        BY <2>6, <2>10, EmptySeq
      <3>3. Head(p) = p[1]
        BY <3>1, <3>2
      <3>4. p[1].call = calls[(j - 1) + 1] /\ ~p[1].recorded
        BY <2>6, <2>10
      <3> QED
        BY <2>10, <3>2, <3>3, <3>4
    <2> DEFINE gs == Append(Append(fs, a), b)
               q == Seen(gs).pending
    <2>12. /\ gs \in Seq(Event) /\ Legal(gs)
           /\ Seen(gs).turn = turn /\ Seen(gs).step = step
           /\ Len(q) = Len(p) - 1
           /\ \A k \in 1 .. Len(p) - 1 : q[k].call = p[k + 1].call /\ (q[k].recorded <=> p[k + 1].recorded)
      <3>1. /\ a = ToolCall(Seen(fs).turn, Seen(fs).step, Head(p).call)
            /\ b = ToolResult(Seen(fs).turn, Seen(fs).step, Head(p).call, "aborted-before-dispatch")
        BY <2>6, <2>9, <2>11
      <3>2. fs \in Seq(Event) /\ Legal(fs) /\ p # <<>> /\ ~Head(p).recorded
        BY <2>6, <2>11
      <3>3. /\ gs \in Seq(Event) /\ Legal(gs)
            /\ Seen(gs).turn = Seen(fs).turn /\ Seen(gs).step = Seen(fs).step
            /\ Len(q) = Len(p) - 1
            /\ \A k \in 1 .. Len(p) - 1 : q[k].call = p[k + 1].call /\ (q[k].recorded <=> p[k + 1].recorded)
        BY <3>1, <3>2, SkipOne
      <3> QED
        BY <2>6, <3>3
    <2> HIDE DEF gs
    <2>13. \A k \in 1 .. n - j : q[k].call = calls[j + k] /\ ~q[k].recorded
      <3> TAKE k \in 1 .. n - j
      <3>1. k \in 1 .. Len(p) - 1 /\ k + 1 \in 1 .. n - j + 1 /\ (j - 1) + (k + 1) = j + k
        BY <1>2, <2>4, <2>6, <2>10
      <3> HIDE DEF p, q
      <3>2. q[k].call = p[k + 1].call /\ (q[k].recorded <=> p[k + 1].recorded)
        BY <2>12, <3>1
      <3>3. p[k + 1].call = calls[(j - 1) + (k + 1)] /\ ~p[k + 1].recorded
        BY <2>6, <3>1
      <3> QED
        BY <3>1, <3>2, <3>3
    <2>14. So(j) = gs /\ Len(q) = n - j
      BY <2>6, <2>8, <2>10, <2>12 DEF gs
    <2>15. Fine(j)
      BY <2>12, <2>13, <2>14
    <2> HIDE DEF Fine
    <2> QED
      BY <2>2, <2>15
  <1>4. Fine(n)
    <2>1. n \in 0..n
      BY <1>2
    <2> HIDE DEF Fine
    <2> QED
      BY <1>3, <2>1
  <1>5. So(n) = es \o sk
    <2>1. SubSeq(sk, 1, 2 * n) = sk
      BY <1>1, SubSeqFull
    <2> QED
      BY <2>1
  <1> DEFINE fs == es \o sk
  <1>6. fs \in Seq(Event) /\ Legal(fs) /\ Seen(fs).turn = turn /\ Seen(fs).step = step /\ Len(Seen(fs).pending) = 0
    <2>1. n - n = 0
      BY <1>2
    <2> QED
      BY <1>4, <1>5, <2>1
  <1> HIDE DEF fs
  <1>7. Seen(fs).pending = <<>>
    <2>1. Seen(fs).pending \in Seq(Entry)
      BY <1>6, LegalIsGood DEF Good, OpenGood, OpenState
    <2> QED
      BY <1>6, <2>1, EmptySeq
  <1> QED
    BY <1>6, <1>7 DEF fs, sk

-----------------------------------------------------------------------------
(* A step that throws answers what it leaves open, then closes. *)

\* The conservative answers of the open step continue the log up to its end.
LEMMA ResultsRun ==
    ASSUME NEW es \in Seq(Event), Legal(es), Seen(es).step # 0
    PROVE  LET rs == Results(Seen(es))
               fs == es \o rs
           IN  /\ rs \in Seq(Event) /\ fs \in Seq(Event) /\ Legal(fs)
               /\ Follows(fs, StepEnd(Seen(es).turn, Seen(es).step))
  <1> DEFINE seen == Seen(es)
             rs == Results(seen)
             a == StepEnd(seen.turn, seen.step)
             b == TurnEnd(seen.turn, "error")
             c == Closers(es, "error")
             fs == es \o rs
             n == Len(rs)
  <1>1. seen \in OpenState /\ seen.turn # 0 /\ seen.turn \in Nat /\ seen.step \in Nat
    BY LegalIsGood DEF Good, OpenGood, OpenState
  <1>2. "error" \in TurnReasons
    BY DEF TurnReasons
  <1>3. a \in Event /\ b \in Event /\ rs \in Seq(Event)
    BY <1>1, <1>2, EventTypes, ResultsAre
  <1>4. c = rs \o <<a, b>>
    BY <1>1, <1>2, ClosersAre
  <1>5. \A k \in 0..Len(c) : es \o SubSeq(c, 1, k) \in Seq(Event) /\ Legal(es \o SubSeq(c, 1, k))
    BY <1>2, ClosersRun
  <1> HIDE DEF c, rs, a, b, seen
  <1>6. <<a, b>> \in Seq(Event) /\ Len(<<a, b>>) = 2 /\ <<a, b>>[1] = a
    BY <1>3
  <1>7. /\ n \in Nat /\ c \in Seq(Event) /\ Len(c) = n + 2 /\ c[n + 1] = a
        /\ SubSeq(c, 1, n) = rs
    <2> DEFINE ends == <<a, b>>
    <2>0. ends \in Seq(Event) /\ Len(ends) = 2 /\ ends[1] = a
      BY <1>6
    <2>1. n \in Nat /\ n \in 0..Len(rs)
      BY <1>3, LenProperties
    <2>2. c = rs \o ends
      BY <1>4
    <2> HIDE DEF ends
    <2>3. SubSeq(c, 1, n) = rs
      BY <1>3, <2>0, <2>1, <2>2, PrefixOfConcat, SubSeqFull
    <2>4. /\ c \in Seq(Event) /\ Len(c) = n + 2
          /\ \A i \in 1 .. n + 2 : c[i] = IF i <= n THEN rs[i] ELSE ends[i - n]
      <3>1. rs \in Seq(Event) /\ ends \in Seq(Event)
        BY <1>3, <2>0
      <3>2. /\ rs \o ends \in Seq(Event) /\ Len(rs \o ends) = Len(rs) + Len(ends)
            /\ \A i \in 1 .. Len(rs) + Len(ends) :
                 (rs \o ends)[i] = IF i <= Len(rs) THEN rs[i] ELSE ends[i - Len(rs)]
        BY ONLY <3>1, ConcatProperties
      <3> QED
        BY <2>0, <2>2, <3>2
    <2>5. n + 1 \in 1 .. n + 2 /\ ~(n + 1 <= n) /\ (n + 1) - n = 1
      BY <2>1
    <2>6. c[n + 1] = ends[1]
      BY <2>4, <2>5
    <2> QED
      BY <2>0, <2>1, <2>3, <2>4, <2>6
  <1> HIDE DEF n
  <1>8. n \in 0..Len(c) /\ n + 1 \in 0..Len(c) /\ n + 1 \in 1..Len(c) /\ (n + 1) - 1 = n
    BY <1>7
  <1>9. fs \in Seq(Event) /\ Legal(fs)
    BY <1>5, <1>7, <1>8
  <1>10. SubSeq(c, 1, n + 1) = Append(rs, a)
    BY <1>7, <1>8, PrefixGrows
  <1>11. es \o SubSeq(c, 1, n + 1) = Append(fs, a)
    <2>1. es \in Seq(Event) /\ rs \in Seq(Event) /\ a \in Event
      BY <1>3
    <2>2. es \o Append(rs, a) = Append(es \o rs, a)
      BY ONLY <2>1, ConcatAppend
    <2> QED
      BY <1>10, <2>2
  <1>12. Follows(fs, a)
    <2>1. Legal(Append(fs, a))
      BY <1>5, <1>8, <1>11
    <2> HIDE DEF fs
    <2> QED
      BY <1>3, <1>9, <2>1, LegalAppend
  <1> QED
    BY <1>3, <1>9, <1>12 DEF rs, a, seen

\* The conservative answers tell what the log knows.
LEMMA ResultsHonest ==
    ASSUME NEW es \in Seq(Event), Legal(es)
    PROVE  \A e \in ToSet(Results(Seen(es))) :
              /\ e.kind = "tool/result"
              /\ \/ e.code = "outcome-unknown"
                 \/ e.code = "not-started" /\ ToolCall(e.turn, e.step, e.call) \notin ToSet(es)
  <1> DEFINE p == Seen(es).pending
             rs == Results(Seen(es))
  <1>1. Good(es) /\ Seen(es) \in OpenState
    BY LegalIsGood DEF Good, OpenGood
  <1>2. p \in Seq(Entry) /\ Len(p) \in Nat /\ \A i \in 1..Len(p) : p[i] \in Entry
    BY <1>1, LenProperties DEF OpenState
  <1>3. /\ rs \in Seq(Event) /\ Len(rs) = Len(p)
        /\ \A i \in 1..Len(p) : rs[i] = ToolResult(p[i].turn, p[i].step, p[i].call,
                                    IF p[i].recorded THEN "outcome-unknown" ELSE "not-started")
    BY <1>1, ResultsAre
  <1>4. \A i \in 1..Len(p) : p[i].recorded <=> ToolCall(p[i].turn, p[i].step, p[i].call) \in ToSet(es)
    BY <1>1 DEF Good, PendingGood
  <1>5. ToSet(rs) = {rs[i] : i \in 1..Len(p)}
    <2> HIDE DEF rs
    <2> QED
      BY <1>3, ElementsOf
  <1> SUFFICES ASSUME NEW i \in 1..Len(p)
               PROVE  /\ rs[i].kind = "tool/result"
                      /\ \/ rs[i].code = "outcome-unknown"
                         \/ /\ rs[i].code = "not-started"
                            /\ ToolCall(rs[i].turn, rs[i].step, rs[i].call) \notin ToSet(es)
    BY <1>5
  <1>6. p[i].turn \in Nat /\ p[i].step \in Nat /\ p[i].call \in Calls
    BY <1>2 DEF Entry
  <1>7. "outcome-unknown" \in Codes /\ "not-started" \in Codes
    BY DEF Codes
  <1> DEFINE k == IF p[i].recorded THEN "outcome-unknown" ELSE "not-started"
  <1>8. /\ rs[i] = ToolResult(p[i].turn, p[i].step, p[i].call, k) /\ k \in Codes
        /\ k = "outcome-unknown" \/ (k = "not-started" /\ ~p[i].recorded)
    BY <1>3, <1>7
  <1> HIDE DEF p, rs, k
  <1>9. /\ rs[i].kind = "tool/result" /\ rs[i].turn = p[i].turn /\ rs[i].step = p[i].step
        /\ rs[i].call = p[i].call /\ rs[i].code = k
    <2> DEFINE t == p[i].turn
               s == p[i].step
               c == p[i].call
    <2>1. t \in Nat /\ s \in Nat /\ c \in Calls /\ k \in Codes /\ rs[i] = ToolResult(t, s, c, k)
      BY <1>6, <1>8
    <2> HIDE DEF t, s, c
    <2>2. rs[i].kind = "tool/result" /\ rs[i].turn = t /\ rs[i].step = s /\ rs[i].call = c /\ rs[i].code = k
      <3> DEFINE d == ToolResult(t, s, c, k)
      <3>1. d.kind = "tool/result" /\ d.turn = t /\ d.step = s /\ d.call = c /\ d.code = k
        BY DEF ToolResult
      <3>2. rs[i] = d
        BY <2>1
      <3> HIDE DEF d
      <3> QED
        BY ONLY <3>1, <3>2
    <2> QED
      BY <2>2 DEF t, s, c
  <1> QED
    BY <1>4, <1>8, <1>9

\* The end of a step, in a log that has nothing left to answer.
LEMMA StepEnded ==
    ASSUME NEW es \in Seq(Event), Legal(es), NEW t \in Nat, NEW s \in Nat, Follows(es, StepEnd(t, s))
    PROVE  LET fs == Append(es, StepEnd(t, s))
           IN  /\ fs \in Seq(Event) /\ Legal(fs) /\ LastTurn(fs) = t /\ t # 0
               /\ Seen(fs) = [turn |-> t, step |-> 0, pending |-> <<>>]
               /\ Closed(fs, t) = s
  <1> DEFINE e == StepEnd(t, s)
             fs == Append(es, e)
  <1>1. Good(es)
    BY LegalIsGood
  <1>2. e \in Event /\ e.kind = "step/end" /\ e.turn = t /\ e.step = s
    BY EventTypes
  <1> HIDE DEF e
  <1>3. Seen(es).step = s /\ Seen(es).turn = t /\ s # 0
    BY <1>2 DEF Follows, e
  <1>4. t = LastTurn(es) /\ s = Closed(es, t) + 1 /\ t # 0
    BY <1>1, <1>3 DEF Good, OpenGood
  <1>5. Seen(fs) = [turn |-> t, step |-> 0, pending |-> <<>>]
    BY <1>1, <1>2, <1>3, AfterIs DEF e
  <1>6. LastTurn(fs) = LastTurn(es) /\ Closed(fs, t) = Closed(es, t) + 1 /\ fs \in Seq(Event)
    BY <1>2, LongerIs
  <1>7. Legal(fs)
    BY <1>2, LegalAppend DEF e
  <1> QED
    BY <1>4, <1>5, <1>6, <1>7 DEF e

-----------------------------------------------------------------------------
(* The inductive invariant: the log is legal, and what the run knows besides. *)

LogInv ==
    /\ disk \in Seq(Event) /\ buffer \in Seq(Event)
    /\ Legal(log) /\ LastTurn(log) <= MaxTurns

IInv ==
    /\ TypeOK /\ LogInv /\ SentIsRecorded /\ RanIsRecorded /\ HonestOutcome /\ PlaceInv /\ PoolInv

\* What a legal log gives.
LEMMA LogIsSound ==
    ASSUME LogInv
    PROVE  /\ log \in Seq(Event) /\ Good(log) /\ Legal(disk) /\ Good(disk)
           /\ ToSet(log) = ToSet(disk) \union ToSet(buffer)
           /\ Len(log) = Len(disk) + Len(buffer) /\ Len(disk) \in Nat /\ Len(buffer) \in Nat
           /\ \A i \in 1..Len(disk) : log[i] = disk[i]
  <1>1. log \in Seq(Event) /\ ToSet(log) = ToSet(disk) \union ToSet(buffer)
    BY ElementsOfConcat DEF LogInv, log
  <1>2. Legal(disk)
    BY LegalPrefix DEF LogInv, log
  <1>3. Good(log) /\ Good(disk)
    BY <1>1, <1>2, LegalIsGood DEF LogInv
  <1>4. /\ Len(log) = Len(disk) + Len(buffer) /\ Len(disk) \in Nat /\ Len(buffer) \in Nat
        /\ \A i \in 1..Len(disk) : log[i] = disk[i]
    BY LenProperties, ConcatProperties DEF LogInv, log
  <1> QED
    BY <1>1, <1>2, <1>3, <1>4

\* The invariants of the log alone.
LEMMA LogInvariants ==
    ASSUME LogInv
    PROVE  GrowthInv /\ AnsweredOnce /\ RepairResumes /\ ForkIsClosed
  <1>1. disk \in Seq(Event) /\ Legal(disk) /\ log \in Seq(Event) /\ Good(log)
    BY LogIsSound DEF LogInv
  <1>2. GrowthInv
    <2> SUFFICES ASSUME disk # <<>> PROVE Follows(Front(disk), Last(disk))
      BY DEF GrowthInv
    <2>1. Len(disk) \in Nat \ {0} /\ DOMAIN disk = 1..Len(disk)
      BY <1>1, EmptySeq, LenProperties
    <2>2. Len(disk) \in DOMAIN disk
      BY <2>1
    <2> QED
      BY <1>1, <2>2 DEF Legal, Front, Last
  <1>3. AnsweredOnce
    BY <1>1, GoodIsAnswered DEF AnsweredOnce
  <1>4. RepairResumes
    <2>1. "interrupted" \in TurnReasons
      BY DEF TurnReasons
    <2> QED
      BY <1>1, <2>1, LegalResumes DEF RepairResumes
  <1>5. ForkIsClosed
    <2> DEFINE child == ForkSeed(disk, Len(disk))
               prefix == Append(disk, EndSeed)
    <2>1. "forked" \in TurnReasons /\ SubSeq(disk, 1, Len(disk)) = disk
      BY <1>1, SubSeqFull DEF TurnReasons
    <2>2. child = prefix \o Closers(prefix, "forked")
      BY <2>1 DEF ForkSeed
    <2>3. /\ child \in Seq(Event) /\ Legal(child) /\ Seen(child) = Nothing
          /\ SubSeq(child, 1, Len(disk)) = disk
      BY <1>1, <2>1, <2>2, SeedIsClosed
    <2> HIDE DEF child
    <2>4. Answered(child)
      BY <2>3, LegalIsGood, GoodIsAnswered
    <2>5. \A e \in ToSet(child) : e.kind = "step/start" => <<e.turn, e.step>> \in ClosedSteps(child)
      BY <2>3, StepsHaveEnded DEF Nothing
    <2> QED
      BY <2>3, <2>4, <2>5 DEF ForkIsClosed, child
  <1> QED
    BY <1>2, <1>3, <1>4, <1>5

LEMMA InvImplies ==
    ASSUME IInv
    PROVE  RecoveryInv /\ AnsweredOnce /\ HonestOutcome /\ RepairResumes /\ ForkIsClosed
  BY LogInvariants DEF IInv, RecoveryInv

-----------------------------------------------------------------------------
(* Steps of the session.  First what an append does to the log. *)

LEMMA LogStays ==
    ASSUME LogInv, UNCHANGED stored
    PROVE  /\ log' = log /\ disk' = disk /\ LogInv'
           /\ ToSet(log') = ToSet(log) /\ ToSet(disk') = ToSet(disk)
  BY DEF stored, log, LogInv

LEMMA Appends ==
    ASSUME LogInv, NEW fs \in Seq(Event), Log(fs), Legal(log \o fs), LastTurn(log \o fs) <= MaxTurns
    PROVE  /\ log' = log \o fs /\ disk' = disk /\ LogInv' /\ log' \in Seq(Event)
           /\ ToSet(log') = ToSet(log) \union ToSet(fs)
  <1>1. disk' = disk /\ buffer' = buffer \o fs /\ disk \in Seq(Event) /\ buffer \in Seq(Event)
    BY DEF Log, LogInv
  <1>2. log' = disk \o (buffer \o fs)
    BY <1>1 DEF log
  <1>3. disk \o (buffer \o fs) = (disk \o buffer) \o fs
    <2>1. disk \in Seq(Event) /\ buffer \in Seq(Event) /\ fs \in Seq(Event)
      BY <1>1
    <2> QED
      BY ONLY <2>1, ConcatAssociative
  <1>4. log' = log \o fs
    BY <1>2, <1>3 DEF log
  <1>5. buffer' \in Seq(Event) /\ disk' \in Seq(Event)
    BY <1>1, ConcatProperties
  <1>6. log \in Seq(Event)
    BY LogIsSound
  <1>7. log \o fs \in Seq(Event) /\ ToSet(log \o fs) = ToSet(log) \union ToSet(fs)
    BY <1>6, ElementsOfConcat
  <1>8. LogInv'
    BY <1>4, <1>5 DEF LogInv
  <1> QED
    BY <1>1, <1>4, <1>7, <1>8

LEMMA AppendsOne ==
    ASSUME LogInv, NEW e, Log(<<e>>), Follows(log, e), e.kind = "turn/start" => LastTurn(log) < MaxTurns
    PROVE  /\ e \in Event /\ log' = Append(log, e) /\ disk' = disk /\ LogInv' /\ log' \in Seq(Event)
           /\ ToSet(log') = ToSet(log) \union {e}
           /\ Len(log') = Len(log) + 1 /\ log'[Len(log) + 1] = e
           /\ \A i \in 1..Len(log) : log'[i] = log[i]
  <1>1. e \in Event /\ log \in Seq(Event) /\ Legal(log) /\ LastTurn(log) <= MaxTurns
    BY LogIsSound DEF LogInv, Follows
  <1>2. <<e>> \in Seq(Event) /\ log \o <<e>> = Append(log, e)
    BY <1>1, AppendIsConcat
  <1>3. Legal(Append(log, e))
    BY <1>1, LegalAppend
  <1>4. LastTurn(Append(log, e)) = (IF e.kind = "turn/start" THEN LastTurn(log) + 1 ELSE LastTurn(log))
        /\ LastTurn(log) \in Nat
    BY <1>1, LongerIs
  <1>5. LastTurn(Append(log, e)) <= MaxTurns
    BY <1>1, <1>4, RecoveryAssumption
  <1>6. log' = log \o <<e>> /\ disk' = disk /\ LogInv' /\ log' \in Seq(Event)
    BY <1>2, <1>3, <1>5, Appends
  <1>7. log' = Append(log, e)
    BY <1>2, <1>6
  <1>8. /\ ToSet(Append(log, e)) = ToSet(log) \union {e}
        /\ Len(Append(log, e)) = Len(log) + 1 /\ Append(log, e)[Len(log) + 1] = e
        /\ \A i \in 1..Len(log) : Append(log, e)[i] = log[i]
    BY <1>1, ElementsOfAppend, AppendProperties
  <1> QED
    BY <1>1, <1>6, <1>7, <1>8

\* The events of a step's close and the end of the step, in one append.
LEMMA AppendsEnd ==
    ASSUME LogInv, NEW fs \in Seq(Event), Legal(log \o fs), NEW t \in Nat, NEW s \in Nat,
           Follows(log \o fs, StepEnd(t, s)), Log(fs \o <<StepEnd(t, s)>>), t <= MaxTurns
    PROVE  /\ disk' = disk /\ LogInv' /\ t # 0
           /\ ToSet(log') = ToSet(log) \union (ToSet(fs) \union {StepEnd(t, s)})
           /\ Seen(log') = [turn |-> t, step |-> 0, pending |-> <<>>]
           /\ Closed(log', t) = s
  <1> DEFINE e == StepEnd(t, s)
             gs == fs \o <<e>>
             es == log \o fs
  <1>1. e \in Event /\ log \in Seq(Event)
    BY EventTypes, LogIsSound
  <1>2. es \in Seq(Event)
    BY <1>1, ConcatProperties
  <1> HIDE DEF e
  <1>3. gs \in Seq(Event) /\ gs = Append(fs, e) /\ log \o Append(fs, e) = Append(es, e)
        /\ ToSet(gs) = ToSet(fs) \union {e}
    <2>1. gs = Append(fs, e) /\ Append(fs, e) \in Seq(Event) /\ ToSet(Append(fs, e)) = ToSet(fs) \union {e}
      BY <1>1, AppendIsConcat, AppendProperties, ElementsOfAppend
    <2>2. log \o Append(fs, e) = Append(log \o fs, e)
      BY <1>1, ConcatAppend
    <2> QED
      BY <2>1, <2>2
  <1> HIDE DEF gs, es
  <1>4. /\ Legal(Append(es, e)) /\ LastTurn(Append(es, e)) = t /\ t # 0
        /\ Seen(Append(es, e)) = [turn |-> t, step |-> 0, pending |-> <<>>]
        /\ Closed(Append(es, e), t) = s
    BY <1>2, StepEnded DEF e, es
  <1>5. Log(gs) /\ log \o gs = Append(es, e)
    BY <1>3 DEF gs, e
  <1>6. log' = log \o gs /\ disk' = disk /\ LogInv' /\ ToSet(log') = ToSet(log) \union ToSet(gs)
    BY <1>3, <1>4, <1>5, Appends
  <1>7. log' = Append(es, e)
    BY <1>5, <1>6
  <1> QED
    BY <1>3, <1>4, <1>6, <1>7 DEF e

\* What is stored stays stored.
LEMMA RecordsStay ==
    ASSUME SentIsRecorded, RanIsRecorded, ToSet(disk) \subseteq ToSet(disk')
    PROVE  /\ sent' = sent => SentIsRecorded'
           /\ ran' = ran => RanIsRecorded'
  BY DEF SentIsRecorded, RanIsRecorded

\* A step that leaves the pool, its log and its bodies alone keeps what holds of it.
LEMMA PoolStays ==
    ASSUME PoolInv, log' = log, UNCHANGED <<pc, turn, step, request, call, waits, outcome, failed, ran>>
    PROVE  PoolInv'
  <1> SUFFICES ASSUME pc' = "tools"
               PROVE  /\ \E done, known \in 0..Len(request') : PoolAt(done, known)'
                      /\ \A c \in ToSet(request') : CallAt(c)'
    BY DEF PoolInv
  <1>1. /\ \E done, known \in 0..Len(request) : PoolAt(done, known)
        /\ \A c \in ToSet(request) : CallAt(c)
    BY DEF PoolInv
  <1>2. \A done, known \in 0..Len(request) : PoolAt(done, known) => PoolAt(done, known)'
    BY DEF PoolAt
  <1>3. \A c \in ToSet(request) : CallAt(c) => CallAt(c)'
    BY DEF CallAt
  <1> QED
    BY <1>1, <1>2, <1>3

\* Results that tell the truth keep the log honest.
LEMMA HonestStays ==
    ASSUME HonestOutcome, ran' = ran, NEW F, ToSet(log') \subseteq ToSet(log) \union F,
           \A e \in F : e.kind = "tool/result" =>
                IF <<e.turn, e.step, e.call>> \in ran THEN e.code \in {"ok", "outcome-unknown"}
                                                      ELSE e.code # "ok"
    PROVE  HonestOutcome'
  <1>1. \A e \in ToSet(log) : e.kind = "tool/result" =>
            IF <<e.turn, e.step, e.call>> \in ran THEN e.code \in {"ok", "outcome-unknown"}
                                                  ELSE e.code # "ok"
    BY DEF HonestOutcome
  <1>2. \A e \in ToSet(log') : e.kind = "tool/result" =>
            IF <<e.turn, e.step, e.call>> \in ran THEN e.code \in {"ok", "outcome-unknown"}
                                                  ELSE e.code # "ok"
    BY <1>1
  <1> QED
    BY <1>2 DEF HonestOutcome

\* So does an event that is no result.
LEMMA QuietStays ==
    ASSUME HonestOutcome, ran' = ran, NEW e, ToSet(log') = ToSet(log) \union {e}, e.kind # "tool/result"
    PROVE  HonestOutcome'
  <1>1. {f \in ToSet(log') : f.kind = "tool/result"} = {f \in ToSet(log) : f.kind = "tool/result"}
    OBVIOUS
  <1> QED
    BY <1>1 DEF HonestOutcome

\* The conservative answers of a legal log tell the truth about the bodies that ran.
LEMMA AnswersAreHonest ==
    ASSUME LogInv, RanIsRecorded
    PROVE  \A e \in ToSet(Results(Seen(log))) : e.kind = "tool/result" =>
                IF <<e.turn, e.step, e.call>> \in ran THEN e.code \in {"ok", "outcome-unknown"}
                                                      ELSE e.code # "ok"
  <1>1. log \in Seq(Event) /\ Legal(log) /\ ToSet(disk) \subseteq ToSet(log)
    BY LogIsSound DEF LogInv
  <1>2. \A e \in ToSet(Results(Seen(log))) :
            \/ e.code = "outcome-unknown"
            \/ e.code = "not-started" /\ ToolCall(e.turn, e.step, e.call) \notin ToSet(log)
    BY <1>1, ResultsHonest
  <1>3. \A t, s, c : <<t, s, c>> \in ran => ToolCall(t, s, c) \in ToSet(log)
    BY <1>1 DEF RanIsRecorded
  <1> QED
    BY <1>2, <1>3

\* The types of the places, and what a legal log knows of the open turn and step.
LEMMA PlaceIs ==
    ASSUME IInv
    PROVE  LET seen == Seen(log)
           IN  /\ seen \in OpenState /\ turn \in Nat /\ step \in Nat /\ turn <= MaxTurns /\ step <= MaxSteps
               /\ MaxTurns \in Nat /\ MaxSteps \in Nat
               /\ log \in Seq(Event) /\ Good(log) /\ Len(log) \in Nat
               /\ seen.step = 0 => seen.pending = <<>>
               /\ seen.turn # 0 => seen.turn = LastTurn(log)
               /\ Asked(log, seen.turn, seen.step) = {} => seen.pending = <<>>
  <1>1. /\ turn \in Nat /\ step \in Nat /\ turn <= MaxTurns /\ step <= MaxSteps
        /\ MaxTurns \in Nat /\ MaxSteps \in Nat
    BY RecoveryAssumption DEF IInv, TypeOK, Boundaries
  <1>2. log \in Seq(Event) /\ Good(log)
    BY LogIsSound DEF IInv
  <1>3. Len(log) \in Nat
    BY <1>2, LenProperties
  <1> QED
    BY <1>1, <1>2, <1>3 DEF Good, OpenGood, PendingGood

-----------------------------------------------------------------------------
(* One lemma per action. *)

LEMMA InitInv == Init => IInv
  <1> SUFFICES ASSUME Init PROVE IInv
    OBVIOUS
  <1> USE DEF Init
  <1>1. log = <<>> /\ ToSet(log) = {}
    <2>1. <<>> \o <<>> = <<>>
      BY EmptySeq, ConcatEmptySeq
    <2>2. <<>> \in Seq({0})
      BY EmptySeq
    <2>3. ToSet(<<>>) = {}
      BY <2>2, ElementsOf
    <2> QED
      BY <2>1, <2>3 DEF log
  <1>2. LogInv
    <2>1. <<>> \in Seq(Event) /\ LastTurn(<<>>) = 0 /\ 0 <= MaxTurns
      BY EmptySeq, EmptyCounts, RecoveryAssumption
    <2> QED
      BY <1>1, <2>1, LegalEmpty DEF LogInv
  <1>3. TypeOK
    <2>1. MaxTurns \in Nat /\ MaxSteps \in Nat /\ MaxCrashes \in Nat
      BY RecoveryAssumption
    <2>2. call \in [Calls -> CallStates] /\ outcome \in [Calls -> Codes] /\ waits \in [Calls -> Nat]
      BY DEF Resting, NoMarks, NoCodes, CallStates, Codes
    <2>3. turn \in Boundaries /\ step \in 0..MaxSteps /\ mark \in Nat /\ crashes \in 0..MaxCrashes
      BY <2>1 DEF Boundaries
    <2> QED
      BY <2>2, <2>3 DEF TypeOK, Phases
  <1>4. SentIsRecorded /\ RanIsRecorded /\ HonestOutcome
    BY <1>1 DEF SentIsRecorded, RanIsRecorded, HonestOutcome
  <1>5. PlaceInv /\ PoolInv
    BY <1>1, SeenEmpty, EmptyCounts DEF PlaceInv, PoolInv, InStep, Nothing
  <1> QED
    BY <1>2, <1>3, <1>4, <1>5 DEF IInv

\* The writer moves an event from memory to disk: the log is what it was.
LEMMA PersistKeeps == ASSUME IInv, Persist PROVE IInv'
  <1>1. disk \in Seq(Event) /\ buffer \in Seq(Event) /\ buffer # <<>>
    BY DEF IInv, LogInv, Persist
  <1>2. disk' = Append(disk, Head(buffer)) /\ buffer' = Tail(buffer)
    BY DEF Persist
  <1>3. Head(buffer) \in Event /\ Tail(buffer) \in Seq(Event) /\ buffer = <<Head(buffer)>> \o Tail(buffer)
    <2>1. Head(buffer) \in Event /\ Tail(buffer) \in Seq(Event) /\ Len(buffer) \in Nat \ {0}
      BY <1>1, EmptySeq, HeadTailProperties
    <2>2. 1 \in 1..Len(buffer) /\ Len(buffer) \in 1..Len(buffer) /\ buffer[1] = Head(buffer)
      BY <1>1, <2>1
    <2>3. SubSeq(buffer, 1, Len(buffer)) = <<buffer[1]>> \o SubSeq(buffer, 1 + 1, Len(buffer))
      BY <1>1, <2>2, SubSeqRecursiveFirst
    <2>4. SubSeq(buffer, 1, Len(buffer)) = buffer /\ SubSeq(buffer, 2, Len(buffer)) = Tail(buffer)
      BY <1>1, SubSeqFull, TailIsSubSeq
    <2> QED
      BY <2>1, <2>2, <2>3, <2>4
  <1>4. log' = log
    <2> DEFINE h == Head(buffer)
               one == <<h>>
               rest == Tail(buffer)
    <2>1. one \in Seq(Event) /\ rest \in Seq(Event) /\ Append(disk, h) = disk \o one
      BY <1>1, <1>3, AppendIsConcat
    <2>2. log' = (disk \o one) \o rest /\ log = disk \o (one \o rest)
      BY <1>2, <1>3, <2>1 DEF log
    <2> HIDE DEF one, rest, h
    <2>3. (disk \o one) \o rest = disk \o (one \o rest)
      BY <1>1, <2>1, ConcatAssociative
    <2> QED
      BY <2>2, <2>3
  <1>5. disk' \in Seq(Event) /\ ToSet(disk) \subseteq ToSet(disk')
    BY <1>1, <1>2, <1>3, ElementsOfAppend
  <1>6. LogInv'
    BY <1>2, <1>3, <1>4, <1>5 DEF LogInv, IInv
  <1>7. /\ UNCHANGED <<pc, turn, step, mark, request, call, waits, outcome, failed, ran, sent, aborted, crashes>>
        /\ pc # "down"
    BY DEF Persist, control, tools, history
  <1>8. TypeOK'
    BY <1>7 DEF IInv, TypeOK
  <1>9. SentIsRecorded' /\ RanIsRecorded'
    BY <1>5, <1>7, RecordsStay DEF IInv
  <1>10. HonestOutcome'
    BY <1>4, <1>7 DEF IInv, HonestOutcome
  <1>11. PlaceInv'
    BY <1>4, <1>7 DEF IInv, PlaceInv
  <1>12. PoolInv'
    BY <1>4, <1>7, PoolStays DEF IInv
  <1> QED
    BY <1>6, <1>8, <1>9, <1>10, <1>11, <1>12 DEF IInv

LEMMA TurnOpensKeeps == ASSUME IInv, TurnOpens PROVE IInv'
  <1> DEFINE e == TurnStart(turn + 1)
  <1>1. /\ pc = "idle" /\ turn < MaxTurns /\ turn' = turn + 1 /\ step' = 0 /\ aborted' = FALSE
        /\ Log(<<e>>) /\ pc' = "pre-step" /\ mark' = Len(log) + 1
        /\ UNCHANGED <<request, call, waits, outcome, failed, ran, sent, crashes>>
    BY DEF TurnOpens, tools, history
  <1>2. /\ turn \in Nat /\ MaxTurns \in Nat /\ log \in Seq(Event) /\ Good(log) /\ Len(log) \in Nat
    BY PlaceIs
  <1>3. Seen(log) = Nothing /\ turn = LastTurn(log) /\ request = <<>>
    BY <1>1 DEF IInv, PlaceInv
  <1>4. e \in Event /\ e.kind = "turn/start" /\ e.turn = turn + 1
    BY <1>2, EventTypes
  <1> HIDE DEF e
  <1>5. Follows(log, e)
    BY <1>3, <1>4 DEF Follows, Nothing
  <1>6. /\ log' = Append(log, e) /\ disk' = disk /\ LogInv' /\ ToSet(log') = ToSet(log) \union {e}
    BY <1>1, <1>3, <1>4, <1>5, AppendsOne DEF IInv
  <1>7. Seen(log') = [turn |-> turn + 1, step |-> 0, pending |-> <<>>]
    BY <1>2, <1>3, <1>4, <1>5, <1>6, AfterIs
  <1>8. Closed(log', turn + 1) = 0
    <2>1. \A d \in ToSet(log) : d.kind = "step/end" => d.turn # turn + 1
      <3>1. \A d \in ToSet(log) : d.kind = "step/end" => d.turn \in Nat /\ d.turn <= turn
        <4>1. ToSet(log) \subseteq Event
          BY <1>2, ElementsOf
        <4> QED
          BY <1>2, <1>3, <4>1, EventFields DEF Good, NumbersGood, InnerKinds
      <3> QED
        BY <1>2, <3>1
    <2>2. Closed(log, turn + 1) = 0
      BY <1>2, <2>1, ClosedBound
    <2> QED
      BY <1>2, <1>4, <1>6, <2>2, LongerIs
  <1>9. TypeOK'
    <2>1. turn' \in Boundaries /\ step' \in 0..MaxSteps /\ mark' \in Nat /\ pc' \in Phases
      BY <1>1, <1>2, RecoveryAssumption DEF Phases, Boundaries
    <2> QED
      BY <1>1, <2>1 DEF IInv, TypeOK
  <1>10. SentIsRecorded' /\ RanIsRecorded'
    BY <1>1, <1>6, RecordsStay DEF IInv
  <1>11. HonestOutcome'
    BY <1>1, <1>4, <1>6, HonestStays DEF IInv
  <1>12. PlaceInv'
    BY <1>1, <1>2, <1>3, <1>7, <1>8 DEF PlaceInv, InStep
  <1>13. PoolInv'
    BY <1>1 DEF PoolInv
  <1> QED
    BY <1>6, <1>9, <1>10, <1>11, <1>12, <1>13 DEF IInv

LEMMA AbortKeeps == ASSUME IInv, Abort PROVE IInv'
  <1>1. /\ UNCHANGED stored /\ aborted' = TRUE
        /\ UNCHANGED <<pc, turn, step, mark, request, call, waits, outcome, failed, ran, sent, crashes, buffer>>
    BY DEF Abort, stored, control, tools, history
  <1>2. log' = log /\ disk' = disk /\ LogInv' /\ ToSet(log') = ToSet(log)
    BY <1>1, LogStays DEF IInv
  <1>3. TypeOK'
    BY <1>1 DEF IInv, TypeOK
  <1>4. SentIsRecorded' /\ RanIsRecorded'
    BY <1>1, <1>2, RecordsStay DEF IInv
  <1>5. HonestOutcome'
    BY <1>1, <1>2 DEF IInv, HonestOutcome
  <1>6. PlaceInv'
    BY <1>1, <1>2 DEF IInv, PlaceInv
  <1>7. PoolInv'
    BY <1>1, <1>2, PoolStays DEF IInv
  <1> QED
    BY <1>2, <1>3, <1>4, <1>5, <1>6, <1>7 DEF IInv

\* The end of a turn, from its pre-step or after its last step.
LEMMA TurnEndKeeps ==
    ASSUME IInv, NEW reason \in TurnReasons, Log(<<TurnEnd(turn, reason)>>),
           pc \in {"pre-step", "stepped"}, pc' = "idle", request' = <<>>,
           UNCHANGED <<turn, step, mark, ran, sent, aborted, crashes>>, TypeOK'
    PROVE  IInv'
  <1> DEFINE e == TurnEnd(turn, reason)
  <1>1. /\ turn \in Nat /\ log \in Seq(Event) /\ Good(log)
        /\ Seen(log).turn # 0 => Seen(log).turn = LastTurn(log)
    BY PlaceIs
  <1>2. turn # 0 /\ Seen(log).turn = turn /\ Seen(log).step = 0
    BY DEF IInv, PlaceInv
  <1>3. e \in Event /\ e.kind = "turn/end" /\ e.turn = turn
    BY <1>1, EventTypes
  <1> HIDE DEF e
  <1>4. Follows(log, e)
    BY <1>2, <1>3 DEF Follows
  <1>5. log' = Append(log, e) /\ disk' = disk /\ LogInv' /\ ToSet(log') = ToSet(log) \union {e}
    BY <1>3, <1>4, AppendsOne DEF IInv, e
  <1>6. Seen(log') = Nothing /\ LastTurn(log') = LastTurn(log)
    BY <1>1, <1>3, <1>4, <1>5, AfterIs, LongerIs
  <1>7. SentIsRecorded' /\ RanIsRecorded'
    BY <1>5, RecordsStay DEF IInv
  <1>8. HonestOutcome'
    BY <1>3, <1>5, HonestStays DEF IInv
  <1>9. PlaceInv'
    BY <1>1, <1>2, <1>6 DEF PlaceInv, InStep
  <1>10. PoolInv'
    BY DEF PoolInv
  <1> QED
    BY <1>5, <1>7, <1>8, <1>9, <1>10 DEF IInv

LEMMA PreStepRefusesKeeps == ASSUME IInv, PreStepRefuses PROVE IInv'
  <1>1. PICK reason \in {"blocked", "completed", "error", "aborted"} : TurnCloses(reason)
    BY DEF PreStepRefuses
  <1>2. /\ pc = "pre-step" /\ Log(<<TurnEnd(turn, reason)>>) /\ pc' = "idle"
        /\ UNCHANGED <<turn, step, mark, request, call, waits, outcome, failed, ran, sent, aborted, crashes>>
    BY <1>1 DEF PreStepRefuses, TurnCloses, tools, history
  <1>3. reason \in TurnReasons
    BY DEF TurnReasons
  <1>4. request' = <<>>
    BY <1>2 DEF IInv, PlaceInv
  <1>5. TypeOK'
    BY <1>2 DEF IInv, TypeOK, Phases
  <1> QED
    BY <1>2, <1>3, <1>4, <1>5, TurnEndKeeps

\* The tools at rest have their type.
LEMMA RestingTypes ==
    ASSUME NoTools
    PROVE  /\ request' = <<>> /\ call' \in [Calls -> CallStates] /\ waits' \in [Calls -> Nat]
           /\ outcome' \in [Calls -> Codes] /\ failed' \in BOOLEAN
  BY DEF NoTools, Resting, NoMarks, NoCodes, CallStates, Codes

LEMMA TurnEndsKeeps == ASSUME IInv, TurnEnds PROVE IInv'
  <1> DEFINE reason == IF aborted THEN "aborted" ELSE IF failed THEN "error" ELSE "completed"
  <1>1. /\ pc = "stepped" /\ Log(<<TurnEnd(turn, reason)>>) /\ NoTools /\ pc' = "idle"
        /\ UNCHANGED <<turn, step, mark, ran, sent, aborted, crashes>>
    BY DEF TurnEnds, history
  <1>2. reason \in TurnReasons
    BY DEF TurnReasons
  <1> HIDE DEF reason
  <1>3. request' = <<>>
    BY <1>1, RestingTypes
  <1>4. TypeOK'
    BY <1>1, RestingTypes DEF IInv, TypeOK, Phases
  <1> QED
    BY <1>1, <1>2, <1>3, <1>4, TurnEndKeeps

LEMMA TurnGoesOnKeeps == ASSUME IInv, TurnGoesOn PROVE IInv'
  <1>1. /\ pc = "stepped" /\ NoTools /\ pc' = "pre-step" /\ mark' = Len(log)
        /\ UNCHANGED stored /\ UNCHANGED <<turn, step, ran, sent, aborted, crashes>>
    BY DEF TurnGoesOn, history
  <1>2. log' = log /\ disk' = disk /\ LogInv' /\ ToSet(log') = ToSet(log)
    BY <1>1, LogStays DEF IInv
  <1>3. Len(log) \in Nat
    BY PlaceIs
  <1>4. TypeOK'
    BY <1>1, <1>3, RestingTypes DEF IInv, TypeOK, Phases
  <1>5. SentIsRecorded' /\ RanIsRecorded'
    BY <1>1, <1>2, RecordsStay DEF IInv
  <1>6. HonestOutcome'
    BY <1>1, <1>2 DEF IInv, HonestOutcome
  <1>7. turn # 0 /\ Seen(log).turn = turn /\ Seen(log).step = 0 /\ step = Closed(log, turn)
    BY <1>1 DEF IInv, PlaceInv
  <1>8. PlaceInv'
    BY <1>1, <1>2, <1>7, RestingTypes DEF PlaceInv, InStep
  <1>9. PoolInv'
    BY <1>1 DEF PoolInv
  <1> QED
    BY <1>2, <1>4, <1>5, <1>6, <1>8, <1>9 DEF IInv

LEMMA StepOpensKeeps == ASSUME IInv, StepOpens PROVE IInv'
  <1> DEFINE e == StepStart(turn, step + 1)
             T == LastTurn(log)
  <1>1. /\ pc = "pre-step" /\ CountOf("step/start") < MaxSteps /\ step' = step + 1
        /\ Log(<<e>>) /\ pc' = "preparing"
        /\ UNCHANGED <<turn, mark, request, call, waits, outcome, failed, ran, sent, aborted, crashes>>
    BY DEF StepOpens, tools, history
  <1>2. /\ turn \in Nat /\ step \in Nat /\ MaxSteps \in Nat /\ log \in Seq(Event) /\ Good(log)
        /\ Seen(log).turn # 0 => Seen(log).turn = T
    BY PlaceIs
  <1>3. turn # 0 /\ Seen(log).turn = turn /\ Seen(log).step = 0 /\ step = Closed(log, turn) /\ request = <<>>
    BY <1>1 DEF IInv, PlaceInv
  <1>4. e \in Event /\ e.kind = "step/start" /\ e.turn = turn /\ e.step = step + 1
    BY <1>2, EventTypes
  <1> HIDE DEF e
  <1>5. Follows(log, e)
    BY <1>3, <1>4 DEF Follows
  <1>6. log' = Append(log, e) /\ disk' = disk /\ LogInv' /\ ToSet(log') = ToSet(log) \union {e}
    BY <1>1, <1>4, <1>5, AppendsOne DEF IInv
  <1>7. Seen(log') = [turn |-> turn, step |-> step + 1, pending |-> <<>>]
    BY <1>2, <1>3, <1>4, <1>5, <1>6, AfterIs
  <1>8. Asked(log', turn, step + 1) = {}
    <2>1. \A d \in ToSet(log) : d.kind = "assistant/message" /\ d.turn = turn => d.step \in Nat /\ d.step <= step
      <3>1. ToSet(log) \subseteq Event
        BY <1>2, ElementsOf
      <3>2. \A d \in ToSet(log) : d.kind \in InnerKinds => d.step \in Nat
        BY <3>1, EventFields
      <3>3. \A d \in ToSet(log) : d.kind \in InnerKinds /\ d.turn = T =>
                d.step <= Closed(log, T) + IF Seen(log).step = 0 THEN 0 ELSE 1
        BY <1>2 DEF Good, NumbersGood
      <3> QED
        BY <1>2, <1>3, <3>2, <3>3 DEF InnerKinds
    <2>2. Asked(log, turn, step + 1) = {}
      <3>1. \A i \in DOMAIN log : log[i] \in ToSet(log)
        BY DEF ToSet
      <3>2. \A d \in ToSet(log) : d.kind = "assistant/message" /\ d.turn = turn => d.step # step + 1
        BY <1>2, <2>1
      <3> QED
        BY <3>1, <3>2 DEF Asked
    <2>3. Asked(log', turn, step + 1) = Asked(log, turn, step + 1)
      BY <1>2, <1>4, <1>6, AskedStays
    <2> QED
      BY <2>2, <2>3
  <1>9. step + 1 <= MaxSteps
    <2>1. Closed(log, turn) <= Count(log, "step/end") /\ Count(log, "step/end") \in Nat
      BY <1>2, ClosedBound
    <2>2. Count(log, "step/start") = Count(log, "step/end")
      BY <1>2, <1>3, <2>1 DEF Good, OpenGood
    <2> QED
      BY <1>1, <1>2, <1>3, <2>1, <2>2 DEF CountOf
  <1>10. TypeOK'
    BY <1>1, <1>2, <1>9 DEF IInv, TypeOK, Phases
  <1>11. SentIsRecorded' /\ RanIsRecorded'
    BY <1>1, <1>6, RecordsStay DEF IInv
  <1>12. HonestOutcome'
    BY <1>1, <1>4, <1>6, HonestStays DEF IInv
  <1>13. PlaceInv'
    BY <1>1, <1>2, <1>3, <1>7, <1>8 DEF PlaceInv, InStep
  <1>14. PoolInv'
    BY <1>1 DEF PoolInv
  <1> QED
    BY <1>6, <1>10, <1>11, <1>12, <1>13, <1>14 DEF IInv

LEMMA RequestBuiltKeeps == ASSUME IInv, RequestBuilt PROVE IInv'
  <1> DEFINE e == Input(turn, step)
  <1>1. /\ pc = "preparing" /\ Log(<<e>>) /\ pc' = "requesting" /\ mark' = Len(log) + 1
        /\ UNCHANGED <<turn, step, request, call, waits, outcome, failed, ran, sent, aborted, crashes>>
    BY DEF RequestBuilt, tools, history
  <1>2. turn \in Nat /\ step \in Nat /\ log \in Seq(Event) /\ Good(log) /\ Len(log) \in Nat
    BY PlaceIs
  <1>3. /\ turn # 0 /\ Seen(log).turn = turn /\ step # 0 /\ Seen(log).step = step
        /\ Asked(log, turn, step) = {} /\ request = <<>>
    BY <1>1 DEF IInv, PlaceInv, InStep
  <1>4. e \in Event /\ e.kind = "user/message" /\ e.turn = turn /\ e.step = step
    BY <1>2, EventTypes
  <1> HIDE DEF e
  <1>5. Follows(log, e)
    BY <1>3, <1>4 DEF Follows
  <1>6. /\ log' = Append(log, e) /\ disk' = disk /\ LogInv' /\ ToSet(log') = ToSet(log) \union {e}
        /\ Len(log') = Len(log) + 1 /\ log'[Len(log) + 1] = e
    BY <1>1, <1>4, <1>5, AppendsOne DEF IInv
  <1>7. Seen(log') = Seen(log)
    BY <1>2, <1>4, <1>5, <1>6, AfterIs
  <1>8. Asked(log', turn, step) = {}
    <2>1. Asked(log', turn, step) = Asked(log, turn, step)
      BY <1>2, <1>4, <1>6, AskedStays
    <2> QED
      BY <1>3, <2>1
  <1>9. TypeOK'
    BY <1>1, <1>2 DEF IInv, TypeOK, Phases
  <1>10. SentIsRecorded' /\ RanIsRecorded'
    BY <1>1, <1>6, RecordsStay DEF IInv
  <1>11. HonestOutcome'
    BY <1>1, <1>4, <1>6, QuietStays DEF IInv
  <1>12. \E i \in 1..mark' : i <= Len(log') /\ log'[i] = Input(turn', step')
    <2>1. Len(log) + 1 \in 1..mark' /\ log'[Len(log) + 1] = Input(turn', step')
      BY <1>1, <1>2, <1>6 DEF e
    <2> QED
      BY <1>2, <1>6, <2>1
  <1>13. PlaceInv'
    BY <1>1, <1>3, <1>7, <1>8, <1>12 DEF PlaceInv, InStep
  <1>14. PoolInv'
    BY <1>1 DEF PoolInv
  <1> QED
    BY <1>6, <1>9, <1>10, <1>11, <1>13, <1>14 DEF IInv

LEMMA RequestSentKeeps == ASSUME IInv, RequestSent PROVE IInv'
  <1>1. /\ pc = "requesting" /\ mark <= Len(disk) /\ sent' = sent \union {<<turn, step>>} /\ pc' = "streaming"
        /\ UNCHANGED stored
        /\ UNCHANGED <<turn, step, mark, request, call, waits, outcome, failed, ran, aborted, crashes>>
    BY DEF RequestSent, Flushed, tools
  <1>2. log' = log /\ disk' = disk /\ LogInv' /\ ToSet(log') = ToSet(log)
    BY <1>1, LogStays DEF IInv
  <1>3. turn \in Nat /\ step \in Nat /\ turn <= MaxTurns /\ step <= MaxSteps
    BY PlaceIs
  <1>4. /\ turn # 0 /\ Seen(log).turn = turn /\ step # 0 /\ Seen(log).step = step
        /\ Asked(log, turn, step) = {} /\ request = <<>>
    BY <1>1 DEF IInv, PlaceInv, InStep
  <1>5. Input(turn, step) \in ToSet(disk)
    <2>1. PICK i \in 1..mark : i <= Len(log) /\ log[i] = Input(turn, step)
      BY <1>1 DEF IInv, PlaceInv
    <2>2. mark \in Nat
      BY DEF IInv, TypeOK
    <2>3. Len(disk) \in Nat /\ \A j \in 1..Len(disk) : log[j] = disk[j]
      BY LogIsSound DEF IInv
    <2>4. i \in 1..Len(disk) /\ DOMAIN disk = 1..Len(disk)
      BY <1>1, <2>2, <2>3, LenProperties DEF IInv, LogInv
    <2>5. disk[i] = Input(turn, step)
      BY <2>1, <2>3, <2>4
    <2> QED
      BY <2>4, <2>5 DEF ToSet
  <1>6. StepStart(turn, step) \in ToSet(disk)
    <2>1. Good(disk)
      BY LogIsSound DEF IInv
    <2>2. Input(turn, step).kind = "user/message" /\ Input(turn, step).turn = turn /\ Input(turn, step).step = step
      BY DEF Input
    <2> QED
      BY <1>5, <2>1, <2>2 DEF Good, StepsGood, InnerKinds
  <1>7. SentIsRecorded'
    <2>1. \A x \in sent' : x \in sent \/ x = <<turn, step>>
      BY <1>1
    <2>2. \A x \in sent' : {StepStart(x[1], x[2]), Input(x[1], x[2])} \subseteq ToSet(disk)
      <3> TAKE x \in sent'
      <3>1. CASE x \in sent
        BY <3>1 DEF IInv, SentIsRecorded
      <3>2. CASE x = <<turn, step>>
        <4>1. x[1] = turn /\ x[2] = step
          BY <3>2
        <4> QED
          BY <1>5, <1>6, <4>1
      <3> QED
        BY <2>1, <3>1, <3>2
    <2> QED
      BY <1>2, <2>2 DEF SentIsRecorded
  <1>8. RanIsRecorded'
    BY <1>1, <1>2, RecordsStay DEF IInv
  <1>9. TypeOK'
    <2>1. <<turn, step>> \in (1..MaxTurns) \X (1..MaxSteps)
      BY <1>3, <1>4, RecoveryAssumption
    <2>2. sent' \subseteq (1..MaxTurns) \X (1..MaxSteps)
      BY <1>1, <2>1 DEF IInv, TypeOK
    <2> QED
      BY <1>1, <2>2 DEF IInv, TypeOK, Phases
  <1>10. HonestOutcome'
    BY <1>1, <1>2 DEF IInv, HonestOutcome
  <1>11. PlaceInv'
    BY <1>1, <1>2, <1>4 DEF PlaceInv, InStep
  <1>12. PoolInv'
    BY <1>1 DEF PoolInv
  <1> QED
    BY <1>2, <1>7, <1>8, <1>9, <1>10, <1>11, <1>12 DEF IInv

-----------------------------------------------------------------------------
(* The pool. *)

\* The request being executed, and what a legal log knows of its step.
LEMMA PoolIs ==
    ASSUME IInv, pc = "tools"
    PROVE  /\ request \in Seq(Calls) /\ Len(request) \in Nat /\ DOMAIN request = 1..Len(request)
           /\ \A i, j \in 1..Len(request) : request[i] = request[j] => i = j
           /\ \A i \in 1..Len(request) : request[i] \in Calls /\ request[i] \in ToSet(request)
           /\ \A c \in ToSet(request) : c \in Calls /\ \E i \in 1..Len(request) : request[i] = c
           /\ turn \in Nat /\ step \in Nat /\ turn # 0 /\ step # 0
           /\ Seen(log).turn = turn /\ Seen(log).step = step
           /\ \E done, known \in 0..Len(request) : PoolAt(done, known)
           /\ \A c \in ToSet(request) : CallAt(c)
  <1>1. request \in Seq(Calls) /\ IsInjective(request)
    <2>1. CASE request \in Requests
      BY <2>1, RecoveryAssumption
    <2>2. CASE request = <<>>
      <3>1. <<>> \in Seq(Calls) /\ DOMAIN <<>> = {}
        BY EmptySeq, LenProperties
      <3> QED
        BY <2>2, <3>1 DEF IsInjective
    <2> QED
      BY <2>1, <2>2 DEF IInv, TypeOK
  <1>2. Len(request) \in Nat /\ DOMAIN request = 1..Len(request)
    BY <1>1, LenProperties
  <1>3. \A i, j \in 1..Len(request) : request[i] = request[j] => i = j
    BY <1>1, <1>2 DEF IsInjective
  <1>4. ToSet(request) = {request[i] : i \in 1..Len(request)} /\ ToSet(request) \subseteq Calls
    BY <1>1, ElementsOf
  <1>5. turn \in Nat /\ step \in Nat
    BY PlaceIs
  <1>6. turn # 0 /\ step # 0 /\ Seen(log).turn = turn /\ Seen(log).step = step
    BY DEF IInv, PlaceInv, InStep
  <1>7. /\ \E done, known \in 0..Len(request) : PoolAt(done, known)
        /\ \A c \in ToSet(request) : CallAt(c)
    BY DEF IInv, PoolInv
  <1> QED
    BY <1>1, <1>2, <1>3, <1>4, <1>5, <1>6, <1>7

\* A call that is under way is of the pool.
LEMMA PoolIsOpen ==
    ASSUME IInv, NEW c \in ToSet(request), call[c] \in {"recorded", "checkpoint", "running"}
    PROVE  pc = "tools"
  <1>1. request # <<>>
    <2>1. ToSet(<<>>) = {}
      BY EmptySeq, ElementsOf
    <2> QED
      BY <2>1
  <1> QED
    BY <1>1 DEF IInv, PlaceInv

\* An open call has no result yet, and is recorded when the pool knows it.
LEMMA OpenCall ==
    ASSUME IInv, pc = "tools", NEW done \in 0..Len(request), NEW known \in 0..Len(request),
           PoolAt(done, known), NEW i \in 1..Len(request), done < i
    PROVE  /\ i - done \in 1..Len(Seen(log).pending)
           /\ Seen(log).pending[i - done].call = request[i]
           /\ Seen(log).pending[i - done].recorded <=> i <= known
           /\ \A e \in ToSet(log) : e.kind = "tool/result" /\ e.turn = turn /\ e.step = step
                    => e.call # request[i]
           /\ i <= known <=> ToolCall(turn, step, request[i]) \in ToSet(log)
  <1> DEFINE p == Seen(log).pending
             left == [k \in 1..(Len(request) - done) |->
                        [call |-> request[done + k], turn |-> turn, step |-> step,
                         recorded |-> done + k <= known]]
  <1>1. Len(request) \in Nat /\ done \in Nat /\ known \in Nat /\ i \in Nat
    BY PoolIs
  <1>2. p = left
    BY DEF PoolAt
  <1>3. p \in Seq(Entry) /\ Len(p) \in Nat /\ DOMAIN p = 1..Len(p)
    <2>1. p \in Seq(Entry)
      BY PlaceIs DEF OpenState
    <2> QED
      BY <2>1, LenProperties
  <1>4. DOMAIN p = 1..(Len(request) - done)
    BY <1>2
  <1>5. Len(p) = Len(request) - done
    BY <1>1, <1>3, <1>4
  <1>6. i - done \in 1..(Len(request) - done) /\ done + (i - done) = i
    BY <1>1
  <1>7. left[i - done] = [call |-> request[i], turn |-> turn, step |-> step, recorded |-> i <= known]
    BY <1>6
  <1>8. p[i - done] = [call |-> request[i], turn |-> turn, step |-> step, recorded |-> i <= known]
    BY <1>2, <1>7
  <1> HIDE DEF p, left
  <1>9. /\ p[i - done].call = request[i] /\ p[i - done].turn = turn /\ p[i - done].step = step
        /\ p[i - done].recorded <=> i <= known
    <2>1. CASE i <= known
      <3>1. (i <= known) = TRUE
        BY <2>1
      <3>2. p[i - done] = [call |-> request[i], turn |-> turn, step |-> step, recorded |-> TRUE]
        BY <1>8, <3>1
      <3> QED
        BY <2>1, <3>2
    <2>2. CASE ~(i <= known)
      <3>1. (i <= known) = FALSE
        BY <2>2
      <3>2. p[i - done] = [call |-> request[i], turn |-> turn, step |-> step, recorded |-> FALSE]
        BY <1>8, <3>1
      <3> QED
        BY <2>2, <3>2
    <2> QED
      BY <2>1, <2>2
  <1>10. \A k \in 1..Len(p) :
            /\ p[k].recorded <=> ToolCall(p[k].turn, p[k].step, p[k].call) \in ToSet(log)
            /\ \A e \in ToSet(log) : e.kind = "tool/result" /\ e.turn = p[k].turn /\ e.step = p[k].step
                    => e.call # p[k].call
    BY PlaceIs DEF Good, PendingGood, p
  <1>11. i - done \in 1..Len(p)
    BY <1>5, <1>6
  <1> QED
    BY <1>9, <1>10, <1>11 DEF p

\* A step of one open call of the pool that writes nothing.
LEMMA MoveKeeps ==
    ASSUME IInv, pc = "tools", NEW c \in ToSet(request), NEW st \in {"checkpoint", "running", "settled"},
           call[c] \notin {"planned", "committed"}, call' = [call EXCEPT ![c] = st],
           UNCHANGED stored, UNCHANGED <<pc, turn, step, mark, request, aborted, sent, crashes>>,
           waits' \in [Calls -> Nat], outcome' \in [Calls -> Codes], failed' \in BOOLEAN,
           ran' \subseteq (1..MaxTurns) \X (1..MaxSteps) \X Calls,
           failed => failed',
           \A d \in ToSet(request) : d # c =>
                waits'[d] = waits[d] /\ outcome'[d] = outcome[d]
                /\ (<<turn, step, d>> \in ran' <=> <<turn, step, d>> \in ran),
           RanIsRecorded', HonestOutcome', CallAt(c)'
    PROVE  IInv'
  <1>1. log' = log /\ disk' = disk /\ LogInv' /\ ToSet(disk') = ToSet(disk)
    BY LogStays DEF IInv
  <1>2. c \in Calls /\ ToSet(request) \subseteq Calls
    BY PoolIs
  <1>3. call \in [Calls -> CallStates]
    BY DEF IInv, TypeOK
  <1>4. call' \in [Calls -> CallStates] /\ call'[c] = st /\ \A d \in Calls : d # c => call'[d] = call[d]
    <2>1. st \in CallStates
      BY DEF CallStates
    <2> QED
      BY <1>2, <1>3, <2>1
  <1>5. TypeOK'
    BY <1>4 DEF IInv, TypeOK
  <1>6. SentIsRecorded'
    BY <1>1 DEF IInv, SentIsRecorded
  <1>7. PlaceInv'
    BY <1>1 DEF IInv, PlaceInv, InStep
  <1>8. \E done, known \in 0..Len(request') : PoolAt(done, known)'
    <2>1. PICK done, known \in 0..Len(request) : PoolAt(done, known)
      BY PoolIs
    <2>2. \A i \in DOMAIN request :
            /\ call'[request[i]] = "committed" <=> i <= done
            /\ call'[request[i]] = "planned" <=> known < i
      <3>1. \A i \in DOMAIN request : /\ request[i] \in Calls
                                      /\ call[request[i]] = "committed" <=> i <= done
                                      /\ call[request[i]] = "planned" <=> known < i
        BY <2>1, PoolIs DEF PoolAt
      <3> QED
        BY <1>4, <3>1
    <2>3. PoolAt(done, known)'
      BY <1>1, <2>1, <2>2 DEF PoolAt
    <2> QED
      BY <2>3
  <1>9. \A d \in ToSet(request') : CallAt(d)'
    <2> SUFFICES ASSUME NEW d \in ToSet(request), d # c PROVE CallAt(d)'
      OBVIOUS
    <2>1. CallAt(d) /\ call'[d] = call[d] /\ waits'[d] = waits[d] /\ outcome'[d] = outcome[d]
          /\ (<<turn, step, d>> \in ran' <=> <<turn, step, d>> \in ran)
      BY <1>2, <1>4, PoolIs
    <2> QED
      BY <1>1, <2>1 DEF CallAt
  <1>10. PoolInv'
    BY <1>8, <1>9 DEF PoolInv
  <1> QED
    BY <1>1, <1>5, <1>6, <1>7, <1>10 DEF IInv

\* A call settles with a code that tells whether its body ran.
LEMMA SettlesKeeps ==
    ASSUME IInv, NEW c \in ToSet(request), NEW code \in {"ok", "refused", "aborted-before-dispatch"},
           Settles(c, code), call[c] \in {"recorded", "checkpoint", "running"},
           code = "ok" <=> call[c] = "running"
    PROVE  IInv'
  <1>1. pc = "tools"
    BY PoolIsOpen
  <1>2. /\ call' = [call EXCEPT ![c] = "settled"] /\ outcome' = [outcome EXCEPT ![c] = code]
        /\ UNCHANGED stored
        /\ UNCHANGED <<pc, turn, step, mark, request, waits, failed, ran, sent, aborted, crashes>>
    BY DEF Settles, control, history
  <1>3. log' = log /\ disk' = disk
    BY <1>2 DEF stored, log
  <1>4. c \in Calls /\ ToSet(request) \subseteq Calls /\ CallAt(c)
    BY <1>1, PoolIs
  <1>5. call \in [Calls -> CallStates] /\ outcome \in [Calls -> Codes] /\ waits \in [Calls -> Nat]
        /\ failed \in BOOLEAN /\ ran \subseteq (1..MaxTurns) \X (1..MaxSteps) \X Calls
    BY DEF IInv, TypeOK
  <1>6. outcome' \in [Calls -> Codes] /\ outcome'[c] = code /\ call'[c] = "settled"
        /\ \A d \in Calls : d # c => outcome'[d] = outcome[d]
    <2>1. code \in Codes
      BY DEF Codes
    <2> QED
      BY <1>2, <1>4, <1>5, <2>1
  <1>7. RanIsRecorded' /\ HonestOutcome'
    BY <1>2, <1>3 DEF IInv, RanIsRecorded, HonestOutcome
  <1>8. CallAt(c)'
    BY <1>2, <1>3, <1>4, <1>6 DEF CallAt
  <1> QED
    BY <1>1, <1>2, <1>4, <1>5, <1>6, <1>7, <1>8, MoveKeeps

LEMMA CallSettles ==
    ASSUME IInv, NEW c \in ToSet(request),
           HookAnswers(c) \/ AbortedBeforeDispatch(c) \/ CheckpointRejects(c) \/ BodySettles(c)
    PROVE  IInv'
  <1>1. CASE HookAnswers(c)
    BY <1>1, SettlesKeeps DEF HookAnswers
  <1>2. CASE AbortedBeforeDispatch(c)
    BY <1>2, SettlesKeeps DEF AbortedBeforeDispatch
  <1>3. CASE CheckpointRejects(c)
    BY <1>3, SettlesKeeps DEF CheckpointRejects
  <1>4. CASE BodySettles(c)
    BY <1>4, SettlesKeeps DEF BodySettles
  <1> QED
    BY <1>1, <1>2, <1>3, <1>4

LEMMA SchedulerThrowsKeeps ==
    ASSUME IInv, NEW c \in ToSet(request), SchedulerThrows(c)
    PROVE  IInv'
  <1>1. /\ pc = "tools" /\ call[c] \in {"recorded", "running", "settled"} /\ failed' = TRUE
        /\ call' = [call EXCEPT ![c] = "settled"] /\ UNCHANGED stored
        /\ UNCHANGED <<pc, turn, step, mark, request, waits, outcome, ran, sent, aborted, crashes>>
    BY DEF SchedulerThrows, control, history
  <1>2. log' = log /\ disk' = disk
    BY <1>1 DEF stored, log
  <1>3. c \in Calls /\ CallAt(c)
    BY <1>1, PoolIs
  <1>4. call \in [Calls -> CallStates] /\ outcome \in [Calls -> Codes] /\ waits \in [Calls -> Nat]
        /\ ran \subseteq (1..MaxTurns) \X (1..MaxSteps) \X Calls
    BY DEF IInv, TypeOK
  <1>5. call'[c] = "settled"
    BY <1>1, <1>3, <1>4
  <1>6. RanIsRecorded' /\ HonestOutcome'
    BY <1>1, <1>2 DEF IInv, RanIsRecorded, HonestOutcome
  <1>7. CallAt(c)'
    BY <1>1, <1>2, <1>3, <1>5 DEF CallAt
  <1> QED
    BY <1>1, <1>4, <1>6, <1>7, MoveKeeps

\* A recorded call goes on to its checkpoint: its record is in the log.
LEMMA DispatchedKeeps ==
    ASSUME IInv, NEW c \in ToSet(request), Dispatched(c)
    PROVE  IInv'
  <1>1. /\ call[c] = "recorded" /\ call' = [call EXCEPT ![c] = "checkpoint"]
        /\ waits' = [waits EXCEPT ![c] = Len(log)] /\ UNCHANGED stored
        /\ UNCHANGED <<pc, turn, step, mark, request, outcome, failed, ran, sent, aborted, crashes>>
    BY DEF Dispatched, control, history
  <1>2. pc = "tools"
    BY <1>1, PoolIsOpen
  <1>3. log' = log /\ disk' = disk
    BY <1>1 DEF stored, log
  <1>4. c \in Calls /\ ToSet(request) \subseteq Calls /\ CallAt(c)
    BY <1>2, PoolIs
  <1>5. call \in [Calls -> CallStates] /\ outcome \in [Calls -> Codes] /\ waits \in [Calls -> Nat]
        /\ failed \in BOOLEAN /\ ran \subseteq (1..MaxTurns) \X (1..MaxSteps) \X Calls
    BY DEF IInv, TypeOK
  <1>6. Len(log) \in Nat /\ log \in Seq(Event) /\ DOMAIN log = 1..Len(log)
    BY PlaceIs, LenProperties
  <1>7. /\ waits' \in [Calls -> Nat] /\ waits'[c] = Len(log) /\ call'[c] = "checkpoint"
        /\ \A d \in Calls : d # c => waits'[d] = waits[d]
    BY <1>1, <1>4, <1>5, <1>6
  <1>8. RanIsRecorded' /\ HonestOutcome'
    BY <1>1, <1>3 DEF IInv, RanIsRecorded, HonestOutcome
  <1>9. ToolCall(turn, step, c) \in ToSet(log)
    <2>1. PICK done, known \in 0..Len(request) : PoolAt(done, known)
      BY <1>2, PoolIs
    <2>2. PICK i \in 1..Len(request) : request[i] = c
      BY <1>2, PoolIs
    <2>3. done \in Nat /\ known \in Nat /\ i \in Nat /\ DOMAIN request = 1..Len(request)
      BY <1>2, PoolIs
    <2>4. ~(i <= done) /\ ~(known < i)
      BY <1>1, <2>1, <2>2, <2>3 DEF PoolAt
    <2>5. done < i /\ i <= known
      BY <2>3, <2>4
    <2> QED
      BY <1>2, <2>1, <2>2, <2>5, OpenCall
  <1>10. \E i \in 1..Len(log) : log[i] = ToolCall(turn, step, c)
    BY <1>6, <1>9, ElementsOf
  <1>11. CallAt(c)'
    <2>1. \E i \in 1..waits'[c] : i <= Len(log') /\ log'[i] = ToolCall(turn', step', c)
      BY <1>1, <1>3, <1>6, <1>7, <1>10
    <2>2. <<turn', step', c>> \notin ran'
      BY <1>1, <1>4 DEF CallAt
    <2>3. outcome'[c] \notin {"not-started", "outcome-unknown"}
      BY <1>1, <1>4 DEF CallAt
    <2> QED
      BY <1>7, <2>1, <2>2, <2>3 DEF CallAt
  <1> QED
    BY <1>1, <1>2, <1>4, <1>5, <1>7, <1>8, <1>11, MoveKeeps

\* The body starts: its call is stored and has no result yet.
LEMMA BodyStartsKeeps ==
    ASSUME IInv, NEW c \in ToSet(request), BodyStarts(c)
    PROVE  IInv'
  <1>1. /\ call[c] = "checkpoint" /\ waits[c] <= Len(disk) /\ call' = [call EXCEPT ![c] = "running"]
        /\ ran' = ran \union {<<turn, step, c>>} /\ UNCHANGED stored
        /\ UNCHANGED <<pc, turn, step, mark, request, waits, outcome, failed, sent, aborted, crashes>>
    BY DEF BodyStarts, Flushed, control
  <1>2. pc = "tools"
    BY <1>1, PoolIsOpen
  <1>3. log' = log /\ disk' = disk
    BY <1>1 DEF stored, log
  <1>4. /\ c \in Calls /\ ToSet(request) \subseteq Calls /\ CallAt(c)
        /\ turn \in Nat /\ step \in Nat /\ turn # 0 /\ step # 0
    BY <1>2, PoolIs
  <1>5. call \in [Calls -> CallStates] /\ outcome \in [Calls -> Codes] /\ waits \in [Calls -> Nat]
        /\ failed \in BOOLEAN /\ ran \subseteq (1..MaxTurns) \X (1..MaxSteps) \X Calls
    BY DEF IInv, TypeOK
  <1>6. call'[c] = "running"
    BY <1>1, <1>4, <1>5
  <1>7. ToolCall(turn, step, c) \in ToSet(disk)
    <2>1. PICK i \in 1..waits[c] : i <= Len(log) /\ log[i] = ToolCall(turn, step, c)
      BY <1>1, <1>4 DEF CallAt
    <2>2. Len(disk) \in Nat /\ waits[c] \in Nat /\ \A j \in 1..Len(disk) : log[j] = disk[j]
      BY <1>4, <1>5, LogIsSound DEF IInv
    <2>3. i \in 1..Len(disk) /\ disk[i] = ToolCall(turn, step, c)
      BY <1>1, <2>1, <2>2
    <2>4. disk \in Seq(Event)
      BY DEF IInv, LogInv
    <2> QED
      BY <2>3, <2>4, ElementsOf
  <1>8. RanIsRecorded'
    <2>1. \A x \in ran' : ToolCall(x[1], x[2], x[3]) \in ToSet(disk)
      <3> TAKE x \in ran'
      <3>1. CASE x \in ran
        BY <3>1 DEF IInv, RanIsRecorded
      <3>2. CASE x = <<turn, step, c>>
        BY <1>7, <3>2
      <3> QED
        BY <1>1, <3>1, <3>2
    <2> QED
      BY <1>3, <2>1 DEF RanIsRecorded
  <1>9. \A e \in ToSet(log) : e.kind = "tool/result" /\ e.turn = turn /\ e.step = step => e.call # c
    <2>1. PICK done, known \in 0..Len(request) : PoolAt(done, known)
      BY <1>2, PoolIs
    <2>2. PICK i \in 1..Len(request) : request[i] = c
      BY <1>2, PoolIs
    <2>3. done \in Nat /\ i \in Nat /\ DOMAIN request = 1..Len(request)
      BY <1>2, PoolIs
    <2>4. ~(i <= done)
      BY <1>1, <2>1, <2>2, <2>3 DEF PoolAt
    <2>5. done < i
      BY <2>3, <2>4
    <2> QED
      BY <1>2, <2>1, <2>2, <2>5, OpenCall
  <1>10. HonestOutcome'
    <2>1. \A e \in {f \in ToSet(log) : f.kind = "tool/result"} :
            <<e.turn, e.step, e.call>> \in ran' <=> <<e.turn, e.step, e.call>> \in ran
      BY <1>1, <1>9
    <2> QED
      BY <1>3, <2>1 DEF IInv, HonestOutcome
  <1>11. ran' \subseteq (1..MaxTurns) \X (1..MaxSteps) \X Calls
    <2>1. turn \in 1..MaxTurns /\ step \in 1..MaxSteps
      BY <1>4, PlaceIs
    <2> QED
      BY <1>1, <1>4, <1>5, <2>1
  <1>12. CallAt(c)'
    <2>1. <<turn', step', c>> \in ran' /\ outcome'[c] \notin {"not-started", "outcome-unknown"}
      BY <1>1, <1>4 DEF CallAt
    <2> QED
      BY <1>6, <2>1 DEF CallAt
  <1>13. \A d \in ToSet(request) : d # c => (<<turn, step, d>> \in ran' <=> <<turn, step, d>> \in ran)
    BY <1>1
  <1> QED
    BY <1>1, <1>2, <1>4, <1>5, <1>8, <1>10, <1>11, <1>12, <1>13, MoveKeeps

\* What the pool has planned: NextPlanned is the first call it does not know.
LEMMA NextIs ==
    ASSUME IInv, pc = "tools", NEW done \in 0..Len(request), NEW known \in 0..Len(request),
           PoolAt(done, known)
    PROVE  NextPlanned = known + 1
  <1>1. known \in Nat /\ Len(request) \in Nat /\ DOMAIN request = 1..Len(request)
    BY PoolIs
  <1>2. \A i \in DOMAIN request : call[request[i]] = "planned" <=> known < i
    BY DEF PoolAt
  <1>3. DOMAIN request \ InState({"planned"}) = 1..known
    BY <1>1, <1>2 DEF InState
  <1>4. Cardinality(1..known) = known
    BY <1>1, FS_Interval
  <1>5. Cardinality(DOMAIN request \ InState({"planned"})) = known
    BY <1>3, <1>4
  <1>6. NextPlanned = 1 + known
    BY <1>5 DEF NextPlanned
  <1> QED
    BY <1>1, <1>6

\* An entry becomes recorded.
LEMMA RecordedIs ==
    ASSUME NEW c, NEW t, NEW s, NEW r, r = [call |-> c, turn |-> t, step |-> s, recorded |-> FALSE]
    PROVE  [r EXCEPT !.recorded = TRUE] = [call |-> c, turn |-> t, step |-> s, recorded |-> TRUE]
  <1> DEFINE q == [r EXCEPT !.recorded = TRUE]
  <1>1. r \in [call : {c}, turn : {t}, step : {s}, recorded : BOOLEAN]
    OBVIOUS
  <1>2. /\ q \in [call : {c}, turn : {t}, step : {s}, recorded : BOOLEAN]
        /\ q.recorded = TRUE /\ q.call = c /\ q.turn = t /\ q.step = s
    BY <1>1
  <1> HIDE DEF q
  <1>3. q = [call |-> q.call, turn |-> q.turn, step |-> q.step, recorded |-> q.recorded]
    BY <1>2
  <1> QED
    BY <1>2, <1>3 DEF q

\* An interval from 1 knows its length.
LEMMA SameInterval == ASSUME NEW m \in Nat, NEW n \in Nat, 1..m = 1..n PROVE m = n
  <1>1. CASE m < n
    <2>1. n \in 1..n /\ n \notin 1..m
      BY <1>1
    <2> QED
      BY <2>1
  <1>2. CASE n < m
    <2>1. m \in 1..m /\ m \notin 1..n
      BY <1>2
    <2> QED
      BY <2>1
  <1> QED
    BY <1>1, <1>2

LEMMA CallRecordedKeeps == ASSUME IInv, CallRecorded PROVE IInv'
  <1> DEFINE c == request[NextPlanned]
             e == ToolCall(turn, step, c)
  <1>1. /\ pc = "tools" /\ NextPlanned <= Len(request) /\ Log(<<e>>)
        /\ call' = [call EXCEPT ![c] = "recorded"]
        /\ UNCHANGED <<pc, turn, step, mark, request, waits, outcome, failed, ran, sent, aborted, crashes>>
    BY DEF CallRecorded, control, history
  <1>2. PICK done, known \in 0..Len(request) : PoolAt(done, known)
    BY <1>1, PoolIs
  <1>3. /\ Len(request) \in Nat /\ done \in Nat /\ known \in Nat /\ done <= known
        /\ DOMAIN request = 1..Len(request) /\ request \in Seq(Calls)
        /\ turn \in Nat /\ step \in Nat /\ turn # 0 /\ step # 0
        /\ Seen(log).turn = turn /\ Seen(log).step = step
    BY <1>1, <1>2, PoolIs DEF PoolAt
  <1>4. NextPlanned = known + 1
    BY <1>1, <1>2, NextIs
  <1> DEFINE n == known + 1
  <1>5. n \in 1..Len(request) /\ c = request[n] /\ done < n /\ known < n
    BY <1>1, <1>3, <1>4
  <1>6. c \in Calls /\ c \in ToSet(request) /\ call[c] = "planned" /\ ToSet(request) \subseteq Calls
    BY <1>1, <1>2, <1>3, <1>5, PoolIs DEF PoolAt
  <1>7. /\ e \in Event /\ e.kind = "tool/call" /\ e.turn = turn /\ e.step = step /\ e.call = c
    <2>1. turn \in Nat /\ step \in Nat /\ c \in Calls
      BY <1>3, <1>6
    <2> HIDE DEF c
    <2>2. /\ ToolCall(turn, step, c) \in Event /\ ToolCall(turn, step, c).kind = "tool/call"
          /\ ToolCall(turn, step, c).turn = turn /\ ToolCall(turn, step, c).step = step
          /\ ToolCall(turn, step, c).call = c
      BY ONLY <2>1, EventTypes
    <2> QED
      BY <2>2
  <1> DEFINE p == Seen(log).pending
  <1>8. p \in Seq(Entry) /\ Len(p) \in Nat /\ DOMAIN p = 1..Len(p) /\ log \in Seq(Event) /\ Good(log)
    <2>1. p \in Seq(Entry) /\ log \in Seq(Event) /\ Good(log)
      BY PlaceIs DEF OpenState
    <2> QED
      BY <2>1, LenProperties
  <1>9. n - done \in 1..Len(p) /\ p[n - done].call = c /\ ~p[n - done].recorded
    BY <1>1, <1>2, <1>3, <1>5, OpenCall
  <1> HIDE DEF c, e, n
  <1>10. Follows(log, e)
    <2>1. \E q \in ToSet(p) : q.call = e.call /\ ~q.recorded
      BY <1>7, <1>8, <1>9 DEF ToSet
    <2> QED
      BY <1>3, <1>7, <2>1 DEF Follows
  <1>11. /\ log' = Append(log, e) /\ disk' = disk /\ LogInv' /\ ToSet(log') = ToSet(log) \union {e}
         /\ Len(log') = Len(log) + 1 /\ \A i \in 1..Len(log) : log'[i] = log[i]
    BY <1>1, <1>7, <1>10, AppendsOne DEF IInv
  <1> DEFINE q == Seen(log').pending
  <1>12. /\ Seen(log').turn = turn /\ Seen(log').step = step /\ q \in Seq(Entry) /\ Len(q) = Len(p)
         /\ \A i \in 1..Len(p) :
                q[i] = IF p[i].call = e.call THEN [p[i] EXCEPT !.recorded = TRUE] ELSE p[i]
    <2> DEFINE fs == Append(log, e)
    <2>1. /\ Seen(fs) \in OpenState /\ Seen(fs).turn = Seen(log).turn /\ Seen(fs).step = Seen(log).step
          /\ Len(Seen(fs).pending) = Len(p)
          /\ \A i \in 1..Len(p) :
                Seen(fs).pending[i] = IF p[i].call = e.call THEN [p[i] EXCEPT !.recorded = TRUE] ELSE p[i]
      BY <1>7, <1>8, <1>10, AfterIs
    <2>2. Seen(fs).pending \in Seq(Entry)
      BY <2>1 DEF OpenState
    <2>3. log' = fs
      BY <1>11
    <2> HIDE DEF fs, p
    <2> QED
      BY <1>3, <2>1, <2>2, <2>3
  <1>13. call \in [Calls -> CallStates]
    BY DEF IInv, TypeOK
  <1>14. call' \in [Calls -> CallStates] /\ call'[c] = "recorded" /\ \A d \in Calls : d # c => call'[d] = call[d]
    BY <1>1, <1>6, <1>13 DEF CallStates
  <1>15. TypeOK'
    BY <1>1, <1>14 DEF IInv, TypeOK
  <1>16. SentIsRecorded' /\ RanIsRecorded'
    BY <1>1, <1>11, RecordsStay DEF IInv
  <1>17. HonestOutcome'
    BY <1>1, <1>7, <1>11, QuietStays DEF IInv
  <1>18. PlaceInv'
    BY <1>1, <1>3, <1>12 DEF PlaceInv, InStep
  <1>19. PoolAt(done, n)'
    <2>1. \A i \in 1..Len(request) : request[i] = c <=> i = n
      BY <1>1, <1>5, PoolIs
    <2>2. \A i \in 1..Len(request) : /\ request[i] \in Calls
                                     /\ call[request[i]] = "committed" <=> i <= done
                                     /\ call[request[i]] = "planned" <=> known < i
      BY <1>1, <1>2, <1>3, PoolIs DEF PoolAt
    <2>3. \A i \in 1..Len(request) : /\ call'[request[i]] = "committed" <=> i <= done
                                     /\ call'[request[i]] = "planned" <=> n < i
      <3> TAKE i \in 1..Len(request)
      <3>1. CASE i = n
        BY <1>3, <1>5, <1>14, <2>1, <3>1 DEF n
      <3>2. CASE i # n
        <4>1. call'[request[i]] = call[request[i]]
          BY <1>14, <2>1, <2>2, <3>2
        <4>2. known < i <=> n < i
          BY <1>3, <3>2 DEF n
        <4> QED
          BY <2>2, <4>1, <4>2
      <3> QED
        BY <3>1, <3>2
    <2>4. p = [k \in 1..(Len(request) - done) |->
                [call |-> request[done + k], turn |-> turn, step |-> step, recorded |-> done + k <= known]]
      BY <1>2 DEF PoolAt
    <2>5. Len(p) = Len(request) - done /\ DOMAIN q = 1..(Len(request) - done)
      <3>1. DOMAIN p = 1..(Len(request) - done)
        BY <2>4
      <3>2. Len(p) = Len(request) - done
        <4>1. Len(p) \in Nat /\ Len(request) - done \in Nat /\ 1..Len(p) = 1..(Len(request) - done)
          BY <1>3, <1>8, <3>1
        <4> HIDE DEF p
        <4> QED
          BY ONLY <4>1, SameInterval
      <3> QED
        BY <1>12, <3>2, LenProperties
    <2>6. \A k \in 1..(Len(request) - done) :
            q[k] = [call |-> request[done + k], turn |-> turn, step |-> step, recorded |-> done + k <= n]
      <3> TAKE k \in 1..(Len(request) - done)
      <3> DEFINE r == p[k]
      <3>1. r = [call |-> request[done + k], turn |-> turn, step |-> step, recorded |-> done + k <= known]
        BY <2>4
      <3>2. q[k] = IF r.call = c THEN [r EXCEPT !.recorded = TRUE] ELSE r
        BY <1>7, <1>12, <2>5
      <3> HIDE DEF r, p, q
      <3>3. done + k \in 1..Len(request)
        BY <1>3
      <3>4. r.call = c <=> done + k = n
        BY <2>1, <3>1, <3>3
      <3>5. CASE done + k = n
        <4>1. [r EXCEPT !.recorded = TRUE]
                = [call |-> request[done + k], turn |-> turn, step |-> step, recorded |-> TRUE]
          <5>1. (done + k <= known) = FALSE
            BY <1>3, <3>5 DEF n
          <5>2. r = [call |-> request[done + k], turn |-> turn, step |-> step, recorded |-> FALSE]
            BY <3>1, <5>1
          <5> QED
            BY <5>2, RecordedIs
        <4>2. (done + k <= n) = TRUE
          BY <1>3, <3>5 DEF n
        <4> QED
          BY <3>2, <3>4, <3>5, <4>1, <4>2
      <3>6. CASE done + k # n
        <4>1. (done + k <= n) = (done + k <= known)
          BY <1>3, <3>6 DEF n
        <4> QED
          BY <3>1, <3>2, <3>4, <3>6, <4>1
      <3> QED
        BY <3>5, <3>6
    <2>7. q = [k \in 1..(Len(request) - done) |->
                [call |-> request[done + k], turn |-> turn, step |-> step, recorded |-> done + k <= n]]
      <3>1. q = [k \in 1..(Len(request) - done) |-> q[k]]
        <4>1. q \in Seq(Entry) /\ DOMAIN q = 1..(Len(request) - done)
          BY <1>12, <2>5
        <4> HIDE DEF q
        <4>2. q = [k \in DOMAIN q |-> q[k]]
          BY ONLY <4>1
        <4> QED
          BY <4>1, <4>2
      <3> HIDE DEF q
      <3> QED
        BY ONLY <2>6, <3>1
    <2>8. done <= n
      BY <1>3 DEF n
    <2> HIDE DEF p
    <2> QED
      BY <1>1, <1>3, <2>3, <2>7, <2>8 DEF PoolAt
  <1>20. \A d \in ToSet(request') : CallAt(d)'
    <2> SUFFICES ASSUME NEW d \in ToSet(request) PROVE CallAt(d)'
      BY <1>1
    <2>1. CallAt(d) /\ d \in Calls
      BY <1>1, PoolIs
    <2>2. CASE d = c
      BY <1>1, <1>6, <1>14, <2>1, <2>2 DEF CallAt
    <2>3. CASE d # c
      <3>1. call'[d] = call[d]
        BY <1>14, <2>1, <2>3
      <3>2. call[d] = "checkpoint" =>
                \E i \in 1..waits'[d] : i <= Len(log') /\ log'[i] = ToolCall(turn', step', d)
        <4> SUFFICES ASSUME call[d] = "checkpoint"
                     PROVE  \E i \in 1..waits'[d] : i <= Len(log') /\ log'[i] = ToolCall(turn', step', d)
          OBVIOUS
        <4>1. PICK i \in 1..waits[d] : i <= Len(log) /\ log[i] = ToolCall(turn, step, d)
          BY <2>1 DEF CallAt
        <4>2. waits[d] \in Nat /\ Len(log) \in Nat
          BY <1>8, <2>1, LenProperties DEF IInv, TypeOK
        <4>3. i \in 1..Len(log) /\ i <= Len(log')
          BY <1>11, <4>1, <4>2
        <4> QED
          BY <1>1, <1>11, <4>1, <4>3
      <3> QED
        BY <1>1, <2>1, <3>1, <3>2 DEF CallAt
    <2> QED
      BY <2>2, <2>3
  <1>21. PoolInv'
    BY <1>1, <1>3, <1>5, <1>19, <1>20 DEF PoolInv
  <1> QED
    BY <1>11, <1>15, <1>16, <1>17, <1>18, <1>21 DEF IInv

\* The first uncommitted call has settled: its result joins the log.
LEMMA ResultCommittedKeeps ==
    ASSUME IInv, NEW i \in DOMAIN request, ResultCommitted(i)
    PROVE  IInv'
  <1> DEFINE c == request[i]
             e == ToolResult(turn, step, c, outcome[c])
             p == Seen(log).pending
  <1>1. /\ pc = "tools" /\ ~failed /\ call[c] = "settled" /\ Log(<<e>>)
        /\ \A j \in 1..(i - 1) : call[request[j]] = "committed"
        /\ call' = [call EXCEPT ![c] = "committed"]
        /\ UNCHANGED <<pc, turn, step, mark, request, waits, outcome, failed, ran, sent, aborted, crashes>>
    BY DEF ResultCommitted, control, history
  <1>2. PICK done, known \in 0..Len(request) : PoolAt(done, known)
    BY <1>1, PoolIs
  <1>3. /\ Len(request) \in Nat /\ done \in Nat /\ known \in Nat /\ done <= known
        /\ DOMAIN request = 1..Len(request) /\ request \in Seq(Calls)
        /\ turn \in Nat /\ step \in Nat /\ turn # 0 /\ step # 0
        /\ Seen(log).turn = turn /\ Seen(log).step = step
    BY <1>1, <1>2, PoolIs DEF PoolAt
  <1>4. \A j \in 1..Len(request) : /\ request[j] \in Calls
                                   /\ call[request[j]] = "committed" <=> j <= done
                                   /\ call[request[j]] = "planned" <=> known < j
    BY <1>1, <1>2, <1>3, PoolIs DEF PoolAt
  <1>5. i = done + 1 /\ i <= known /\ i \in 1..Len(request)
    <2>1. i \in 1..Len(request) /\ ~(i <= done) /\ ~(known < i)
      BY <1>1, <1>3, <1>4
    <2>2. i = 1 \/ i - 1 <= done
      <3> SUFFICES ASSUME i # 1 PROVE i - 1 <= done
        OBVIOUS
      <3>1. i - 1 \in 1..(i - 1) /\ i - 1 \in 1..Len(request)
        BY <1>3, <2>1
      <3> QED
        BY <1>1, <1>4, <3>1
    <2> QED
      BY <1>3, <2>1, <2>2
  <1>6. c \in Calls /\ c \in ToSet(request) /\ ToSet(request) \subseteq Calls /\ CallAt(c)
    BY <1>1, <1>5, PoolIs
  <1>7. call \in [Calls -> CallStates] /\ outcome \in [Calls -> Codes]
    BY DEF IInv, TypeOK
  <1>8. /\ outcome[c] \notin {"not-started", "outcome-unknown"}
        /\ outcome[c] = "ok" <=> <<turn, step, c>> \in ran
    BY <1>1, <1>6 DEF CallAt
  <1>9. /\ e \in Event /\ e.kind = "tool/result" /\ e.turn = turn /\ e.step = step /\ e.call = c
        /\ e.code = outcome[c]
    <2> DEFINE k == outcome[c]
               d == ToolResult(turn, step, c, k)
    <2>1. turn \in Nat /\ step \in Nat /\ c \in Calls /\ k \in Codes
      BY <1>3, <1>6, <1>7
    <2> HIDE DEF c, k
    <2>2. /\ d \in Event /\ d.kind = "tool/result" /\ d.turn = turn /\ d.step = step /\ d.call = c
          /\ d.code = k
      BY <2>1, ToolEvents
    <2> QED
      BY <2>2 DEF k
  <1>10. p \in Seq(Entry) /\ Len(p) \in Nat /\ DOMAIN p = 1..Len(p) /\ log \in Seq(Event) /\ Good(log)
    <2>1. p \in Seq(Entry) /\ log \in Seq(Event) /\ Good(log)
      BY PlaceIs DEF OpenState
    <2> QED
      BY <2>1, LenProperties
  <1>11. i - done \in 1..Len(p) /\ p[i - done].call = c /\ p[i - done].recorded
    <2>1. pc = "tools" /\ i \in 1..Len(request) /\ done < i
      BY <1>1, <1>3, <1>5
    <2>2. /\ i - done \in 1..Len(Seen(log).pending)
          /\ Seen(log).pending[i - done].call = request[i]
          /\ Seen(log).pending[i - done].recorded <=> i <= known
      <3>1. IInv
        OBVIOUS
      <3> QED
        BY ONLY <1>2, <2>1, <3>1, OpenCall
    <2> QED
      BY <1>5, <2>2
  <1>12. 1 \in 1..Len(p) /\ p[1].call = c /\ p[1].recorded
    <2>1. i - done = 1
      BY <1>3, <1>5
    <2> QED
      BY <1>11, <2>1
  <1> HIDE DEF c, e, p
  <1>13. p # <<>> /\ Head(p) = p[1]
    BY <1>10, <1>12, EmptySeq
  <1>14. Follows(log, e)
    BY <1>3, <1>8, <1>9, <1>12, <1>13 DEF Follows, p
  <1>15. /\ log' = Append(log, e) /\ disk' = disk /\ LogInv' /\ ToSet(log') = ToSet(log) \union {e}
         /\ Len(log') = Len(log) + 1 /\ \A j \in 1..Len(log) : log'[j] = log[j]
    BY <1>1, <1>9, <1>14, AppendsOne DEF IInv, c, e
  <1>16. Seen(log') = [turn |-> turn, step |-> step, pending |-> Tail(p)]
    BY <1>3, <1>9, <1>10, <1>14, <1>15, AfterIs DEF p
  <1>17. call' \in [Calls -> CallStates] /\ call'[c] = "committed"
         /\ \A d \in Calls : d # c => call'[d] = call[d]
    BY <1>1, <1>6, <1>7 DEF CallStates, c
  <1>18. TypeOK'
    BY <1>1, <1>17 DEF IInv, TypeOK
  <1>19. SentIsRecorded' /\ RanIsRecorded'
    BY <1>1, <1>15, RecordsStay DEF IInv
  <1>20. HonestOutcome'
    <2>1. IF <<e.turn, e.step, e.call>> \in ran THEN e.code \in {"ok", "outcome-unknown"} ELSE e.code # "ok"
      BY <1>8, <1>9
    <2>2. \A d \in {e} : d.kind = "tool/result" =>
            IF <<d.turn, d.step, d.call>> \in ran THEN d.code \in {"ok", "outcome-unknown"} ELSE d.code # "ok"
      BY <2>1
    <2>3. ToSet(log') \subseteq ToSet(log) \union {e}
      BY <1>15
    <2> QED
      BY <1>1, <2>2, <2>3, HonestStays DEF IInv
  <1>21. PlaceInv'
    BY <1>1, <1>3, <1>16 DEF PlaceInv, InStep
  <1>22. PoolAt(i, known)'
    <2>1. \A j \in 1..Len(request) : request[j] = c <=> j = i
      BY <1>1, <1>5, PoolIs DEF c
    <2>2. \A j \in 1..Len(request) : /\ call'[request[j]] = "committed" <=> j <= i
                                     /\ call'[request[j]] = "planned" <=> known < j
      <3> TAKE j \in 1..Len(request)
      <3>1. CASE j = i
        BY <1>3, <1>5, <1>17, <2>1, <3>1
      <3>2. CASE j # i
        <4>1. call'[request[j]] = call[request[j]]
          BY <1>4, <1>17, <2>1, <3>2
        <4>2. j <= done <=> j <= i
          BY <1>3, <1>5, <3>2
        <4> QED
          BY <1>4, <4>1, <4>2
      <3> QED
        BY <3>1, <3>2
    <2>3. p = [k \in 1..(Len(request) - done) |->
                [call |-> request[done + k], turn |-> turn, step |-> step, recorded |-> done + k <= known]]
      BY <1>2 DEF PoolAt, p
    <2>4. Len(p) = Len(request) - done
      <3> DEFINE m == Len(p)
                 n == Len(request)
      <3>1. DOMAIN p = 1..(n - done)
        BY <2>3
      <3>2. m \in Nat /\ n \in Nat /\ done \in 0..n /\ 1..m = 1..(n - done)
        BY <1>3, <1>10, <3>1
      <3> HIDE DEF m, n
      <3>3. m = n - done
        BY <3>2
      <3> QED
        BY <3>3 DEF m, n
    <2>5. Tail(p) \in Seq(Entry) /\ Len(Tail(p)) = Len(request) - i /\ DOMAIN Tail(p) = 1..(Len(request) - i)
          /\ \A k \in 1..(Len(request) - i) : Tail(p)[k] = p[k + 1]
      <3>1. Tail(p) \in Seq(Entry) /\ Len(Tail(p)) = Len(p) - 1
            /\ \A k \in 1..Len(Tail(p)) : Tail(p)[k] = p[k + 1]
        BY <1>10, <1>13, HeadTailProperties
      <3>2. Len(Tail(p)) = Len(request) - i
        <4> DEFINE m == Len(p)
                   n == Len(request)
                   l == Len(Tail(p))
        <4>1. m = n - done /\ l = m - 1 /\ n \in Nat /\ done \in Nat /\ i = done + 1
          BY <1>3, <1>5, <2>4, <3>1
        <4> HIDE DEF m, n, l
        <4>2. l = n - i
          BY <4>1
        <4> QED
          BY <4>2 DEF l, n
      <3> QED
        BY <3>1, <3>2, LenProperties
    <2>6. \A k \in 1..(Len(request) - i) :
            Tail(p)[k] = [call |-> request[i + k], turn |-> turn, step |-> step, recorded |-> i + k <= known]
      <3> TAKE k \in 1..(Len(request) - i)
      <3>1. k + 1 \in 1..(Len(request) - done) /\ done + (k + 1) = i + k
        BY <1>3, <1>5
      <3> QED
        BY <2>3, <2>5, <3>1
    <2>7. Tail(p) = [k \in 1..(Len(request) - i) |->
                [call |-> request[i + k], turn |-> turn, step |-> step, recorded |-> i + k <= known]]
      <3> DEFINE q == Tail(p)
      <3>1. q \in Seq(Entry) /\ DOMAIN q = 1..(Len(request) - i)
            /\ \A k \in 1..(Len(request) - i) :
                 q[k] = [call |-> request[i + k], turn |-> turn, step |-> step, recorded |-> i + k <= known]
        BY <2>5, <2>6
      <3> HIDE DEF q
      <3>2. q = [k \in 1..(Len(request) - i) |->
                [call |-> request[i + k], turn |-> turn, step |-> step, recorded |-> i + k <= known]]
        BY <3>1
      <3> QED
        BY <3>2 DEF q
    <2>8. Seen(log').pending = Tail(p)
      BY <1>16
    <2> QED
      BY <1>1, <1>3, <1>5, <2>2, <2>7, <2>8 DEF PoolAt
  <1>23. \A d \in ToSet(request') : CallAt(d)'
    <2> SUFFICES ASSUME NEW d \in ToSet(request) PROVE CallAt(d)'
      BY <1>1
    <2>1. CallAt(d) /\ d \in Calls
      BY <1>1, PoolIs
    <2>2. CASE d = c
      BY <1>1, <1>17, <2>1, <2>2 DEF CallAt
    <2>3. CASE d # c
      <3>1. call'[d] = call[d]
        BY <1>17, <2>1, <2>3
      <3>2. call[d] = "checkpoint" =>
                \E j \in 1..waits'[d] : j <= Len(log') /\ log'[j] = ToolCall(turn', step', d)
        <4> SUFFICES ASSUME call[d] = "checkpoint"
                     PROVE  \E j \in 1..waits'[d] : j <= Len(log') /\ log'[j] = ToolCall(turn', step', d)
          OBVIOUS
        <4>1. PICK j \in 1..waits[d] : j <= Len(log) /\ log[j] = ToolCall(turn, step, d)
          BY <2>1 DEF CallAt
        <4>2. waits[d] \in Nat /\ Len(log) \in Nat
          BY <1>10, <2>1, LenProperties DEF IInv, TypeOK
        <4>3. j \in 1..Len(log) /\ j <= Len(log')
          BY <1>15, <4>1, <4>2
        <4> QED
          BY <1>1, <1>15, <4>1, <4>3
      <3> QED
        BY <1>1, <2>1, <3>1, <3>2 DEF CallAt
    <2> QED
      BY <2>2, <2>3
  <1>24. PoolInv'
    BY <1>1, <1>3, <1>5, <1>22, <1>23 DEF PoolInv
  <1> QED
    BY <1>15, <1>18, <1>19, <1>20, <1>21, <1>24 DEF IInv

\* The end of a step: what it leaves open is answered, and the driver is between steps.
LEMMA StepEndKeeps ==
    ASSUME IInv, pc \in InStep, pc' = "stepped", NEW fs \in Seq(Event), Legal(log \o fs),
           Follows(log \o fs, StepEnd(turn, step)), Log(fs \o <<StepEnd(turn, step)>>),
           \A e \in ToSet(fs) : e.kind = "tool/result" =>
                IF <<e.turn, e.step, e.call>> \in ran THEN e.code \in {"ok", "outcome-unknown"}
                                                      ELSE e.code # "ok",
           UNCHANGED <<turn, step, mark, ran, sent, aborted, crashes>>, TypeOK',
           \A c \in ToSet(request') : call'[c] \in {"planned", "settled", "committed"}
    PROVE  IInv'
  <1>1. turn \in Nat /\ step \in Nat /\ turn <= MaxTurns
    BY PlaceIs
  <1>2. /\ disk' = disk /\ LogInv' /\ turn # 0
        /\ ToSet(log') = ToSet(log) \union (ToSet(fs) \union {StepEnd(turn, step)})
        /\ Seen(log') = [turn |-> turn, step |-> 0, pending |-> <<>>]
        /\ Closed(log', turn) = step
    BY <1>1, AppendsEnd DEF IInv
  <1>3. SentIsRecorded' /\ RanIsRecorded'
    BY <1>2, RecordsStay DEF IInv
  <1>4. HonestOutcome'
    <2> DEFINE end == StepEnd(turn, step)
    <2>1. end.kind = "step/end"
      BY <1>1, EventTypes
    <2> HIDE DEF end
    <2>2. \A e \in ToSet(fs) \union {end} : e.kind = "tool/result" =>
            IF <<e.turn, e.step, e.call>> \in ran THEN e.code \in {"ok", "outcome-unknown"} ELSE e.code # "ok"
      BY <2>1
    <2>3. ToSet(log') \subseteq ToSet(log) \union (ToSet(fs) \union {end})
      BY <1>2 DEF end
    <2> QED
      BY <2>2, <2>3, HonestStays DEF IInv
  <1>5. PlaceInv'
    BY <1>2 DEF PlaceInv, InStep
  <1>6. PoolInv'
    BY DEF PoolInv
  <1> QED
    BY <1>2, <1>3, <1>4, <1>5, <1>6 DEF IInv

LEMMA StepThrowsKeeps == ASSUME IInv, StepThrows PROVE IInv'
  <1> DEFINE rs == Results(Seen(log))
  <1>1. /\ pc \in InStep /\ Log(rs \o <<StepEnd(turn, step)>>) /\ failed' = TRUE /\ pc' = "stepped"
        /\ UNCHANGED <<turn, step, mark, request, call, waits, outcome, ran, sent, aborted, crashes>>
    BY DEF StepThrows, InStep, history
  <1>2. log \in Seq(Event) /\ Legal(log)
    BY PlaceIs DEF IInv, LogInv
  <1>3. Seen(log).turn = turn /\ Seen(log).step = step /\ step # 0
    BY <1>1 DEF IInv, PlaceInv, InStep
  <1>4. rs \in Seq(Event) /\ Legal(log \o rs) /\ Follows(log \o rs, StepEnd(turn, step))
    BY <1>2, <1>3, ResultsRun
  <1>5. \A e \in ToSet(rs) : e.kind = "tool/result" =>
            IF <<e.turn, e.step, e.call>> \in ran THEN e.code \in {"ok", "outcome-unknown"} ELSE e.code # "ok"
    BY AnswersAreHonest DEF IInv
  <1>6. \A c \in ToSet(request') : call'[c] \in {"planned", "settled", "committed"}
    <2>1. CASE pc = "tools"
      <3>1. \A c \in ToSet(request) : c \in Calls
        BY <2>1, PoolIs
      <3>2. \A c \in Calls : call[c] \in CallStates /\ call[c] \notin {"recorded", "checkpoint", "running"}
        BY <2>1 DEF StepThrows, IInv, TypeOK
      <3> QED
        BY <1>1, <3>1, <3>2 DEF CallStates
    <2>2. CASE pc # "tools"
      <3>1. request = <<>>
        BY <1>1, <2>2 DEF IInv, PlaceInv, InStep
      <3>2. ToSet(<<>>) = {}
        BY EmptySeq, ElementsOf
      <3> QED
        BY <1>1, <3>1, <3>2
    <2> QED
      BY <2>1, <2>2
  <1>7. TypeOK'
    BY <1>1 DEF IInv, TypeOK, Phases
  <1> HIDE DEF rs
  <1> QED
    BY <1>1, <1>4, <1>5, <1>6, <1>7, StepEndKeeps

\* Every call is answered; the calls never started are skipped.
LEMMA ToolsFinishKeeps == ASSUME IInv, ToolsFinish PROVE IInv'
  <1> DEFINE rest == SubSeq(request, NextPlanned, Len(request))
             fs == Skipped(rest)
             p == Seen(log).pending
  <1>1. /\ pc = "tools" /\ InState({"recorded", "checkpoint", "running", "settled"}) = {}
        /\ Log(fs \o <<StepEnd(turn, step)>>) /\ pc' = "stepped"
        /\ UNCHANGED <<turn, step, mark, request, call, waits, outcome, failed, ran, sent, aborted, crashes>>
    BY DEF ToolsFinish, tools, history
  <1>2. PICK done, known \in 0..Len(request) : PoolAt(done, known)
    BY <1>1, PoolIs
  <1> DEFINE n == Len(request)
  <1>3. /\ n \in Nat /\ done \in 0..n /\ known \in 0..n /\ done <= known
        /\ DOMAIN request = 1..n /\ request \in Seq(Calls)
        /\ turn \in Nat /\ step \in Nat /\ turn # 0 /\ step # 0
        /\ Seen(log).turn = turn /\ Seen(log).step = step
    BY <1>1, <1>2, PoolIs DEF PoolAt
  <1>4. \A j \in 1..n : /\ request[j] \in Calls
                        /\ call[request[j]] = "committed" <=> j <= done
                        /\ call[request[j]] = "planned" <=> known < j
    BY <1>1, <1>2, <1>3, PoolIs DEF PoolAt
  <1>5. \A j \in 1..n : call[request[j]] \in {"planned", "committed"}
    <2>1. call \in [Calls -> CallStates]
      BY DEF IInv, TypeOK
    <2> QED
      BY <1>1, <1>3, <1>4, <2>1 DEF InState, CallStates
  <1>6. done = known
    <2> SUFFICES ASSUME done # known PROVE FALSE
      OBVIOUS
    <2>1. known \in 1..n /\ ~(known <= done) /\ ~(known < known)
      BY <1>3
    <2> QED
      BY <1>4, <1>5, <2>1
  <1>7. NextPlanned = known + 1
    BY <1>1, <1>2, NextIs
  <1>8. /\ rest \in Seq(Calls) /\ Len(rest) = n - known
        /\ \A k \in 1..(n - known) : rest[k] = request[known + k]
    <2>1. known + 1 \in 1..(n + 1)
      BY <1>3
    <2>2. /\ SubSeq(request, known + 1, n) \in Seq(Calls)
          /\ Len(SubSeq(request, known + 1, n)) = IF known + 1 <= n THEN n - (known + 1) + 1 ELSE 0
          /\ \A k \in 1..(n - (known + 1) + 1) : SubSeq(request, known + 1, n)[k] = request[known + 1 + k - 1]
      BY <1>3, <2>1, SubSeqProperties
    <2>3. n - (known + 1) + 1 = n - known /\ (IF known + 1 <= n THEN n - (known + 1) + 1 ELSE 0) = n - known
      <3>1. n \in Nat /\ known \in 0..n
        BY <1>3
      <3> HIDE DEF n
      <3>2. n - (known + 1) + 1 = n - known
        BY <3>1
      <3>3. ~(known + 1 <= n) => n - known = 0
        BY <3>1
      <3> QED
        BY <3>2, <3>3
    <2>4. \A k \in 1..(n - known) : known + 1 + k - 1 = known + k
      BY <1>3
    <2>5. rest = SubSeq(request, known + 1, n)
      BY <1>7
    <2> HIDE DEF rest, n
    <2> QED
      BY <2>2, <2>3, <2>4, <2>5
  <1>9. log \in Seq(Event) /\ Legal(log)
    BY PlaceIs DEF IInv, LogInv
  <1>10. Len(p) = Len(rest) /\ \A k \in 1..Len(rest) : p[k].call = rest[k] /\ ~p[k].recorded
    <2>1. p \in Seq(Entry) /\ DOMAIN p = 1..Len(p) /\ Len(p) \in Nat
      <3>1. p \in Seq(Entry)
        BY PlaceIs DEF OpenState
      <3> QED
        BY <3>1, LenProperties
    <2>2. DOMAIN p = 1..(n - done)
      BY <1>2 DEF PoolAt
    <2>3. Len(p) = n - known
      <3> DEFINE m == Len(p)
      <3>1. m \in Nat /\ 1..m = 1..(n - done)
        BY <2>1, <2>2
      <3> HIDE DEF m, n
      <3>2. m = n - known
        BY <1>3, <1>6, <3>1
      <3> QED
        BY <3>2 DEF m
    <2>4. ASSUME NEW k \in 1..(n - known) PROVE p[k].call = request[known + k] /\ ~p[k].recorded
      <3>1. known + k \in 1..n /\ known < known + k /\ (known + k) - done = k /\ ~(known + k <= known)
        BY <1>3, <1>6
      <3> DEFINE j == known + k
      <3>2. j \in 1..n /\ done < j /\ j - done = k /\ ~(j <= known)
        BY <1>6, <3>1
      <3> HIDE DEF j
      <3>3. p[j - done].call = request[j] /\ (p[j - done].recorded <=> j <= known)
        BY <1>1, <1>2, <1>3, <3>2, OpenCall
      <3> QED
        BY <3>2, <3>3 DEF j
    <2> HIDE DEF p, rest, n
    <2> QED
      BY <1>8, <2>3, <2>4
  <1> HIDE DEF rest, n
  <1>11. /\ log \o fs \in Seq(Event) /\ Legal(log \o fs)
         /\ Seen(log \o fs).turn = turn /\ Seen(log \o fs).step = step /\ Seen(log \o fs).pending = <<>>
    BY <1>3, <1>8, <1>9, <1>10, SkippedRun
  <1>12. /\ fs \in Seq(Event)
         /\ \A e \in ToSet(fs) : e.kind = "tool/result" =>
                e.turn = turn /\ e.step = step /\ e.call \in ToSet(rest) /\ e.code = "aborted-before-dispatch"
    BY <1>3, <1>8, SkippedAre
  <1> HIDE DEF fs
  <1>13. Follows(log \o fs, StepEnd(turn, step))
    <2> DEFINE e == StepEnd(turn, step)
    <2>1. e \in Event /\ e.kind = "step/end" /\ e.turn = turn /\ e.step = step
      BY <1>3, EventTypes
    <2> HIDE DEF e
    <2>2. Follows(log \o fs, e)
      BY <1>3, <1>11, <2>1 DEF Follows
    <2> QED
      BY <2>2 DEF e
  <1>14. \A c \in ToSet(rest) : <<turn, step, c>> \notin ran
    <2>1. ToSet(rest) = {rest[k] : k \in 1..Len(rest)}
      BY <1>8, ElementsOf
    <2>2. \A k \in 1..(n - known) : known + k \in 1..n /\ known < known + k
      BY <1>3
    <2>3. \A c \in ToSet(rest) : \E j \in 1..n : c = request[j] /\ known < j
      BY <1>8, <2>1, <2>2
    <2>4. \A c \in ToSet(rest) : c \in ToSet(request) /\ call[c] = "planned"
      BY <1>1, <1>4, <2>3, PoolIs DEF n
    <2>5. \A c \in ToSet(request) : call[c] = "planned" => <<turn, step, c>> \notin ran
      BY <1>1, PoolIs DEF CallAt
    <2> QED
      BY <2>4, <2>5
  <1>15. \A e \in ToSet(fs) : e.kind = "tool/result" =>
            IF <<e.turn, e.step, e.call>> \in ran THEN e.code \in {"ok", "outcome-unknown"} ELSE e.code # "ok"
    BY <1>12, <1>14
  <1>16. \A c \in ToSet(request') : call'[c] \in {"planned", "settled", "committed"}
    <2>1. \A c \in ToSet(request) : \E j \in 1..n : request[j] = c
      BY <1>1, PoolIs DEF n
    <2> QED
      BY <1>1, <1>5, <2>1
  <1>17. TypeOK'
    BY <1>1 DEF IInv, TypeOK, Phases
  <1>18. pc \in InStep
    BY <1>1 DEF InStep
  <1> QED
    BY <1>1, <1>11, <1>12, <1>13, <1>15, <1>16, <1>17, <1>18, StepEndKeeps

\* Nothing of a step that has not asked yet has run: a recorded call has its request.
LEMMA NothingRan ==
    ASSUME IInv, Asked(log, turn, step) = {}
    PROVE  \A c : <<turn, step, c>> \notin ran
  <1> SUFFICES ASSUME NEW c, <<turn, step, c>> \in ran PROVE FALSE
    OBVIOUS
  <1> DEFINE e == ToolCall(turn, step, c)
  <1>1. e \in ToSet(log)
    BY LogIsSound DEF IInv, RanIsRecorded
  <1>2. e.kind = "tool/call" /\ e.turn = turn /\ e.step = step
    BY DEF ToolCall
  <1> HIDE DEF e
  <1>3. Asked(log, e.turn, e.step) # {}
    BY <1>1, <1>2, PlaceIs DEF Good, StepsGood
  <1> QED
    BY <1>2, <1>3

\* The reply without calls ends the step, in the same append.
LEMMA ReplyEndsKeeps == ASSUME IInv, ReplyArrives(<<>>), <<>> \in Requests PROVE IInv'
  <1> DEFINE e == Assistant(turn, step, <<>>)
             es == Append(log, e)
             fs == <<e>>
  <1>1. /\ pc = "streaming" /\ Log(<<e>> \o <<StepEnd(turn, step)>>) /\ pc' = "stepped"
        /\ request' = <<>> /\ call' = Resting /\ waits' = NoMarks /\ outcome' = NoCodes
        /\ UNCHANGED <<turn, step, mark, failed, ran, sent, aborted, crashes>>
    BY DEF ReplyArrives, history
  <1>2. turn \in Nat /\ step \in Nat /\ log \in Seq(Event) /\ Good(log) /\ Legal(log)
    BY PlaceIs DEF IInv, LogInv
  <1>3. /\ turn # 0 /\ Seen(log).turn = turn /\ step # 0 /\ Seen(log).step = step
        /\ Asked(log, turn, step) = {}
    BY <1>1 DEF IInv, PlaceInv, InStep
  <1>4. e \in Event /\ e.kind = "assistant/message" /\ e.turn = turn /\ e.step = step /\ e.calls = <<>>
    BY <1>2, EventTypes
  <1> HIDE DEF e
  <1>5. Follows(log, e)
    BY <1>3, <1>4 DEF Follows
  <1>6. fs \in Seq(Event) /\ log \o fs = es /\ es \in Seq(Event) /\ Legal(es) /\ ToSet(fs) = {e}
    <2>1. fs \in Seq(Event) /\ ToSet(fs) = {e}
      <3>1. fs \in Seq(Event) /\ DOMAIN fs = {1} /\ fs[1] = e
        BY <1>4
      <3> HIDE DEF fs
      <3> QED
        BY <3>1 DEF ToSet
    <2>2. log \o fs = es /\ es \in Seq(Event)
      BY <1>2, <1>4, AppendIsConcat, AppendProperties
    <2> QED
      BY <1>2, <1>4, <1>5, <2>1, <2>2, LegalAppend
  <1>7. Seen(es) = [turn |-> turn, step |-> step, pending |-> <<>>]
    <2>1. Seen(es) = [turn |-> turn, step |-> step, pending |-> Pending(e)]
      BY <1>2, <1>3, <1>4, <1>5, AfterIs
    <2>2. Pending(e) \in Seq(Entry) /\ Len(Pending(e)) = 0
      BY <1>4, PendingIs, EmptySeq
    <2>3. Pending(e) = <<>>
      BY <2>2, EmptySeq
    <2> QED
      BY <2>1, <2>3
  <1>8. Follows(es, StepEnd(turn, step))
    <2> DEFINE d == StepEnd(turn, step)
    <2>1. d \in Event /\ d.kind = "step/end" /\ d.turn = turn /\ d.step = step
      BY <1>2, EventTypes
    <2> HIDE DEF d, es
    <2>2. Follows(es, d)
      BY <1>3, <1>7, <2>1 DEF Follows
    <2> QED
      BY <2>2 DEF d
  <1>9. TypeOK'
    BY <1>1 DEF IInv, TypeOK, Phases, Resting, NoMarks, NoCodes, CallStates, Codes
  <1>10. ToSet(request') = {}
    BY <1>1, EmptySeq, ElementsOf
  <1>11. pc \in InStep
    BY <1>1 DEF InStep
  <1>12. Log(fs \o <<StepEnd(turn, step)>>)
    BY <1>1
  <1> HIDE DEF es, fs
  <1>13. \A d \in ToSet(fs) : d.kind = "tool/result" =>
            IF <<d.turn, d.step, d.call>> \in ran THEN d.code \in {"ok", "outcome-unknown"} ELSE d.code # "ok"
    BY <1>4, <1>6
  <1> QED
    BY <1>1, <1>6, <1>8, <1>9, <1>10, <1>11, <1>12, <1>13, StepEndKeeps

\* The reply with calls opens the pool: none of them is known yet.
LEMMA ReplyAsksKeeps ==
    ASSUME IInv, NEW r \in Requests, r # <<>>, ReplyArrives(r)
    PROVE  IInv'
  <1> DEFINE e == Assistant(turn, step, r)
  <1>1. /\ pc = "streaming" /\ Log(<<e>> \o <<>>) /\ pc' = "tools"
        /\ request' = r /\ call' = Resting /\ waits' = NoMarks /\ outcome' = NoCodes
        /\ UNCHANGED <<turn, step, mark, failed, ran, sent, aborted, crashes>>
    BY DEF ReplyArrives, history
  <1>2. turn \in Nat /\ step \in Nat /\ log \in Seq(Event) /\ Good(log)
    BY PlaceIs
  <1>3. /\ turn # 0 /\ Seen(log).turn = turn /\ step # 0 /\ Seen(log).step = step
        /\ Asked(log, turn, step) = {}
    BY <1>1 DEF IInv, PlaceInv, InStep
  <1>4. e \in Event /\ e.kind = "assistant/message" /\ e.turn = turn /\ e.step = step /\ e.calls = r
    BY <1>2, EventTypes
  <1> HIDE DEF e
  <1>5. Follows(log, e)
    BY <1>3, <1>4 DEF Follows
  <1>6. Log(<<e>>)
    <2>1. <<e>> \in Seq(Event)
      BY <1>4
    <2>2. <<e>> \o <<>> = <<e>>
      BY <2>1, ConcatEmptySeq
    <2> QED
      BY <1>1, <2>2
  <1>7. log' = Append(log, e) /\ disk' = disk /\ LogInv' /\ ToSet(log') = ToSet(log) \union {e}
    BY <1>4, <1>5, <1>6, AppendsOne DEF IInv
  <1>8. Seen(log') = [turn |-> turn, step |-> step, pending |-> Pending(e)]
    BY <1>2, <1>3, <1>4, <1>5, <1>7, AfterIs
  <1>9. TypeOK'
    BY <1>1 DEF IInv, TypeOK, Phases, Resting, NoMarks, NoCodes, CallStates, Codes
  <1>10. SentIsRecorded' /\ RanIsRecorded'
    BY <1>1, <1>7, RecordsStay DEF IInv
  <1>11. HonestOutcome'
    BY <1>1, <1>4, <1>7, QuietStays DEF IInv
  <1>12. PlaceInv'
    BY <1>1, <1>3, <1>8 DEF PlaceInv, InStep
  <1>13. r \in Seq(Calls) /\ Len(r) \in Nat /\ DOMAIN r = 1..Len(r) /\ ToSet(r) \subseteq Calls
         /\ \A i \in DOMAIN r : r[i] \in Calls
    <2>1. r \in Seq(Calls)
      BY RecoveryAssumption
    <2> QED
      BY <2>1, LenProperties, ElementsOf
  <1>14. PoolAt(0, 0)'
    <2>1. \A i \in DOMAIN r : call'[r[i]] = "planned"
      BY <1>1, <1>13 DEF Resting
    <2>2. \A i \in DOMAIN r : /\ call'[r[i]] = "committed" <=> i <= 0
                              /\ call'[r[i]] = "planned" <=> 0 < i
      BY <1>13, <2>1
    <2> DEFINE q == Pending(e)
    <2>3. q \in Seq(Entry) /\ Len(q) = Len(r) /\ DOMAIN q = 1..Len(r)
          /\ \A k \in 1..Len(r) : q[k] = [call |-> r[k], turn |-> turn, step |-> step, recorded |-> FALSE]
      BY <1>4, PendingIs, LenProperties
    <2>4. \A k \in 1..(Len(r) - 0) : /\ 0 + k = k /\ Len(r) - 0 = Len(r)
                                     /\ (0 + k <= 0) = FALSE
      BY <1>13
    <2>5. Len(r) - 0 = Len(r)
      BY <1>13
    <2> HIDE DEF q
    <2>6. q = [k \in 1..(Len(r) - 0) |->
                [call |-> r[0 + k], turn |-> turn, step |-> step, recorded |-> 0 + k <= 0]]
      <3>1. \A k \in 1..(Len(r) - 0) :
                q[k] = [call |-> r[0 + k], turn |-> turn, step |-> step, recorded |-> 0 + k <= 0]
        BY <2>3, <2>4
      <3> QED
        BY <2>3, <2>5, <3>1
    <2>7. Seen(log').pending = q
      BY <1>8 DEF q
    <2> QED
      BY <1>1, <2>2, <2>6, <2>7 DEF PoolAt
  <1>15. \A c \in ToSet(request') : CallAt(c)'
    <2> SUFFICES ASSUME NEW c \in ToSet(r) PROVE CallAt(c)'
      BY <1>1
    <2>1. c \in Calls /\ call'[c] = "planned" /\ outcome'[c] = "ok"
      BY <1>1, <1>13 DEF Resting, NoCodes
    <2>2. <<turn', step', c>> \notin ran'
      BY <1>1, <1>3, NothingRan
    <2> QED
      BY <2>1, <2>2 DEF CallAt
  <1>16. PoolInv'
    <2>1. 0 \in 0..Len(request')
      BY <1>1, <1>13
    <2> QED
      BY <1>14, <1>15, <2>1 DEF PoolInv
  <1> QED
    BY <1>7, <1>9, <1>10, <1>11, <1>12, <1>16 DEF IInv

LEMMA ReplyArrivesKeeps ==
    ASSUME IInv, NEW r \in Requests, ReplyArrives(r)
    PROVE  IInv'
  <1>1. CASE r = <<>>
    BY <1>1, ReplyEndsKeeps
  <1>2. CASE r # <<>>
    BY <1>2, ReplyAsksKeeps
  <1> QED
    BY <1>1, <1>2

-----------------------------------------------------------------------------
(* Crash and resume. *)

\* What was only in memory is lost: the log is what is stored.
LEMMA LogIsCut ==
    ASSUME LogInv, HonestOutcome, SentIsRecorded, RanIsRecorded,
           disk' = disk, buffer' = <<>>, UNCHANGED <<ran, sent>>
    PROVE  /\ log' = disk /\ LogInv' /\ HonestOutcome' /\ SentIsRecorded' /\ RanIsRecorded'
  <1>1. /\ log \in Seq(Event) /\ Legal(disk) /\ disk \in Seq(Event)
        /\ ToSet(disk) \subseteq ToSet(log)
        /\ Len(log) = Len(disk) + Len(buffer) /\ Len(disk) \in Nat /\ Len(buffer) \in Nat
        /\ \A i \in 1..Len(disk) : log[i] = disk[i]
    BY LogIsSound DEF LogInv
  <1>2. log' = disk
    <2>1. disk \o <<>> = disk
      BY <1>1, ConcatEmptySeq
    <2> QED
      BY <2>1 DEF log
  <1>3. LastTurn(disk) <= LastTurn(log) /\ LastTurn(disk) \in Nat /\ LastTurn(log) \in Nat
    <2> DEFINE Of(es) == {i \in DOMAIN es : es[i].kind = "turn/start"}
    <2>1. DOMAIN disk = 1..Len(disk) /\ DOMAIN log = 1..Len(log)
      BY <1>1, LenProperties
    <2>2. Of(disk) \subseteq Of(log)
      BY <1>1, <2>1
    <2>3. IsFiniteSet(Of(log))
      <3>1. IsFiniteSet(1..Len(log))
        BY <1>1, FS_Interval
      <3> QED
        BY <2>1, <3>1, FS_Subset
    <2>4. Cardinality(Of(disk)) <= Cardinality(Of(log))
      BY <2>2, <2>3, FS_Subset
    <2>5. LastTurn(disk) = Cardinality(Of(disk)) /\ LastTurn(log) = Cardinality(Of(log))
      BY DEF LastTurn, Count
    <2>6. LastTurn(disk) \in Nat /\ LastTurn(log) \in Nat
      <3>1. IsFiniteSet(Of(disk))
        BY <2>2, <2>3, FS_Subset
      <3> HIDE DEF Of
      <3> QED
        BY <2>3, <2>5, <3>1, FS_CardinalityType
    <2> HIDE DEF Of
    <2> QED
      BY <2>4, <2>5, <2>6
  <1>4. LogInv'
    <2>1. LastTurn(log) <= MaxTurns /\ MaxTurns \in Nat
      BY RecoveryAssumption DEF LogInv
    <2>2. LastTurn(disk) <= MaxTurns
      BY <1>3, <2>1
    <2>3. <<>> \in Seq(Event)
      BY EmptySeq
    <2> QED
      BY <1>1, <1>2, <2>2, <2>3 DEF LogInv
  <1>5. HonestOutcome'
    BY <1>1, <1>2 DEF HonestOutcome
  <1>6. SentIsRecorded' /\ RanIsRecorded'
    BY RecordsStay
  <1> QED
    BY <1>2, <1>4, <1>5, <1>6

LEMMA CrashKeeps == ASSUME IInv, Crash PROVE IInv'
  <1>1. /\ crashes < MaxCrashes /\ crashes' = crashes + 1 /\ pc' = "down" /\ buffer' = <<>>
        /\ turn' = 0 /\ step' = 0 /\ mark' = 0 /\ aborted' = FALSE /\ NoTools
        /\ disk' = disk /\ UNCHANGED <<ran, sent>>
    BY DEF Crash, Volatile, history
  <1>2. LogInv' /\ HonestOutcome' /\ SentIsRecorded' /\ RanIsRecorded'
    BY <1>1, LogIsCut DEF IInv
  <1>3. TypeOK'
    <2>1. MaxTurns \in Nat /\ MaxSteps \in Nat /\ MaxCrashes \in Nat
      BY RecoveryAssumption
    <2>2. crashes' \in 0..MaxCrashes
      BY <1>1, <2>1 DEF IInv, TypeOK
    <2>3. turn' \in Boundaries /\ step' \in 0..MaxSteps /\ mark' \in Nat /\ pc' \in Phases
      BY <1>1, <2>1 DEF Boundaries, Phases
    <2> QED
      BY <1>1, <2>2, <2>3, RestingTypes DEF IInv, TypeOK
  <1>4. PlaceInv'
    BY <1>1, RestingTypes DEF PlaceInv, InStep
  <1>5. PoolInv'
    BY <1>1 DEF PoolInv
  <1> QED
    BY <1>2, <1>3, <1>4, <1>5 DEF IInv

\* The closers of the stored log, which answer what it leaves open.
LEMMA ResumeReadsKeeps == ASSUME IInv, ResumeReads PROVE IInv'
  <1> DEFINE fs == Closers(disk, "interrupted")
  <1>1. /\ pc = "down" /\ Log(fs) /\ pc' = "repairing"
        /\ UNCHANGED <<turn, step, mark, request, call, waits, outcome, failed, ran, sent, aborted, crashes>>
    BY DEF ResumeReads, tools, history
  <1>2. "interrupted" \in TurnReasons
    BY DEF TurnReasons
  <1>3. log = disk /\ request = <<>>
    <2>1. buffer = <<>> /\ request = <<>>
      BY <1>1 DEF IInv, PlaceInv
    <2>2. disk \in Seq(Event)
      BY DEF IInv, LogInv
    <2> QED
      BY <2>1, <2>2, ConcatEmptySeq DEF log
  <1>4. disk \in Seq(Event) /\ Legal(disk) /\ LastTurn(disk) <= MaxTurns /\ Seen(disk) \in OpenState
    BY <1>3, PlaceIs DEF IInv, LogInv
  <1>5. /\ fs \in Seq(Event) /\ disk \o fs \in Seq(Event) /\ Legal(disk \o fs)
        /\ LastTurn(disk \o fs) = LastTurn(disk) /\ Seen(disk \o fs) = Nothing
    BY <1>2, <1>4, ClosersClose
  <1>6. \A e \in ToSet(fs) : e \in ToSet(Results(Seen(disk))) \/ e.kind # "tool/result"
    <2> DEFINE seen == Seen(disk)
               stop == TurnEnd(seen.turn, "interrupted")
               ends == IF seen.step = 0 THEN <<stop>> ELSE <<StepEnd(seen.turn, seen.step), stop>>
    <2>1. ends \in Seq(Event) /\ fs = IF seen.turn = 0 THEN <<>> ELSE Results(seen) \o ends
      BY <1>2, <1>4, ClosersAre
    <2>2. \A i \in DOMAIN ends : ends[i] = stop \/ ends[i] = StepEnd(seen.turn, seen.step)
      OBVIOUS
    <2>3. stop.kind # "tool/result" /\ StepEnd(seen.turn, seen.step).kind # "tool/result"
      BY DEF TurnEnd, StepEnd
    <2> HIDE DEF ends, stop
    <2>4. \A e \in ToSet(ends) : e.kind # "tool/result"
      BY <2>2, <2>3 DEF ToSet
    <2>5. Results(seen) \in Seq(Event)
      BY <1>4, ResultsAre
    <2> HIDE DEF fs, seen
    <2>6. CASE seen.turn = 0
      <3>1. ToSet(<<>>) = {}
        BY EmptySeq, ElementsOf
      <3> QED
        BY <2>1, <2>6, <3>1
    <2>7. CASE seen.turn # 0
      <3>1. ToSet(Results(seen) \o ends) = ToSet(Results(seen)) \union ToSet(ends)
        BY <2>1, <2>5, ElementsOfConcat
      <3> QED
        BY <2>1, <2>4, <2>7, <3>1 DEF seen
    <2> QED
      BY <2>6, <2>7
  <1> HIDE DEF fs
  <1>7. log' = disk \o fs /\ disk' = disk /\ LogInv' /\ ToSet(log') = ToSet(log) \union ToSet(fs)
    BY <1>1, <1>3, <1>4, <1>5, Appends DEF IInv
  <1>8. SentIsRecorded' /\ RanIsRecorded'
    BY <1>1, <1>7, RecordsStay DEF IInv
  <1>9. HonestOutcome'
    <2>1. \A e \in ToSet(Results(Seen(disk))) : e.kind = "tool/result" =>
            IF <<e.turn, e.step, e.call>> \in ran THEN e.code \in {"ok", "outcome-unknown"} ELSE e.code # "ok"
      BY <1>3, AnswersAreHonest DEF IInv
    <2>2. \A e \in ToSet(fs) : e.kind = "tool/result" =>
            IF <<e.turn, e.step, e.call>> \in ran THEN e.code \in {"ok", "outcome-unknown"} ELSE e.code # "ok"
      BY <1>6, <2>1
    <2>3. ToSet(log') \subseteq ToSet(log) \union ToSet(fs)
      BY <1>7
    <2> QED
      BY <1>1, <2>2, <2>3, HonestStays DEF IInv
  <1>10. TypeOK'
    BY <1>1 DEF IInv, TypeOK, Phases
  <1>11. PlaceInv'
    BY <1>1, <1>3, <1>5, <1>7 DEF PlaceInv, InStep
  <1>12. PoolInv'
    BY <1>1 DEF PoolInv
  <1> QED
    BY <1>7, <1>8, <1>9, <1>10, <1>11, <1>12 DEF IInv

LEMMA ResumeFailsKeeps == ASSUME IInv, ResumeFails PROVE IInv'
  <1>1. /\ pc = "repairing" /\ pc' = "down" /\ buffer' = <<>> /\ disk' = disk
        /\ UNCHANGED <<turn, step, mark, request, call, waits, outcome, failed, ran, sent, aborted, crashes>>
    BY DEF ResumeFails, tools, history
  <1>2. LogInv' /\ HonestOutcome' /\ SentIsRecorded' /\ RanIsRecorded'
    BY <1>1, LogIsCut DEF IInv
  <1>3. TypeOK'
    BY <1>1 DEF IInv, TypeOK, Phases
  <1>4. request = <<>>
    BY <1>1 DEF IInv, PlaceInv
  <1>5. PlaceInv'
    BY <1>1, <1>4 DEF PlaceInv, InStep
  <1>6. PoolInv'
    BY <1>1 DEF PoolInv
  <1> QED
    BY <1>2, <1>3, <1>5, <1>6 DEF IInv

\* The repaired session is published: its agent counts on from the stored turns.
LEMMA ResumePublishesKeeps == ASSUME IInv, ResumePublishes PROVE IInv'
  <1>1. /\ pc = "repairing" /\ buffer = <<>> /\ pc' = "idle" /\ turn' = LastTurn(disk) /\ UNCHANGED stored
        /\ UNCHANGED <<step, mark, request, call, waits, outcome, failed, ran, sent, aborted, crashes>>
    BY DEF ResumePublishes, tools, history
  <1>2. log' = log /\ disk' = disk /\ LogInv' /\ ToSet(log') = ToSet(log)
    BY <1>1, LogStays DEF IInv
  <1>3. log = disk /\ request = <<>> /\ Seen(log) = Nothing
    <2>1. disk \in Seq(Event)
      BY DEF IInv, LogInv
    <2>2. disk \o <<>> = disk
      BY <2>1, ConcatEmptySeq
    <2> QED
      BY <1>1, <2>2 DEF IInv, PlaceInv, log
  <1>4. LastTurn(disk) \in Nat /\ LastTurn(disk) <= MaxTurns /\ MaxTurns \in Nat
    <2>1. LastTurn(log) \in Nat
      <3>1. log \in Seq(Event)
        BY PlaceIs
      <3>2. EndSeed \in Event
        BY EventTypes
      <3> QED
        BY <3>1, <3>2, LongerIs
    <2> QED
      BY <1>3, <2>1, PlaceIs DEF IInv, LogInv
  <1>5. TypeOK'
    <2>1. turn' \in Boundaries
      BY <1>1, <1>4 DEF Boundaries
    <2> QED
      BY <1>1, <2>1 DEF IInv, TypeOK, Phases
  <1>6. SentIsRecorded' /\ RanIsRecorded'
    BY <1>1, <1>2, RecordsStay DEF IInv
  <1>7. HonestOutcome'
    BY <1>1, <1>2 DEF IInv, HonestOutcome
  <1>8. PlaceInv'
    BY <1>1, <1>2, <1>3 DEF PlaceInv, InStep
  <1>9. PoolInv'
    BY <1>1 DEF PoolInv
  <1> QED
    BY <1>2, <1>5, <1>6, <1>7, <1>8, <1>9 DEF IInv

LEMMA StutterKeeps == ASSUME IInv, UNCHANGED vars PROVE IInv'
  <1>1. UNCHANGED <<disk, buffer, pc, turn, step, mark, request, call, waits, outcome,
                    aborted, failed, ran, sent, crashes>>
    BY DEF vars
  <1>2. log' = log /\ disk' = disk /\ LogInv' /\ ToSet(log') = ToSet(log)
    BY <1>1, LogStays DEF IInv, stored
  <1>3. TypeOK'
    BY <1>1 DEF IInv, TypeOK
  <1>4. SentIsRecorded' /\ RanIsRecorded'
    BY <1>1, <1>2, RecordsStay DEF IInv
  <1>5. HonestOutcome'
    BY <1>1, <1>2 DEF IInv, HonestOutcome
  <1>6. PlaceInv'
    BY <1>1, <1>2 DEF IInv, PlaceInv
  <1>7. PoolInv'
    BY <1>1, <1>2, PoolStays DEF IInv
  <1> QED
    BY <1>2, <1>3, <1>4, <1>5, <1>6, <1>7 DEF IInv

-----------------------------------------------------------------------------
(* The invariants of the session. *)

LEMMA NextKeeps == ASSUME IInv, [Next]_vars PROVE IInv'
  <1>1. CASE Persist
    BY <1>1, PersistKeeps
  <1>2. CASE Turn
    <2>1. CASE TurnOpens
      BY <2>1, TurnOpensKeeps
    <2>2. CASE Abort
      BY <2>2, AbortKeeps
    <2>3. CASE StepOpens
      BY <2>3, StepOpensKeeps
    <2>4. CASE PreStepRefuses
      BY <2>4, PreStepRefusesKeeps
    <2>5. CASE RequestBuilt
      BY <2>5, RequestBuiltKeeps
    <2>6. CASE RequestSent
      BY <2>6, RequestSentKeeps
    <2>7. CASE \E r \in Requests : ReplyArrives(r)
      BY <2>7, ReplyArrivesKeeps
    <2>8. CASE StepThrows
      BY <2>8, StepThrowsKeeps
    <2>9. CASE TurnGoesOn
      BY <2>9, TurnGoesOnKeeps
    <2>10. CASE TurnEnds
      BY <2>10, TurnEndsKeeps
    <2> QED
      BY <1>2, <2>1, <2>2, <2>3, <2>4, <2>5, <2>6, <2>7, <2>8, <2>9, <2>10 DEF Turn
  <1>3. CASE Pool
    <2>1. CASE CallRecorded
      BY <2>1, CallRecordedKeeps
    <2>2. ASSUME NEW c \in ToSet(request),
                 \/ HookAnswers(c) \/ Dispatched(c) \/ BodyStarts(c) \/ AbortedBeforeDispatch(c)
                 \/ CheckpointRejects(c) \/ BodySettles(c) \/ SchedulerThrows(c)
          PROVE  IInv'
      <3>1. CASE Dispatched(c)
        BY <3>1, DispatchedKeeps
      <3>2. CASE BodyStarts(c)
        BY <3>2, BodyStartsKeeps
      <3>3. CASE SchedulerThrows(c)
        BY <3>3, SchedulerThrowsKeeps
      <3>4. CASE HookAnswers(c) \/ AbortedBeforeDispatch(c) \/ CheckpointRejects(c) \/ BodySettles(c)
        BY <3>4, CallSettles
      <3> QED
        BY <2>2, <3>1, <3>2, <3>3, <3>4
    <2>3. CASE \E i \in DOMAIN request : ResultCommitted(i)
      BY <2>3, ResultCommittedKeeps
    <2>4. CASE ToolsFinish
      BY <2>4, ToolsFinishKeeps
    <2> QED
      BY <1>3, <2>1, <2>2, <2>3, <2>4 DEF Pool
  <1>4. CASE Crash
    BY <1>4, CrashKeeps
  <1>5. CASE ResumeReads
    BY <1>5, ResumeReadsKeeps
  <1>6. CASE ResumeFails
    BY <1>6, ResumeFailsKeeps
  <1>7. CASE ResumePublishes
    BY <1>7, ResumePublishesKeeps
  <1>8. CASE UNCHANGED vars
    BY <1>8, StutterKeeps
  <1> QED
    BY <1>1, <1>2, <1>3, <1>4, <1>5, <1>6, <1>7, <1>8 DEF Next

\* The log is legal, the driver's place is the one its log leaves open, and every
\* body that ran has its record stored: at every step, across any number of crashes.
LEMMA InvHolds == Spec => []IInv
  <1>1. IInv /\ [Next]_vars => IInv'
    BY NextKeeps
  <1> QED
    BY InitInv, <1>1, PTL DEF Spec

\* What a crashed run did is known from the stored log: it is well formed, it grows
\* by events its earlier ones allow, what the provider saw and what was run is in it,
\* and it leaves open what the driver has open (the checkpoints of session-checkpoint-policy).
THEOREM RecordSurvives == Spec => []RecoveryInv
  <1>1. IInv => RecoveryInv
    BY InvImplies
  <1> QED
    BY InvHolds, <1>1, PTL

\* Every call of a closed step has exactly one result, in the model's order, however the
\* step ended (runStep and toolCalls of the agent loop, openTurnClosers of repair.ts).
THEOREM AnswersBalance == Spec => []AnsweredOnce
  <1>1. IInv => AnsweredOnce
    BY InvImplies
  <1> QED
    BY InvHolds, <1>1, PTL

\* A result tells whether its body ran, across crashes (ToolCallRecovery of repair.ts and
\* the tools/execute checkpoint).
THEOREM OutcomesAreHonest == Spec => []HonestOutcome
  <1>1. IInv => HonestOutcome
    BY InvImplies
  <1> QED
    BY InvHolds, <1>1, PTL

\* A repair cut anywhere is resumed by the repair of what it left (openTurnClosers is a
\* function of the stored log alone).
THEOREM RepairIsResumable == Spec => []RepairResumes
  <1>1. IInv => RepairResumes
    BY InvImplies
  <1> QED
    BY InvHolds, <1>1, PTL

\* A fork at any stored event is a closed log (buildForkSeed).
THEOREM ForksAreClosed == Spec => []ForkIsClosed
  <1>1. IInv => ForkIsClosed
    BY InvImplies
  <1> QED
    BY InvHolds, <1>1, PTL

\* No other action makes a call run.
LEMMA OnlyBodyStarts ==
    ASSUME IInv, [Next]_vars, NEW c \in Calls, call[c] # "running", call'[c] = "running"
    PROVE  c \in ToSet(request) /\ BodyStarts(c)
  <1>1. call \in [Calls -> CallStates]
    BY DEF IInv, TypeOK
  <1>2. call' # call
    OBVIOUS
  <1>3. call' # Resting
    BY DEF Resting
  <1>4. \A st : st # "running" => \A d : call' # [call EXCEPT ![d] = st]
    BY <1>1
  <1>5. ~Persist /\ UNCHANGED vars => FALSE
    BY <1>2 DEF vars
  <1>6. ~Persist
    BY <1>2 DEF Persist, tools
  <1>7. ~Turn
    <2>1. ~TurnOpens /\ ~Abort /\ ~StepOpens /\ ~PreStepRefuses /\ ~RequestBuilt /\ ~RequestSent /\ ~StepThrows
      BY <1>2 DEF TurnOpens, Abort, StepOpens, PreStepRefuses, TurnCloses, RequestBuilt, RequestSent,
                  StepThrows, tools
    <2>2. ~TurnGoesOn /\ ~TurnEnds /\ \A r \in Requests : ~ReplyArrives(r)
      BY <1>3 DEF TurnGoesOn, TurnEnds, ReplyArrives, NoTools
    <2> QED
      BY <2>1, <2>2 DEF Turn
  <1>8. ~Crash /\ ~ResumeReads /\ ~ResumeFails /\ ~ResumePublishes
    BY <1>2, <1>3 DEF Crash, Volatile, NoTools, ResumeReads, ResumeFails, ResumePublishes, tools
  <1>9. Pool
    BY <1>5, <1>6, <1>7, <1>8 DEF Next
  <1>10. ~CallRecorded /\ ~ToolsFinish /\ \A i \in DOMAIN request : ~ResultCommitted(i)
    BY <1>2, <1>4 DEF CallRecorded, ToolsFinish, ResultCommitted, tools
  <1>11. PICK d \in ToSet(request) : BodyStarts(d)
    <2>1. \A d : /\ ~HookAnswers(d) /\ ~Dispatched(d) /\ ~AbortedBeforeDispatch(d)
                 /\ ~CheckpointRejects(d) /\ ~BodySettles(d) /\ ~SchedulerThrows(d)
      BY <1>4 DEF HookAnswers, Dispatched, AbortedBeforeDispatch, CheckpointRejects, BodySettles,
                  SchedulerThrows, Settles
    <2> QED
      BY <1>9, <1>10, <2>1 DEF Pool
  <1>12. call' = [call EXCEPT ![d] = "running"]
    BY <1>11 DEF BodyStarts
  <1>13. d = c
    BY <1>1, <1>12
  <1> QED
    BY <1>11, <1>13

\* The body of a call is started at most once, whatever was resumed in between.
THEOREM BodiesRunOnce == Spec => NeverRunTwice
  <1>1. ASSUME IInv, [Next]_vars, NEW c \in Calls, call[c] = "checkpoint", call'[c] = "running"
        PROVE  <<turn, step, c>> \notin ran
    <2>1. c \in ToSet(request)
      BY <1>1, OnlyBodyStarts
    <2>2. pc = "tools"
      BY <1>1, <2>1, PoolIsOpen
    <2> QED
      BY <1>1, <2>1, <2>2, PoolIs DEF CallAt
  <1>2. IInv /\ [Next]_vars =>
            [\A c \in Calls : call[c] = "checkpoint" /\ call'[c] = "running" => <<turn, step, c>> \notin ran]_vars
    BY <1>1
  <1> QED
    BY InvHolds, <1>2, PTL DEF Spec, NeverRunTwice

-----------------------------------------------------------------------------
(* The stored log is a behaviour of SessionTrace. *)

\* The calls a pending list has recorded.
LEMMA RecordedAre ==
    ASSUME NEW p \in Seq(Entry)
    PROVE  {d.call : d \in {q \in ToSet(p) : q.recorded}}
             = {c \in Calls : \E i \in 1..Len(p) : p[i].call = c /\ p[i].recorded}
  <1>1. ToSet(p) = {p[i] : i \in 1..Len(p)} /\ ToSet(p) \subseteq Entry
    BY ElementsOf
  <1>2. \A q \in ToSet(p) : q.call \in Calls
    BY <1>1 DEF Entry
  <1> QED
    BY <1>1, <1>2

\* An event that a stored log allows is one the trace accepts, or does not look at.
LEMMA StoredStep ==
    ASSUME disk \in Seq(Event), Legal(disk), NEW e, Follows(disk, e), disk' = Append(disk, e)
    PROVE  Trace!TraceNext \/ UNCHANGED Trace!trace
  <1> DEFINE seen  == Seen(disk)
             after == Seen(disk')
             p == seen.pending
             q == after.pending
             T == LastTurn(disk)
             Rec(es) == {c \in Calls : \E i \in 1..Len(es) : es[i].call = c /\ es[i].recorded}
  <1>1. e \in Event /\ Good(disk)
    BY LegalIsGood DEF Follows
  <1>2. /\ seen \in OpenState /\ T \in Nat
        /\ seen.turn \in {0, T} /\ seen.step \in {0, Closed(disk, T) + 1}
        /\ seen.turn = 0 => seen.step = 0
        /\ seen.step = 0 => p = <<>>
        /\ T = Count(disk, "turn/end") + IF seen.turn = 0 THEN 0 ELSE 1
    BY <1>1, LongerIs DEF Good, OpenGood
  <1>3. /\ LastTurn(disk') = IF e.kind = "turn/start" THEN T + 1 ELSE T
        /\ Count(disk, "turn/end") \in Nat
        /\ Count(disk', "turn/end") = IF e.kind = "turn/end" THEN Count(disk, "turn/end") + 1
                                                            ELSE Count(disk, "turn/end")
        /\ \A t : /\ Closed(disk, t) \in Nat
                  /\ Closed(disk', t) = IF e.kind = "step/end" /\ e.turn = t
                                        THEN Closed(disk, t) + 1 ELSE Closed(disk, t)
    BY <1>1, LongerIs
  <1>4. /\ after \in OpenState
        /\ e.kind = "turn/start" => after = [turn |-> T + 1, step |-> 0, pending |-> <<>>]
        /\ e.kind = "turn/end" => after = Nothing
        /\ e.kind = "step/start" =>
             after = [turn |-> seen.turn, step |-> Closed(disk, seen.turn) + 1, pending |-> <<>>]
        /\ e.kind = "step/end" => after = [turn |-> seen.turn, step |-> 0, pending |-> <<>>]
        /\ e.kind \in {"user/message", "session/end-seed"} => after = seen
        /\ e.kind = "assistant/message" =>
             p = <<>> /\ after = [turn |-> seen.turn, step |-> seen.step, pending |-> Pending(e)]
        /\ e.kind = "tool/call" =>
             /\ after.turn = seen.turn /\ after.step = seen.step /\ Len(q) = Len(p)
             /\ \A i \in 1..Len(p) :
                  q[i] = IF p[i].call = e.call THEN [p[i] EXCEPT !.recorded = TRUE] ELSE p[i]
        /\ e.kind = "tool/result" =>
             after = [turn |-> seen.turn, step |-> seen.step, pending |-> Tail(p)]
    BY <1>1, AfterIs
  <1>5. /\ e.kind = "turn/start" => seen.turn = 0
        /\ e.kind \in {"turn/end", "step/start"} => seen.turn # 0 /\ e.turn = seen.turn /\ seen.step = 0
        /\ e.kind \in {"user/message", "assistant/message", "tool/call", "tool/result", "step/end"} =>
                seen.step # 0 /\ e.turn = seen.turn /\ e.step = seen.step
        /\ e.kind = "tool/call" => \E d \in ToSet(p) : d.call = e.call /\ ~d.recorded
        /\ e.kind = "tool/result" => /\ p # <<>> /\ Head(p).call = e.call
                                     /\ e.code = "not-started" <=> ~Head(p).recorded
        /\ e.kind = "step/end" => p = <<>>
    BY DEF Follows
  <1>6. /\ p \in Seq(Entry) /\ Len(p) \in Nat /\ q \in Seq(Entry) /\ Len(q) \in Nat
    <2>1. p \in Seq(Entry) /\ q \in Seq(Entry)
      BY <1>2, <1>4 DEF OpenState
    <2> QED
      BY <2>1, LenProperties
  <1>7. Recorded = Rec(p) /\ Recorded' = Rec(q)
    BY <1>6, RecordedAre DEF Recorded
  <1>8. Rec(<<>>) = {}
    <2>1. Len(<<>>) = 0
      BY EmptySeq
    <2> QED
      BY <2>1
  <1>9. /\ Stored("turn/end") = Count(disk, "turn/end") /\ Stored("turn/end")' = Count(disk', "turn/end")
        /\ StepsClosed = Closed(disk, T) /\ StepsClosed' = Closed(disk', LastTurn(disk'))
    BY DEF Stored, StepsClosed
  <1>10. e.kind \in Boundary \union InnerKinds \union {"session/end-seed"}
         /\ (e.kind \in {"tool/call", "tool/result"} => e.call \in Calls)
    BY <1>1, EventFields
  <1> HIDE DEF seen, after, p, q, T, Rec
  <1> USE DEF Trace!NotOpen
  <1>11. CASE e.kind = "turn/start"
    <2>1. Closed(disk, T + 1) = 0
      <3>1. \A d \in ToSet(disk) : d.kind = "step/end" => d.turn \in Nat /\ d.turn <= T
        <4>1. ToSet(disk) \subseteq Event
          BY ElementsOf
        <4>2. \A d \in ToSet(disk) : d.kind \in InnerKinds => d.turn \in Nat
          BY <4>1, EventFields
        <4>3. \A d \in ToSet(disk) : d.kind \in InnerKinds => d.turn <= T
          BY <1>1 DEF Good, NumbersGood, T
        <4> QED
          BY <4>2, <4>3 DEF InnerKinds
      <3>2. \A d \in ToSet(disk) : d.kind = "step/end" => d.turn # T + 1
        BY <1>2, <3>1
      <3> QED
        BY <3>2, ClosedBound
    <2>2. /\ seen.turn = 0 /\ seen.step = 0 /\ p = <<>>
          /\ after.turn = T + 1 /\ after.step = 0 /\ q = <<>>
      BY <1>2, <1>4, <1>5, <1>11 DEF q
    <2>3. T + 1 = 1 + Stored("turn/end") /\ Stored("turn/end")' = Stored("turn/end")
      BY <1>2, <1>3, <1>9, <1>11, <2>2
    <2>4. 1 + StepsClosed' = 1
      BY <1>2, <1>3, <1>9, <1>11, <2>1
    <2>5. Recorded' = Recorded
      BY <1>7, <2>2
    <2>6. Trace!TurnStarts
      BY <2>2, <2>3, <2>4, <2>5 DEF Trace!TurnStarts, seen, after
    <2> QED
      BY <2>6 DEF Trace!TraceNext
  <1>12. CASE e.kind = "turn/end"
    <2>1. /\ seen.turn # 0 /\ seen.step = 0 /\ p = <<>>
          /\ after.turn = 0 /\ after.step = 0 /\ q = <<>>
      BY <1>2, <1>4, <1>5, <1>12 DEF q, Nothing
    <2>2. 1 + Stored("turn/end")' = 1 + Stored("turn/end") + 1 /\ StepsClosed' = StepsClosed
      BY <1>3, <1>9, <1>12
    <2>3. Recorded' = Recorded
      BY <1>7, <2>1
    <2>4. Trace!TurnEnds
      BY <2>1, <2>2, <2>3 DEF Trace!TurnEnds, seen, after
    <2> QED
      BY <2>4 DEF Trace!TraceNext
  <1>13. CASE e.kind = "step/start"
    <2>1. /\ seen.turn # 0 /\ seen.step = 0 /\ p = <<>> /\ seen.turn = T
          /\ after.turn = seen.turn /\ after.step = Closed(disk, T) + 1 /\ q = <<>>
      BY <1>2, <1>4, <1>5, <1>13 DEF q
    <2>2. Stored("turn/end")' = Stored("turn/end") /\ StepsClosed' = StepsClosed
          /\ Closed(disk, T) + 1 = 1 + StepsClosed
      BY <1>3, <1>9, <1>13
    <2>3. Recorded' = Recorded
      BY <1>7, <2>1
    <2>4. Trace!StepStarts
      BY <2>1, <2>2, <2>3 DEF Trace!StepStarts, seen, after
    <2> QED
      BY <2>4 DEF Trace!TraceNext
  <1>14. CASE e.kind = "step/end"
    <2>1. /\ seen.turn # 0 /\ seen.step # 0 /\ p = <<>> /\ seen.turn = T /\ e.turn = T
          /\ after.turn = seen.turn /\ after.step = 0 /\ q = <<>>
      BY <1>2, <1>4, <1>5, <1>14 DEF q
    <2>2. Stored("turn/end")' = Stored("turn/end") /\ 1 + StepsClosed' = 1 + StepsClosed + 1
      BY <1>3, <1>9, <1>14, <2>1
    <2>3. Recorded' = {}
      BY <1>7, <1>8, <2>1
    <2>4. Trace!StepEnds
      BY <2>1, <2>2, <2>3 DEF Trace!StepEnds, seen, after
    <2> QED
      BY <2>4 DEF Trace!TraceNext
  <1>15. CASE e.kind \in {"user/message", "session/end-seed"}
    <2>1. after = seen
      BY <1>4, <1>15
    <2>2. Stored("turn/end")' = Stored("turn/end") /\ StepsClosed' = StepsClosed
      BY <1>3, <1>9, <1>15
    <2>3. Recorded' = Recorded
      BY <1>7, <2>1 DEF p, q
    <2> QED
      BY <2>1, <2>2, <2>3 DEF Trace!trace, seen, after
  <1>16. CASE e.kind = "assistant/message"
    <2>1. p = <<>> /\ after.turn = seen.turn /\ after.step = seen.step /\ q = Pending(e)
      BY <1>4, <1>16 DEF q
    <2>2. Stored("turn/end")' = Stored("turn/end") /\ StepsClosed' = StepsClosed
      BY <1>3, <1>9, <1>16
    <2>3. \A i \in 1..Len(q) : ~q[i].recorded
      BY <1>1, <1>16, <2>1, PendingIs
    <2>4. Rec(q) = {}
      BY <2>3 DEF Rec
    <2>5. Recorded' = Recorded
      BY <1>7, <1>8, <2>1, <2>4
    <2> QED
      BY <2>1, <2>2, <2>5 DEF Trace!trace, seen, after
  <1>17. CASE e.kind = "tool/call"
    <2>1. seen.turn # 0 /\ seen.step # 0 /\ after.turn = seen.turn /\ after.step = seen.step
      BY <1>2, <1>4, <1>5, <1>17
    <2>2. Stored("turn/end")' = Stored("turn/end") /\ StepsClosed' = StepsClosed
      BY <1>3, <1>9, <1>17
    <2>3. \A i \in 1..Len(p) : /\ p[i] \in Entry /\ q[i].call = p[i].call
                               /\ q[i].recorded <=> p[i].recorded \/ p[i].call = e.call
      <3> TAKE i \in 1..Len(p)
      <3> DEFINE r == p[i]
                 t == q[i]
      <3>1. r \in Entry /\ t = IF r.call = e.call THEN [r EXCEPT !.recorded = TRUE] ELSE r
        BY <1>4, <1>6, <1>17
      <3> HIDE DEF r, t
      <3>2. t.call = r.call /\ (r.call = e.call => t.recorded) /\ (r.call # e.call => t = r)
        BY <3>1 DEF Entry
      <3>3. t.recorded <=> r.recorded \/ r.call = e.call
        BY <3>2
      <3> QED
        BY <3>1, <3>2, <3>3 DEF r, t
    <2>4. \E i \in 1..Len(p) : p[i].call = e.call
      <3>1. ToSet(p) = {p[i] : i \in 1..Len(p)}
        BY <1>6, ElementsOf
      <3>2. \E d \in ToSet(p) : d.call = e.call
        BY <1>5, <1>17
      <3> QED
        BY ONLY <3>1, <3>2
    <2>5. Rec(q) = Rec(p) \union {e.call}
      <3>1. Len(q) = Len(p) /\ e.call \in Calls
        BY <1>4, <1>10, <1>17
      <3> QED
        BY <2>3, <2>4, <3>1 DEF Rec
    <2>6. Recorded' = Recorded \union {e.call}
      BY <1>7, <2>5
    <2>7. Trace!CallRecorded(e.call)
      BY <2>1, <2>2, <2>6 DEF Trace!CallRecorded, seen, after
    <2> QED
      BY <1>10, <1>17, <2>7 DEF Trace!TraceNext
  <1>18. CASE e.kind = "tool/result"
    <2>1. /\ seen.turn # 0 /\ seen.step # 0 /\ after.turn = seen.turn /\ after.step = seen.step
          /\ p # <<>> /\ q = Tail(p)
      BY <1>2, <1>4, <1>5, <1>18 DEF q
    <2>2. Stored("turn/end")' = Stored("turn/end") /\ StepsClosed' = StepsClosed
      BY <1>3, <1>9, <1>18
    <2>3. /\ Len(p) \in Nat \ {0} /\ Len(q) = Len(p) - 1 /\ \A i \in 1..Len(q) : q[i] = p[i + 1]
          /\ Head(p) = p[1]
      BY <1>6, <2>1, EmptySeq, HeadTailProperties
    <2>4. \A i, k \in 1..Len(p) : p[i].call = p[k].call => i = k
      BY <1>1 DEF Good, PendingGood, p, seen
    <2>5. p[1].call = e.call /\ (e.code = "not-started" <=> ~p[1].recorded)
      BY <1>5, <1>18, <2>3
    <2> DEFINE m == Len(p)
    <2>6. Rec(p) = {c \in Calls : \E i \in 1..m : p[i].call = c /\ p[i].recorded}
          /\ Rec(q) = {c \in Calls : \E i \in 1..(m - 1) : p[i + 1].call = c /\ p[i + 1].recorded}
      BY <2>3 DEF Rec
    <2>7. m \in Nat \ {0}
      BY <2>3
    <2> HIDE DEF m
    <2>8. \A i \in 1..(m - 1) : i + 1 \in 1..m /\ i + 1 # 1
      BY <2>7
    <2>9. \A i \in 1..m : i = 1 \/ (i - 1 \in 1..(m - 1) /\ (i - 1) + 1 = i)
      BY <2>7
    <2>10. 1 \in 1..m
      BY <2>7
    <2>11. \A c \in Rec(q) : c \in Rec(p) /\ c # e.call
      <3> TAKE c \in Rec(q)
      <3>1. PICK i \in 1..(m - 1) : p[i + 1].call = c /\ p[i + 1].recorded
        BY <2>6
      <3> DEFINE k == i + 1
      <3>2. k \in 1..m /\ k # 1 /\ p[k].call = c /\ p[k].recorded
        BY <2>8, <3>1
      <3> HIDE DEF k
      <3>3. p[k].call # p[1].call
        BY <2>4, <2>10, <3>2 DEF m
      <3> QED
        BY <2>5, <2>6, <3>2, <3>3
    <2>12. \A c \in Rec(p) : c # e.call => c \in Rec(q)
      <3> TAKE c \in Rec(p)
      <3> HAVE c # e.call
      <3>1. PICK i \in 1..m : p[i].call = c /\ p[i].recorded
        BY <2>6
      <3>2. i # 1
        BY <2>5, <3>1
      <3>3. i - 1 \in 1..(m - 1) /\ (i - 1) + 1 = i
        BY <2>9, <3>2
      <3>4. \E k \in 1..(m - 1) : p[k + 1].call = c /\ p[k + 1].recorded
        BY <3>1, <3>3
      <3> QED
        BY <2>6, <3>4
    <2>13. Rec(q) = Rec(p) \ {e.call}
      BY <2>11, <2>12
    <2>14. Recorded' = Recorded \ {e.call}
      BY <1>7, <2>13
    <2>15. CASE p[1].recorded
      <3>1. e.call \in Rec(p)
        BY <1>10, <1>18, <2>5, <2>6, <2>10, <2>15
      <3>2. Trace!ResultRecorded(e.call)
        BY <1>7, <2>1, <2>2, <2>14, <3>1 DEF Trace!ResultRecorded, seen, after
      <3> QED
        BY <1>10, <1>18, <3>2 DEF Trace!TraceNext
    <2>16. CASE ~p[1].recorded
      <3>1. e.call \notin Rec(p)
        BY <2>4, <2>5, <2>6, <2>10, <2>16 DEF m
      <3>2. Recorded' = Recorded
        BY <1>7, <2>14, <3>1
      <3> QED
        BY <2>1, <2>2, <3>2 DEF Trace!trace, seen, after
    <2> QED
      BY <2>15, <2>16
  <1> QED
    BY <1>10, <1>11, <1>12, <1>13, <1>14, <1>15, <1>16, <1>17, <1>18 DEF Boundary, InnerKinds

\* Only the writer stores.
LEMMA OnlyPersistStores == ASSUME [Next]_vars, ~Persist PROVE disk' = disk
  <1>1. Turn => disk' = disk
    BY DEF Turn, TurnOpens, Abort, StepOpens, PreStepRefuses, TurnCloses, RequestBuilt, RequestSent,
           ReplyArrives, StepThrows, TurnGoesOn, TurnEnds, Log, stored
  <1>2. Pool => disk' = disk
    BY DEF Pool, CallRecorded, HookAnswers, Dispatched, BodyStarts, AbortedBeforeDispatch,
           CheckpointRejects, BodySettles, SchedulerThrows, Settles, ResultCommitted, ToolsFinish, Log, stored
  <1>3. Crash \/ ResumeReads \/ ResumeFails \/ ResumePublishes => disk' = disk
    BY DEF Crash, ResumeReads, ResumeFails, ResumePublishes, Log, stored
  <1>4. UNCHANGED vars => disk' = disk
    BY DEF vars
  <1> QED
    BY <1>1, <1>2, <1>3, <1>4 DEF Next

\* The stored log, whatever it went through, is a behaviour of the session's log grammar
\* (invariant.ts): initial states map to initial states, and every step of a session,
\* crash or resume maps to one accepted event or to a stutter.
THEOREM StoredLogIsATrace == Spec => Trace!TraceSpec /\ RefinesTrace
  <1>1. Init => Trace!TraceInit
    <2> SUFFICES ASSUME Init PROVE Trace!TraceInit
      OBVIOUS
    <2>1. disk = <<>>
      BY DEF Init
    <2>2. Seen(disk) = Nothing /\ Stored("turn/end") = 0 /\ StepsClosed = 0
      BY <2>1, SeenEmpty, EmptyCounts DEF Stored, StepsClosed
    <2>3. Recorded = {}
      <3>1. ToSet(<<>>) = {}
        BY EmptySeq, ElementsOf
      <3> QED
        BY <2>2, <3>1 DEF Recorded, Nothing
    <2> QED
      BY <2>2, <2>3 DEF Trace!TraceInit, Trace!NotOpen, Nothing
  <1>2. IInv /\ [Next]_vars => [Trace!TraceNext]_(Trace!trace)
    <2> SUFFICES ASSUME IInv, [Next]_vars PROVE Trace!TraceNext \/ UNCHANGED Trace!trace
      OBVIOUS
    <2>1. CASE Persist
      <3>1. disk \in Seq(Event) /\ buffer \in Seq(Event) /\ buffer # <<>> /\ disk' = Append(disk, Head(buffer))
        BY <2>1 DEF IInv, LogInv, Persist
      <3>2. Head(buffer) \in Event
        BY <3>1, EmptySeq, HeadTailProperties
      <3>3. LogInv'
        BY NextKeeps DEF IInv
      <3>4. Legal(disk')
        <4>1. disk' \in Seq(Event) /\ buffer' \in Seq(Event) /\ Legal(disk' \o buffer')
          BY <3>3 DEF LogInv, log
        <4> QED
          BY <4>1, LegalPrefix
      <3>5. Legal(disk) /\ Follows(disk, Head(buffer))
        BY <3>1, <3>2, <3>4, LegalAppend
      <3> QED
        BY <3>1, <3>5, StoredStep
    <2>2. CASE ~Persist
      <3>1. disk' = disk
        BY <2>2, OnlyPersistStores
      <3> QED
        BY <3>1 DEF Trace!trace, Stored, StepsClosed, Recorded
    <2> QED
      BY <2>1, <2>2
  <1>3. IInv /\ [Next]_vars => [disk' # disk => [Trace!TraceNext]_(Trace!trace)]_disk
    BY <1>2
  <1> QED
    BY InvHolds, <1>1, <1>2, <1>3, PTL DEF Spec, RefinesTrace, Trace!TraceSpec

=============================================================================
