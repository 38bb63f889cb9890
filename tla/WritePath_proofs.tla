----------------------------- MODULE WritePath_proofs -----------------------------
(***************************************************************************)
(* Proofs about WritePath, for every set of processes, any number of events,  *)
(* faults and crashes, and any file operations that fail.                    *)
(***************************************************************************)
EXTENDS WritePath, SequenceTheorems, TLAPS

\* What the theorems assume of the instance: a released handle's timer fires
\* before its session is opened again, and nothing is appended or flushed while the
\* last suffix is stored.
Sound ==
    /\ ~PromptReopen
    /\ Windows \subseteq Routed \ {"publishing"}

-----------------------------------------------------------------------------
(* Sequences. *)

\* A part of a sequence that lies inside it.
LEMMA Part ==
    ASSUME NEW S, NEW s \in Seq(S), NEW m \in Nat, NEW n \in Nat, m <= n, n <= Len(s)
    PROVE  /\ SubSeq(s, m + 1, n) \in Seq(S)
           /\ Len(SubSeq(s, m + 1, n)) = n - m
           /\ \A i \in 1 .. n - m : SubSeq(s, m + 1, n)[i] = s[m + i]
  <1>1. Len(s) \in Nat /\ \A i \in m + 1 .. n : s[i] \in S
    BY LenProperties, ElementOfSeq
  <1>2. /\ SubSeq(s, m + 1, n) \in Seq(S)
        /\ Len(SubSeq(s, m + 1, n)) = IF m + 1 <= n THEN n - (m + 1) + 1 ELSE 0
        /\ \A i \in 1 .. n - (m + 1) + 1 : SubSeq(s, m + 1, n)[i] = s[m + 1 + i - 1]
    BY <1>1, SubSeqProperties
  <1> QED
    BY <1>2

\* A part does not see what is appended behind it.
LEMMA PartOfAppend ==
    ASSUME NEW S, NEW s \in Seq(S), NEW e \in S,
           NEW m \in Nat, NEW n \in Nat, m <= n, n <= Len(s)
    PROVE  SubSeq(Append(s, e), m + 1, n) = SubSeq(s, m + 1, n)
  <1>1. /\ Append(s, e) \in Seq(S) /\ Len(Append(s, e)) = Len(s) + 1
        /\ \A i \in 1 .. Len(s) : Append(s, e)[i] = s[i]
    BY AppendProperties
  <1>2. Len(s) \in Nat
    BY LenProperties
  <1>3. /\ SubSeq(Append(s, e), m + 1, n) \in Seq(S) /\ SubSeq(s, m + 1, n) \in Seq(S)
        /\ Len(SubSeq(Append(s, e), m + 1, n)) = n - m /\ Len(SubSeq(s, m + 1, n)) = n - m
        /\ \A i \in 1 .. n - m : SubSeq(Append(s, e), m + 1, n)[i] = Append(s, e)[m + i]
        /\ \A i \in 1 .. n - m : SubSeq(s, m + 1, n)[i] = s[m + i]
    BY <1>1, <1>2, Part
  <1> QED
    BY <1>1, <1>2, <1>3, SeqEqual

\* The rest of a sequence grows with it.
LEMMA RestOfAppend ==
    ASSUME NEW S, NEW s \in Seq(S), NEW e \in S, NEW m \in Nat, m <= Len(s)
    PROVE  SubSeq(Append(s, e), m + 1, Len(s) + 1) = Append(SubSeq(s, m + 1, Len(s)), e)
  <1> DEFINE rest == SubSeq(s, m + 1, Len(s))
  <1>1. /\ Append(s, e) \in Seq(S) /\ Len(Append(s, e)) = Len(s) + 1
        /\ \A i \in 1 .. Len(s) : Append(s, e)[i] = s[i]
        /\ Append(s, e)[Len(s) + 1] = e
    BY AppendProperties
  <1>2. Len(s) \in Nat
    BY LenProperties
  <1>3. /\ rest \in Seq(S) /\ Len(rest) = Len(s) - m
        /\ \A i \in 1 .. Len(s) - m : rest[i] = s[m + i]
    BY <1>2, Part
  <1>4. /\ SubSeq(Append(s, e), m + 1, Len(s) + 1) \in Seq(S)
        /\ Len(SubSeq(Append(s, e), m + 1, Len(s) + 1)) = Len(s) + 1 - m
        /\ \A i \in 1 .. Len(s) + 1 - m :
              SubSeq(Append(s, e), m + 1, Len(s) + 1)[i] = Append(s, e)[m + i]
    BY <1>1, <1>2, Part
  <1> HIDE DEF rest
  <1>5. /\ Append(rest, e) \in Seq(S) /\ Len(Append(rest, e)) = Len(s) - m + 1
        /\ \A i \in 1 .. Len(s) - m : Append(rest, e)[i] = rest[i]
        /\ Append(rest, e)[Len(s) - m + 1] = e
    BY <1>3, AppendProperties
  <1> DEFINE n == Len(s) - m
  <1>6. n \in Nat /\ Len(s) + 1 - m = n + 1 /\ m + (n + 1) = Len(s) + 1
    BY <1>2
  <1>7. ASSUME NEW i \in 1 .. n + 1
        PROVE  SubSeq(Append(s, e), m + 1, Len(s) + 1)[i] = Append(rest, e)[i]
    <2>1. CASE i = n + 1
      BY <1>1, <1>4, <1>5, <1>6, <2>1
    <2>2. CASE i # n + 1
      <3>1. i \in 1 .. n /\ m + i \in 1 .. Len(s)
        BY <1>2, <1>6, <2>2
      <3> QED
        BY <1>1, <1>3, <1>4, <1>5, <1>6, <3>1
    <2> QED
      BY <2>1, <2>2
  <1>8. /\ Len(SubSeq(Append(s, e), m + 1, Len(s) + 1)) = n + 1
        /\ Len(Append(rest, e)) = n + 1
    BY <1>4, <1>5, <1>6
  <1> HIDE DEF n
  <1>9. SubSeq(Append(s, e), m + 1, Len(s) + 1) = Append(rest, e)
    BY <1>4, <1>5, <1>7, <1>8, SeqEqual
  <1> QED
    BY <1>9 DEF rest

\* What is left of a rest once its head has been taken.
LEMMA RestSplits ==
    ASSUME NEW S, NEW s \in Seq(S), NEW m \in Nat, m <= Len(s),
           NEW b \in Seq(S), NEW c \in Seq(S), b \o c = SubSeq(s, m + 1, Len(s))
    PROVE  /\ m + Len(b) <= Len(s)
           /\ b = SubSeq(s, m + 1, m + Len(b))
           /\ c = SubSeq(s, m + Len(b) + 1, Len(s))
  <1>1. Len(s) \in Nat /\ Len(b) \in Nat /\ Len(c) \in Nat
    BY LenProperties
  <1>2. /\ Len(b \o c) = Len(b) + Len(c)
        /\ \A i \in 1 .. Len(b) + Len(c) : (b \o c)[i] = IF i <= Len(b) THEN b[i] ELSE c[i - Len(b)]
    BY ConcatProperties
  <1>3. /\ Len(SubSeq(s, m + 1, Len(s))) = Len(s) - m
        /\ \A i \in 1 .. Len(s) - m : SubSeq(s, m + 1, Len(s))[i] = s[m + i]
    BY <1>1, Part
  <1>4. Len(b) + Len(c) = Len(s) - m
    BY <1>2, <1>3
  <1>5. /\ \A i \in 1 .. Len(b) : b[i] = s[m + i]
        /\ \A i \in 1 .. Len(c) : c[i] = s[m + Len(b) + i]
    <2>1. \A i \in 1 .. Len(s) - m :
              s[m + i] = IF i <= Len(b) THEN b[i] ELSE c[i - Len(b)]
      BY <1>2, <1>3, <1>4
    <2>2. \A i \in 1 .. Len(b) : b[i] = s[m + i]
      BY <1>1, <1>4, <2>1
    <2>3. ASSUME NEW i \in 1 .. Len(c)
          PROVE  c[i] = s[m + Len(b) + i]
      <3> DEFINE k == Len(b) + i
      <3>1. k \in 1 .. Len(s) - m /\ ~(k <= Len(b)) /\ k - Len(b) = i /\ m + k = m + Len(b) + i
        BY <1>1, <1>4
      <3>2. s[m + k] = c[k - Len(b)]
        BY <2>1, <3>1
      <3> QED
        BY <3>1, <3>2
    <2> QED
      BY <2>2, <2>3
  <1>6. /\ SubSeq(s, m + 1, m + Len(b)) \in Seq(S)
        /\ Len(SubSeq(s, m + 1, m + Len(b))) = Len(b)
        /\ \A i \in 1 .. Len(b) : SubSeq(s, m + 1, m + Len(b))[i] = s[m + i]
    <2>1. m + Len(b) \in Nat /\ m <= m + Len(b) /\ m + Len(b) <= Len(s) /\ m + Len(b) - m = Len(b)
      BY <1>1, <1>4
    <2> QED
      BY <2>1, Part
  <1>7. /\ SubSeq(s, (m + Len(b)) + 1, Len(s)) \in Seq(S)
        /\ Len(SubSeq(s, (m + Len(b)) + 1, Len(s))) = Len(c)
        /\ \A i \in 1 .. Len(c) : SubSeq(s, (m + Len(b)) + 1, Len(s))[i] = s[m + Len(b) + i]
    <2>1. /\ m + Len(b) \in Nat /\ m + Len(b) <= Len(s) /\ Len(s) <= Len(s)
          /\ Len(s) - (m + Len(b)) = Len(c)
      BY <1>1, <1>4
    <2> QED
      BY <1>1, <2>1, Part
  <1>8. b = SubSeq(s, m + 1, m + Len(b))
    BY <1>5, <1>6, SeqEqual
  <1>9. c = SubSeq(s, m + Len(b) + 1, Len(s))
    BY <1>5, <1>7, SeqEqual
  <1> QED
    BY <1>1, <1>4, <1>8, <1>9

\* Two adjacent parts from the start.
LEMMA FrontGrows ==
    ASSUME NEW S, NEW s \in Seq(S), NEW k \in Nat, NEW n \in Nat, k <= n, n <= Len(s)
    PROVE  SubSeq(s, 1, k) \o SubSeq(s, k + 1, n) = SubSeq(s, 1, n)
  <1>1. Len(s) \in Nat
    BY LenProperties
  <1>2. 1 \in 1 .. Len(s) + 1 /\ k \in 1 - 1 .. Len(s) /\ n \in k .. Len(s)
    BY <1>1
  <1> QED
    BY <1>2, ConcatAdjacentSubSeq

\* Prefixes are fronts.
LEMMA PrefixIsFront ==
    ASSUME NEW S, NEW s \in Seq(S), NEW t \in Seq(S)
    PROVE  /\ IsPrefix(t, s) <=> Len(t) <= Len(s) /\ \A i \in 1 .. Len(t) : t[i] = s[i]
           /\ IsPrefix(t, s) => t = SubSeq(s, 1, Len(t)) /\ Len(t) <= Len(s)
  <1>1. Len(s) \in Nat /\ Len(t) \in Nat
    BY LenProperties
  <1>2. SubSeq(t, 1, Len(t)) = t
    BY SubSeqFull
  <1>3. ASSUME Len(t) <= Len(s)
        PROVE  /\ SubSeq(s, 0 + 1, Len(t)) \in Seq(S) /\ Len(SubSeq(s, 0 + 1, Len(t))) = Len(t)
               /\ \A i \in 1 .. Len(t) : SubSeq(s, 0 + 1, Len(t))[i] = s[i]
    BY <1>1, <1>3, Part
  <1>4. ASSUME Len(t) <= Len(s), \A i \in 1 .. Len(t) : t[i] = s[i]
        PROVE  t = SubSeq(s, 1, Len(t))
    BY <1>1, <1>3, <1>4, SeqEqual
  <1> QED
    BY <1>2, <1>3, <1>4 DEF IsPrefix

LEMMA FrontIsPrefix ==
    ASSUME NEW S, NEW s \in Seq(S), NEW n \in Nat, n <= Len(s)
    PROVE  /\ SubSeq(s, 1, n) \in Seq(S) /\ Len(SubSeq(s, 1, n)) = n
           /\ \A i \in 1 .. n : SubSeq(s, 1, n)[i] = s[i]
           /\ IsPrefix(SubSeq(s, 1, n), s)
  <1>1. /\ SubSeq(s, 0 + 1, n) \in Seq(S) /\ Len(SubSeq(s, 0 + 1, n)) = n - 0
        /\ \A i \in 1 .. n - 0 : SubSeq(s, 0 + 1, n)[i] = s[0 + i]
    BY Part
  <1>2. SubSeq(s, 1, n) \in Seq(S) /\ Len(SubSeq(s, 1, n)) = n
        /\ \A i \in 1 .. n : SubSeq(s, 1, n)[i] = s[i]
    BY <1>1
  <1> QED
    BY <1>2, PrefixIsFront

LEMMA PrefixTransitive ==
    ASSUME NEW S, NEW s \in Seq(S), NEW t \in Seq(S), NEW u \in Seq(S),
           IsPrefix(s, t), IsPrefix(t, u)
    PROVE  IsPrefix(s, u)
  <1>1. Len(s) \in Nat /\ Len(t) \in Nat /\ Len(u) \in Nat
    BY LenProperties
  <1>2. /\ Len(s) <= Len(t) /\ \A i \in 1 .. Len(s) : s[i] = t[i]
        /\ Len(t) <= Len(u) /\ \A i \in 1 .. Len(t) : t[i] = u[i]
    BY PrefixIsFront
  <1>3. Len(s) <= Len(u) /\ \A i \in 1 .. Len(s) : s[i] = u[i]
    BY <1>1, <1>2
  <1> QED
    BY <1>3, PrefixIsFront

LEMMA PrefixOfConcat ==
    ASSUME NEW S, NEW s \in Seq(S), NEW t \in Seq(S)
    PROVE  s \o t \in Seq(S) /\ IsPrefix(s, s \o t)
  <1>1. Len(s) \in Nat /\ Len(t) \in Nat
    BY LenProperties
  <1>2. /\ s \o t \in Seq(S) /\ Len(s \o t) = Len(s) + Len(t)
        /\ \A i \in 1 .. Len(s) + Len(t) : (s \o t)[i] = IF i <= Len(s) THEN s[i] ELSE t[i - Len(s)]
    BY ConcatProperties
  <1>3. Len(s) <= Len(s \o t) /\ \A i \in 1 .. Len(s) : s[i] = (s \o t)[i]
    BY <1>1, <1>2
  <1> QED
    BY <1>2, <1>3, PrefixIsFront

\* Of two prefixes of one sequence the shorter is a prefix of the longer.
LEMMA PrefixesCompare ==
    ASSUME NEW S, NEW s \in Seq(S), NEW t \in Seq(S), NEW u \in Seq(S),
           IsPrefix(s, u), IsPrefix(t, u), Len(s) <= Len(t)
    PROVE  IsPrefix(s, t)
  <1>1. Len(s) \in Nat /\ Len(t) \in Nat /\ Len(u) \in Nat
    BY LenProperties
  <1>2. /\ \A i \in 1 .. Len(s) : s[i] = u[i]
        /\ \A i \in 1 .. Len(t) : t[i] = u[i]
    BY PrefixIsFront
  <1>3. \A i \in 1 .. Len(s) : s[i] = t[i]
    BY <1>1, <1>2
  <1> QED
    BY <1>3, PrefixIsFront

LEMMA ConcatAppend ==
    ASSUME NEW S, NEW s \in Seq(S), NEW t \in Seq(S), NEW e \in S
    PROVE  s \o Append(t, e) = Append(s \o t, e)
  <1> DEFINE u == <<e>>
  <1>1. u \in Seq(S)
    OBVIOUS
  <1>2. s \o t \in Seq(S)
    BY PrefixOfConcat
  <1>3. Append(t, e) = t \o u /\ Append(s \o t, e) = (s \o t) \o u
    BY <1>2, AppendIsConcat
  <1> HIDE DEF u
  <1>4. (s \o t) \o u = s \o (t \o u)
    BY <1>1, ConcatAssociative
  <1> QED
    BY <1>3, <1>4

-----------------------------------------------------------------------------
(* Types of the operations of one handle. *)

LEMMA NoHandleType ==
    ASSUME NEW s \in Stations
    PROVE  [NoHandle EXCEPT !.at = s] \in Handle
  BY EmptySeq DEF NoHandle, Handle

LEMMA IdleType ==
    ASSUME NEW r \in Handle
    PROVE  Idle(r) \in Handle
  BY EmptySeq DEF Idle, Handle

LEMMA AdvanceType ==
    ASSUME NEW r \in Handle
    PROVE  Advance(r) \in Handle
  <1>1. Stage(r) \in FileOps \union {"idle", "lease", "reject"}
    BY DEF Stage, FileOps
  <1> QED
    BY <1>1 DEF Advance, Handle

LEMMA BeginType ==
    ASSUME NEW r \in Handle, NEW client \in {"append", "drain", "flush"},
           NEW batch \in Seq(Event)
    PROVE  Begin(r, client, batch) \in Handle
  <1>1. [r EXCEPT !.client = client, !.batch = batch] \in Handle
    BY DEF Handle
  <1> QED
    BY <1>1, AdvanceType DEF Begin

LEMMA DrainLiveType ==
    ASSUME NEW r \in Handle
    PROVE  DrainLive(r) \in Handle
  <1>1. [r EXCEPT !.draining = TRUE, !.timer = FALSE, !.paused = FALSE] \in Handle
    BY DEF Handle
  <1> QED
    BY <1>1 DEF DrainLive

LEMMA CloseHandleType ==
    ASSUME NEW r \in Handle
    PROVE  CloseHandle(r) \in Handle
  <1>1. DrainLive(r) \in Handle
    BY DrainLiveType
  <1> QED
    BY <1>1 DEF CloseHandle, Handle, Stations, Routed

LEMMA PublishType ==
    ASSUME NEW r \in Handle
    PROVE  Publish(r) \in Handle
  BY DEF Publish, Handle, Stations, Routed

LEMMA SucceededType ==
    ASSUME NEW r \in Handle
    PROVE  Succeeded(r) \in Handle
  <1>1. Idle(r) \in Handle
    BY IdleType
  <1>2. [Idle(r) EXCEPT !.flush = None] \in Handle
    BY <1>1 DEF Handle
  <1>3. [Idle(r) EXCEPT !.at = "setup"] \in Handle
    BY <1>1 DEF Handle, Stations, Routed, Unpublished
  <1>4. Publish(Idle(r)) \in Handle
    BY <1>1, PublishType
  <1> QED
    BY <1>1, <1>2, <1>3, <1>4 DEF Succeeded

LEMMA AfterDrainType ==
    ASSUME NEW r \in Handle, NEW b \in Seq(Event), NEW s \in Stations,
           NEW w \in {None, "draining", "barrier"}
    PROVE  [r EXCEPT !.buffered = b, !.paused = TRUE, !.draining = FALSE,
               !.at = s, !.joined = FALSE, !.flush = w] \in Handle
  BY DEF Handle

LEMMA FailedType ==
    ASSUME NEW r \in Handle
    PROVE  Failed(r) \in Handle
  <1>1. Idle(r) \in Handle
    BY IdleType
  <1>2. [Idle(r) EXCEPT !.flush = None] \in Handle
    BY <1>1 DEF Handle
  <1>3. CloseHandle(Idle(r)) \in Handle
    BY <1>1, CloseHandleType
  <1>4. Retained(r) \in Seq(Event)
    BY PrefixOfConcat DEF Retained, Handle
  <1>5. AfterFailedDrain(r) \in Stations
    BY DEF AfterFailedDrain, Handle, Stations, Routed
  <1>6. (IF Idle(r).flush = "draining" THEN None ELSE Idle(r).flush) \in {None, "draining", "barrier"}
    BY <1>1 DEF Handle
  <1>7. [Idle(r) EXCEPT !.buffered = Retained(r), !.paused = TRUE, !.draining = FALSE,
             !.at = AfterFailedDrain(r), !.joined = FALSE,
             !.flush = IF @ = "draining" THEN None ELSE @] \in Handle
    BY <1>1, <1>4, <1>5, <1>6, AfterDrainType, Zenon
  <1> QED
    BY <1>1, <1>2, <1>3, <1>7 DEF Failed

-----------------------------------------------------------------------------
(* The chain of one handle. *)

LEMMA NoHandleChain ==
    ASSUME NEW s \in Claimless \union {"locked", "setup"}
    PROVE  ChainOf([NoHandle EXCEPT !.at = s])
  BY DEF ChainOf, NoHandle, Claimless, Drained, Stage, None

LEMMA LoadChain ==
    ASSUME NEW log, NEW n, NEW b, NEW t
    PROVE  ChainOf([NoHandle EXCEPT !.at = "setup", !.log = log, !.cursor = n,
               !.materialized = TRUE, !.leased = TRUE, !.repair = b, !.recovered = t])
  BY DEF ChainOf, NoHandle, Drained, Stage, None

LEMMA PublishChain ==
    ASSUME NEW r \in Handle, ChainOf(r), r.at = "setup", r.op = "idle"
    PROVE  ChainOf(Publish(r))
  BY DEF ChainOf, Handle, Publish, Drained, Stage, None

LEMMA StoreChain ==
    ASSUME NEW r \in Handle, ChainOf(r), r.at = "setup", r.op = "idle",
           NEW s \in {"storing", "publishing"}, NEW b \in Seq(Event), b # <<>>
    PROVE  ChainOf(Begin([r EXCEPT !.at = s], "append", b))
  BY DEF ChainOf, Handle, Begin, Advance, Drained, Stage, FileOps, None

LEMMA AppendChain ==
    ASSUME NEW r \in Handle, ChainOf(r), NEW e, NEW f \in BOOLEAN
    PROVE  /\ ChainOf([r EXCEPT !.log = Append(@, e)])
           /\ r.published => ChainOf([r EXCEPT !.log = Append(@, e),
                  !.buffered = Append(@, e), !.timer = f])
  BY DEF ChainOf, Handle, Drained, Stage, None

LEMMA DrainLiveChain ==
    ASSUME NEW r \in Handle, ChainOf(r)
    PROVE  ChainOf(DrainLive(r)) /\ ChainOf(DrainLive([r EXCEPT !.timer = FALSE]))
  BY DEF ChainOf, Handle, DrainLive, Drained, Stage, None

LEMMA CloseChain ==
    ASSUME NEW r \in Handle, ChainOf(r), r.at \in Routed \ {"releasing"}
    PROVE  ChainOf(CloseHandle(r))
  BY DEF ChainOf, Handle, CloseHandle, DrainLive, Drained, Stage, None

LEMMA DrainTurnChain ==
    ASSUME NEW r \in Handle, ChainOf(r), r.draining, r.op = "idle", r.buffered # <<>>
    PROVE  ChainOf(Begin([r EXCEPT !.buffered = <<>>], "drain", r.buffered))
  BY DEF ChainOf, Handle, Begin, Advance, Drained, Stage, FileOps, Unpublished, None

LEMMA DrainEndsChain ==
    ASSUME NEW r \in Handle, ChainOf(r), r.client # "drain"
    PROVE  ChainOf([r EXCEPT !.draining = FALSE, !.joined = FALSE,
               !.flush = IF @ = "draining" THEN "barrier" ELSE @])
  BY DEF ChainOf, Handle, Drained, Stage, None

LEMMA FlushStartChain ==
    ASSUME NEW r \in Handle, ChainOf(r), NEW n \in Nat
    PROVE  ChainOf([DrainLive(r) EXCEPT !.flush = "draining",
               !.target = IF r.published THEN n ELSE 0])
  BY DEF ChainOf, Handle, DrainLive, Drained, Stage, None

LEMMA BarrierChain ==
    ASSUME NEW r \in Handle, ChainOf(r), r.op = "idle"
    PROVE  /\ ChainOf([r EXCEPT !.flush = None])
           /\ r.at \in Unpublished \union {"live"} => ChainOf(Begin(r, "flush", <<>>))
  BY DEF ChainOf, Handle, Begin, Advance, Drained, Stage, Unpublished, FileOps, None

LEMMA AdvanceChain ==
    ASSUME NEW r \in Handle, ChainOf(r), r.op # "idle"
    PROVE  /\ ChainOf(Advance([r EXCEPT !.leased = TRUE]))
           /\ ChainOf(Advance([r EXCEPT !.repair = FALSE]))
           /\ ChainOf(Advance([r EXCEPT !.recovered = <<>>]))
  BY DEF ChainOf, Handle, Advance, Drained, Stage, FileOps, None

LEMMA WrittenChain ==
    ASSUME NEW r \in Handle, ChainOf(r), r.op = "write", NEW n \in Nat
    PROVE  ChainOf(Succeeded([r EXCEPT !.materialized = TRUE, !.cursor = n]))
  BY DEF ChainOf, Handle, Succeeded, Publish, Idle, Drained, Stage, None

LEMMA HeaderChain ==
    ASSUME NEW r \in Handle, ChainOf(r), r.op = "header"
    PROVE  ChainOf(Succeeded([r EXCEPT !.materialized = TRUE]))
  BY DEF ChainOf, Handle, Succeeded, Publish, Idle, Drained, Stage, None

\* The events a failed drain retains are still there.
LEMMA RetainedChain ==
    ASSUME NEW r \in Handle, ChainOf(r), r.op # "idle"
    PROVE  ChainOf(Failed(r))
  <1>1. CASE r.client = "drain"
    <2>1. Retained(r) \in Seq(Event) /\ r.published /\ r.draining
      BY <1>1, PrefixOfConcat DEF Retained, Handle, ChainOf
    <2> HIDE DEF Retained
    <2> QED
      BY <1>1, <2>1 DEF ChainOf, Handle, Failed, AfterFailedDrain, Idle, Drained, Stage, None
  <1>2. CASE r.client # "drain"
    BY <1>2 DEF ChainOf, Handle, Failed, CloseHandle, DrainLive, Idle, Drained, Stage, None,
       Unpublished
  <1> QED
    BY <1>1, <1>2

LEMMA CloseAgainChain ==
    ASSUME NEW r \in Handle, ChainOf(r), r.at = "closing", r.op = "idle"
    PROVE  /\ ChainOf([DrainLive(r) EXCEPT !.joined = TRUE])
           /\ ChainOf([r EXCEPT !.at = "releasing", !.sealed = Len(r.log)])
  BY DEF ChainOf, Handle, DrainLive, FullyDrained, Drained, Stage, None

LEMMA ReleasedChain ==
    ASSUME NEW r \in Handle, ChainOf(r), r.at = "releasing"
    PROVE  ChainOf([r EXCEPT !.at = "released"])
  BY DEF ChainOf, Handle, Drained, Stage, None

-----------------------------------------------------------------------------
(* The log, the cursor and what is pending of one handle. *)

\* RoutedIsNext of one handle.
NextOf(r) == r.published => Pending(r) = SubSeq(r.log, r.cursor + 1, Len(r.log))

LEMMA ContiguousElements ==
    ASSUME NEW s \in Seq(Event)
    PROVE  Log!Contiguous(s) <=> \A i \in 1 .. Len(s) : s[i].seq = i
  <1>1. DOMAIN s = 1 .. Len(s)
    BY LenProperties
  <1> QED
    BY <1>1 DEF Log!Contiguous

LEMMA EmptyContiguous == Log!Contiguous(<<>>)
  <1>1. <<>> \in Seq(Event) /\ Len(<<>>) = 0
    BY EmptySeq
  <1>2. \A i \in 1 .. 0 : <<>>[i].seq = i
    OBVIOUS
  <1> QED
    BY <1>1, <1>2, ContiguousElements

LEMMA PendingCases ==
    ASSUME NEW r \in Handle
    PROVE  /\ Pending(r) \in Seq(Event)
           /\ r.client = "drain" => Pending(r) = r.batch \o r.buffered
           /\ r.client # "drain" => Pending(r) = r.buffered
  <1>1. r.batch \in Seq(Event) /\ r.buffered \in Seq(Event)
    BY DEF Handle
  <1>2. r.batch \o r.buffered \in Seq(Event) /\ <<>> \o r.buffered = r.buffered
    BY <1>1, PrefixOfConcat, ConcatEmptySeq
  <1> QED
    BY <1>1, <1>2 DEF Pending

\* A rest is empty when nothing is left.
LEMMA RestEmpty ==
    ASSUME NEW S, NEW s \in Seq(S), NEW n \in Nat, n <= Len(s)
    PROVE  SubSeq(s, n + 1, Len(s)) = <<>> <=> n = Len(s)
  <1>1. Len(s) \in Nat
    BY LenProperties
  <1>2. SubSeq(s, n + 1, Len(s)) \in Seq(S) /\ Len(SubSeq(s, n + 1, Len(s))) = Len(s) - n
    BY <1>1, Part
  <1>3. SubSeq(s, n + 1, Len(s)) = <<>> <=> Len(SubSeq(s, n + 1, Len(s))) = 0
    BY <1>2, EmptySeq
  <1> QED
    BY <1>1, <1>2, <1>3

\* What a handle's steps that leave its log, cursor and pending events alone keep.
LEMMA SameLog ==
    ASSUME NEW r \in Handle, NEW s \in Handle, CursorOf(r), NextOf(r),
           s.log = r.log, s.cursor = r.cursor, s.published => r.published,
           Pending(s) = Pending(r),
           s.client = "append" => r.client = "append" /\ s.batch = r.batch,
           s.client = "append" /\ s.at = "publishing" => r.at = "publishing",
           s.flush # None => r.flush # None /\ s.target = r.target,
           s.flush = "barrier" => r.flush = "barrier",
           s.sealed = r.sealed, r.at \in {"releasing", "released"} => s.at \in {"releasing", "released"}
    PROVE  CursorOf(s) /\ NextOf(s)
  BY DEF CursorOf, NextOf, None

LEMMA NoHandleLog ==
    ASSUME NEW s \in Claimless \union {"locked", "setup"}
    PROVE  CursorOf([NoHandle EXCEPT !.at = s]) /\ NextOf([NoHandle EXCEPT !.at = s])
  <1>1. Len(<<>>) = 0
    BY EmptySeq
  <1> QED
    BY <1>1, EmptyContiguous DEF CursorOf, NextOf, NoHandle, None

LEMMA LoadLog ==
    ASSUME NEW log \in Seq(Event), Log!Contiguous(log), NEW b, NEW t
    PROVE  LET r == [NoHandle EXCEPT !.at = "setup", !.log = log, !.cursor = Len(log),
               !.materialized = TRUE, !.leased = TRUE, !.repair = b, !.recovered = t]
           IN  CursorOf(r) /\ NextOf(r)
  <1>1. Len(log) \in Nat
    BY LenProperties
  <1> QED
    BY <1>1 DEF CursorOf, NextOf, NoHandle, None

LEMMA PublishLog ==
    ASSUME NEW r \in Handle, ChainOf(r), CursorOf(r), r.at = "setup", r.op = "idle",
           SubSeq(r.log, r.cursor + 1, Len(r.log)) = <<>>
    PROVE  CursorOf(Publish(r)) /\ NextOf(Publish(r))
  <1>1. Publish(r) \in Handle /\ r.client = None /\ r.buffered = <<>> /\ ~r.published
    BY PublishType DEF ChainOf
  <1>2. Pending(Publish(r)) = <<>>
    BY <1>1, PendingCases DEF Publish, Handle, None
  <1> QED
    BY <1>1, <1>2 DEF CursorOf, NextOf, Publish, Handle, None

LEMMA StoreLog ==
    ASSUME NEW r \in Handle, ChainOf(r), CursorOf(r), r.at = "setup", r.op = "idle",
           NEW s \in {"storing", "publishing"}
    PROVE  LET b == SubSeq(r.log, r.cursor + 1, Len(r.log))
               q == Begin([r EXCEPT !.at = s], "append", b)
           IN  CursorOf(q) /\ NextOf(q) /\ b \in Seq(Event)
  <1> DEFINE b == SubSeq(r.log, r.cursor + 1, Len(r.log))
  <1>1. r.log \in Seq(Event) /\ r.cursor \in Nat /\ Len(r.log) \in Nat /\ r.cursor <= Len(r.log)
    BY LenProperties DEF Handle, CursorOf
  <1>2. b \in Seq(Event) /\ Len(b) = Len(r.log) - r.cursor
    BY <1>1, Part
  <1>3. r.cursor + Len(b) = Len(r.log)
    BY <1>1, <1>2
  <1>4. b = SubSeq(r.log, r.cursor + 1, r.cursor + Len(b))
    BY <1>3
  <1> HIDE DEF b
  <1>5. ~r.published /\ r.log \in Seq(Event)
    BY <1>1 DEF ChainOf
  <1>6. /\ CursorOf(Begin([r EXCEPT !.at = s], "append", b))
        /\ NextOf(Begin([r EXCEPT !.at = s], "append", b))
    <2> DEFINE q == Begin([r EXCEPT !.at = s], "append", b)
    <2>1. /\ q.log = r.log /\ q.cursor = r.cursor /\ q.published = r.published
          /\ q.client = "append" /\ q.batch = b /\ q.target = r.target /\ q.flush = r.flush
          /\ q.sealed = r.sealed
      BY DEF Begin, Advance, Handle
    <2> HIDE DEF q
    <2>2. CursorOf(q)
      BY <1>1, <1>3, <1>4, <1>5, <2>1 DEF CursorOf
    <2>3. NextOf(q)
      BY <1>5, <2>1 DEF NextOf
    <2> QED
      BY <2>2, <2>3 DEF q
  <1> QED
    BY <1>2, <1>6 DEF b

\* What the batching, draining and closing of a handle leave alone.
LEMMA SettingLog ==
    ASSUME NEW r \in Handle, CursorOf(r), NextOf(r)
    PROVE  /\ CursorOf(DrainLive(r)) /\ NextOf(DrainLive(r))
           /\ CursorOf([DrainLive(r) EXCEPT !.joined = TRUE])
           /\ NextOf([DrainLive(r) EXCEPT !.joined = TRUE])
           /\ r.at \notin {"releasing", "released"} =>
                 CursorOf(CloseHandle(r)) /\ NextOf(CloseHandle(r))
           /\ CursorOf([r EXCEPT !.timer = FALSE]) /\ NextOf([r EXCEPT !.timer = FALSE])
           /\ CursorOf([r EXCEPT !.flush = None]) /\ NextOf([r EXCEPT !.flush = None])
           /\ CursorOf([r EXCEPT !.at = "released"]) /\ NextOf([r EXCEPT !.at = "released"])
  <1>1. ASSUME NEW q, q.log = r.log, q.cursor = r.cursor, q.published = r.published,
               q.client = r.client, q.batch = r.batch, q.buffered = r.buffered,
               q.target = r.target, q.flush \in {r.flush, None},
               q.at = "publishing" => r.at = "publishing", q.sealed = r.sealed,
               r.at \in {"releasing", "released"} => q.at \in {"releasing", "released"}
        PROVE  CursorOf(q) /\ NextOf(q)
    BY <1>1 DEF CursorOf, NextOf, Pending, None
  <1> DEFINE Same(q) == /\ q.log = r.log /\ q.cursor = r.cursor /\ q.published = r.published
                        /\ q.client = r.client /\ q.batch = r.batch /\ q.buffered = r.buffered
                        /\ q.target = r.target /\ q.flush \in {r.flush, None}
                        /\ q.at = "publishing" => r.at = "publishing"
                        /\ q.sealed = r.sealed
                        /\ r.at \in {"releasing", "released"} => q.at \in {"releasing", "released"}
  <1>2. ASSUME NEW q, Same(q) PROVE CursorOf(q) /\ NextOf(q)
    BY <1>1, <1>2
  <1>3. DrainLive(r) \in Handle /\ Same(DrainLive(r))
    <2>1. DrainLive(r) \in Handle
      BY DrainLiveType
    <2> QED
      BY <2>1 DEF DrainLive, Handle
  <1>4. /\ Same([DrainLive(r) EXCEPT !.joined = TRUE])
        /\ r.at \notin {"releasing", "released"} => Same(CloseHandle(r))
    <2> DEFINE d == DrainLive(r)
    <2>1. d \in Handle /\ Same(d) /\ CloseHandle(r) = [d EXCEPT !.at = "closing", !.joined = TRUE]
      BY <1>3 DEF CloseHandle
    <2> HIDE DEF d
    <2>2. /\ Same([d EXCEPT !.joined = TRUE])
          /\ r.at \notin {"releasing", "released"} =>
                Same([d EXCEPT !.at = "closing", !.joined = TRUE])
      BY <2>1 DEF Handle
    <2> QED
      BY <2>1, <2>2 DEF d
  <1>5. /\ Same([r EXCEPT !.timer = FALSE]) /\ Same([r EXCEPT !.flush = None])
        /\ Same([r EXCEPT !.at = "released"])
    BY DEF Handle
  <1> HIDE DEF Same
  <1> QED
    BY <1>2, <1>3, <1>4, <1>5

\* What a close finds drained is stored.
LEMMA SealedLog ==
    ASSUME NEW r \in Handle, ChainOf(r), CursorOf(r), NextOf(r),
           r.at = "closing", r.op = "idle", FullyDrained(r)
    PROVE  LET q == [r EXCEPT !.at = "releasing", !.sealed = Len(r.log)]
           IN  q \in Handle /\ CursorOf(q) /\ NextOf(q)
  <1> DEFINE q == [r EXCEPT !.at = "releasing", !.sealed = Len(r.log)]
  <1>1. r.log \in Seq(Event) /\ r.cursor \in Nat /\ Len(r.log) \in Nat /\ r.cursor <= Len(r.log)
    BY LenProperties DEF Handle, CursorOf
  <1>2. r.published => r.cursor = Len(r.log)
    <2>1. Pending(r) = <<>>
      BY PendingCases DEF ChainOf, FullyDrained, None
    <2> QED
      BY <1>1, <2>1, RestEmpty DEF NextOf
  <1>3. q \in Handle
    BY <1>1 DEF Handle, Stations, Routed
  <1>4. /\ q.log = r.log /\ q.cursor = r.cursor /\ q.published = r.published
        /\ q.client = r.client /\ q.batch = r.batch /\ q.buffered = r.buffered
        /\ q.target = r.target /\ q.flush = r.flush
        /\ q.at = "releasing" /\ q.sealed = Len(r.log)
    BY DEF Handle
  <1> HIDE DEF q
  <1>5. CursorOf(q) /\ NextOf(q)
    BY <1>1, <1>2, <1>4 DEF CursorOf, NextOf, Pending
  <1> QED
    BY <1>3, <1>5 DEF q

LEMMA FlushStartLog ==
    ASSUME NEW r \in Handle, CursorOf(r), NextOf(r)
    PROVE  LET q == [DrainLive(r) EXCEPT !.flush = "draining",
                        !.target = IF r.published THEN Len(r.log) ELSE 0]
           IN  q \in Handle /\ CursorOf(q) /\ NextOf(q)
  <1>1. Len(r.log) \in Nat
    BY LenProperties DEF Handle
  <1>2. DrainLive(r) \in Handle
    BY DrainLiveType
  <1>3. [DrainLive(r) EXCEPT !.flush = "draining",
            !.target = IF r.published THEN Len(r.log) ELSE 0] \in Handle
    BY <1>1, <1>2 DEF Handle
  <1> DEFINE q == [DrainLive(r) EXCEPT !.flush = "draining",
                       !.target = IF r.published THEN Len(r.log) ELSE 0]
  <1>4. /\ q.log = r.log /\ q.cursor = r.cursor /\ q.published = r.published
        /\ q.client = r.client /\ q.batch = r.batch /\ q.buffered = r.buffered
        /\ q.at = r.at /\ q.flush = "draining" /\ q.target \in {0, Len(r.log)}
        /\ q.sealed = r.sealed
    BY <1>2 DEF DrainLive, Handle
  <1>5. Pending(q) = Pending(r)
    BY <1>4 DEF Pending
  <1> HIDE DEF q
  <1>6. CursorOf(q) /\ NextOf(q)
    BY <1>1, <1>4, <1>5 DEF CursorOf, NextOf
  <1> QED
    BY <1>3, <1>6 DEF q

\* Once drained, a flush covers what it was called after.
LEMMA DrainEndsLog ==
    ASSUME NEW r \in Handle, ChainOf(r), CursorOf(r), NextOf(r),
           r.client # "drain", r.buffered = <<>>
    PROVE  LET q == [r EXCEPT !.draining = FALSE, !.joined = FALSE,
                        !.flush = IF @ = "draining" THEN "barrier" ELSE @]
           IN  q \in Handle /\ CursorOf(q) /\ NextOf(q)
  <1>1. r.log \in Seq(Event) /\ r.cursor \in Nat /\ Len(r.log) \in Nat /\ r.cursor <= Len(r.log)
    BY LenProperties DEF Handle, CursorOf
  <1>2. r.published => r.cursor = Len(r.log)
    <2>1. Pending(r) = <<>>
      BY PendingCases
    <2> QED
      BY <1>1, <2>1, RestEmpty DEF NextOf
  <1>3. r.flush # None => r.target <= r.cursor
    <2>1. r.target \in Nat
      BY DEF Handle
    <2> QED
      BY <1>1, <1>2, <2>1 DEF CursorOf, ChainOf
  <1>4. [r EXCEPT !.draining = FALSE, !.joined = FALSE,
            !.flush = IF @ = "draining" THEN "barrier" ELSE @] \in Handle
    BY DEF Handle, None
  <1> QED
    <2> DEFINE q == [r EXCEPT !.draining = FALSE, !.joined = FALSE,
                         !.flush = IF @ = "draining" THEN "barrier" ELSE @]
    <2>1. /\ q.log = r.log /\ q.cursor = r.cursor /\ q.published = r.published
          /\ q.client = r.client /\ q.batch = r.batch /\ q.buffered = r.buffered
          /\ q.target = r.target /\ q.at = r.at /\ (q.flush # None => r.flush # None)
          /\ q.sealed = r.sealed
      BY DEF Handle, None
    <2>2. q \in Handle
      BY <1>4
    <2> HIDE DEF q
    <2>3. CursorOf(q) /\ NextOf(q)
      BY <1>1, <1>3, <2>1 DEF CursorOf, NextOf, Pending, None
    <2> QED
      BY <2>2, <2>3 DEF q

LEMMA BeginFlushLog ==
    ASSUME NEW r \in Handle, ChainOf(r), CursorOf(r), NextOf(r), r.op = "idle"
    PROVE  CursorOf(Begin(r, "flush", <<>>)) /\ NextOf(Begin(r, "flush", <<>>))
  BY DEF CursorOf, NextOf, ChainOf, Pending, Begin, Advance, Handle, None

LEMMA AdvanceLog ==
    ASSUME NEW r \in Handle, CursorOf(r), NextOf(r)
    PROVE  /\ CursorOf(Advance([r EXCEPT !.leased = TRUE]))
           /\ NextOf(Advance([r EXCEPT !.leased = TRUE]))
           /\ CursorOf(Advance([r EXCEPT !.repair = FALSE]))
           /\ NextOf(Advance([r EXCEPT !.repair = FALSE]))
           /\ CursorOf(Advance([r EXCEPT !.recovered = <<>>]))
           /\ NextOf(Advance([r EXCEPT !.recovered = <<>>]))
  BY DEF CursorOf, NextOf, Pending, Advance, Handle

LEMMA DrainTurnLog ==
    ASSUME NEW r \in Handle, ChainOf(r), CursorOf(r), NextOf(r), r.op = "idle"
    PROVE  LET q == Begin([r EXCEPT !.buffered = <<>>], "drain", r.buffered)
           IN  CursorOf(q) /\ NextOf(q)
  <1>1. r.buffered \in Seq(Event) /\ r.client = None
    BY DEF Handle, ChainOf
  <1>2. r.buffered \o <<>> = r.buffered /\ <<>> \o r.buffered = r.buffered
    BY <1>1, ConcatEmptySeq
  <1>3. Pending(r) = r.buffered
    BY <1>1, PendingCases DEF None
  <1>4. Pending(Begin([r EXCEPT !.buffered = <<>>], "drain", r.buffered)) = r.buffered
    BY <1>1, <1>2 DEF Pending, Begin, Advance, Handle
  <1> QED
    BY <1>1, <1>3, <1>4 DEF CursorOf, NextOf, Begin, Advance, Handle, None

\* An event behind the log is behind everything pending.
LEMMA AppendLog ==
    ASSUME NEW r \in Handle, ChainOf(r), CursorOf(r), NextOf(r), r.at # "publishing",
           NEW e \in Event, e.seq = Len(r.log) + 1, NEW f \in BOOLEAN
    PROVE  LET q == [r EXCEPT !.log = Append(@, e)]
               b == [r EXCEPT !.log = Append(@, e), !.buffered = Append(@, e), !.timer = f]
           IN  /\ q \in Handle /\ (~r.published => CursorOf(q) /\ NextOf(q))
               /\ b \in Handle /\ (r.published => CursorOf(b) /\ NextOf(b))
  <1> DEFINE log == Append(r.log, e)
             q == [r EXCEPT !.log = Append(@, e)]
             b == [r EXCEPT !.log = Append(@, e), !.buffered = Append(@, e), !.timer = f]
  <1>1. /\ r.log \in Seq(Event) /\ r.cursor \in Nat /\ Len(r.log) \in Nat /\ r.cursor <= Len(r.log)
        /\ r.buffered \in Seq(Event) /\ r.batch \in Seq(Event) /\ Len(r.batch) \in Nat
    BY LenProperties DEF Handle, CursorOf
  <1>2. /\ log \in Seq(Event) /\ Len(log) = Len(r.log) + 1
        /\ \A i \in 1 .. Len(r.log) : log[i] = r.log[i]
        /\ log[Len(r.log) + 1] = e
        /\ Append(r.buffered, e) \in Seq(Event)
    BY <1>1, AppendProperties
  <1>3. Log!Contiguous(log)
    <2>1. \A i \in 1 .. Len(r.log) : r.log[i].seq = i
      BY <1>1, ContiguousElements DEF CursorOf
    <2>2. \A i \in 1 .. Len(log) : log[i].seq = i
      BY <1>1, <1>2, <2>1
    <2> QED
      BY <1>2, <2>2, ContiguousElements
  <1>4. r.client = "append" =>
            r.batch = SubSeq(log, r.cursor + 1, r.cursor + Len(r.batch))
    BY <1>1, PartOfAppend DEF CursorOf
  <1>5. SubSeq(log, r.cursor + 1, Len(r.log) + 1)
            = Append(SubSeq(r.log, r.cursor + 1, Len(r.log)), e)
    BY <1>1, RestOfAppend
  <1>6. q \in Handle /\ b \in Handle
    BY <1>2 DEF Handle
  <1>7. r.batch \o Append(r.buffered, e) = Append(r.batch \o r.buffered, e)
    <2> DEFINE batch == r.batch
               buffered == r.buffered
    <2>1. batch \in Seq(Event) /\ buffered \in Seq(Event)
      BY <1>1
    <2> HIDE DEF batch, buffered
    <2>2. batch \o Append(buffered, e) = Append(batch \o buffered, e)
      BY <2>1, ConcatAppend
    <2> QED
      BY <2>2 DEF batch, buffered
  <1>8. /\ q.log = log /\ q.published = r.published
        /\ q.cursor = r.cursor /\ q.client = r.client
        /\ q.batch = r.batch /\ q.at = r.at /\ q.flush = r.flush /\ q.target = r.target
        /\ b.log = log /\ b.published = r.published
        /\ b.cursor = r.cursor /\ b.client = r.client
        /\ b.batch = r.batch /\ b.at = r.at /\ b.flush = r.flush /\ b.target = r.target
        /\ b.buffered = Append(r.buffered, e)
        /\ r.target \in Nat /\ q.sealed = r.sealed /\ b.sealed = r.sealed
    BY DEF Handle
  <1>9. Pending(b) = Append(Pending(r), e)
    BY <1>6, <1>7, <1>8, PendingCases
  <1> HIDE DEF q, b, log
  <1>10. CursorOf(q) /\ CursorOf(b)
    <2>1. r.client = "append" => r.cursor + Len(r.batch) <= Len(log)
      BY <1>1, <1>2 DEF CursorOf
    <2>2. r.flush # None => r.target <= Len(log)
      BY <1>1, <1>2, <1>8 DEF CursorOf
    <2>3. r.cursor <= Len(log)
      BY <1>1, <1>2
    <2>4. /\ r.sealed <= r.cursor \/ (~r.published /\ r.at \in {"releasing", "released"})
          /\ r.flush = "barrier" => r.target <= r.cursor
          /\ r.at # "publishing"
      BY DEF CursorOf
    <2>5. CursorOf(q)
      BY ONLY <1>3, <1>4, <1>8, <2>1, <2>2, <2>3, <2>4 DEF CursorOf
    <2>6. CursorOf(b)
      BY ONLY <1>3, <1>4, <1>8, <2>1, <2>2, <2>3, <2>4 DEF CursorOf
    <2> QED
      BY <2>5, <2>6
  <1>11. ~r.published => NextOf(q)
    BY <1>8 DEF NextOf
  <1>12. r.published => NextOf(b)
    BY <1>2, <1>5, <1>8, <1>9 DEF NextOf
  <1> QED
    BY <1>6, <1>10, <1>11, <1>12 DEF q, b

\* A batch on disk leaves the rest pending, in order.
LEMMA WrittenLog ==
    ASSUME NEW r \in Handle, ChainOf(r), CursorOf(r), NextOf(r), r.op = "write"
    PROVE  LET q == Succeeded([r EXCEPT !.materialized = TRUE, !.cursor = @ + Len(r.batch)])
           IN  /\ q \in Handle /\ CursorOf(q) /\ NextOf(q)
               /\ r.cursor + Len(r.batch) <= Len(r.log)
               /\ r.batch = SubSeq(r.log, r.cursor + 1, r.cursor + Len(r.batch))
  <1> DEFINE m == [r EXCEPT !.materialized = TRUE, !.cursor = @ + Len(r.batch)]
             q == Succeeded(m)
             n == r.cursor + Len(r.batch)
  <1>1. /\ r.log \in Seq(Event) /\ r.cursor \in Nat /\ Len(r.log) \in Nat /\ r.cursor <= Len(r.log)
        /\ r.buffered \in Seq(Event) /\ r.batch \in Seq(Event) /\ Len(r.batch) \in Nat
        /\ n \in Nat /\ r.target \in Nat
    BY LenProperties DEF Handle, CursorOf
  <1>2. m \in Handle /\ q \in Handle
    <2>1. m \in Handle
      BY <1>1 DEF Handle
    <2> QED
      BY <2>1, SucceededType
  <1>3. r.client \in {"append", "drain"}
    BY DEF ChainOf, Handle, Stage, None
  <1>4. n <= Len(r.log) /\ r.batch = SubSeq(r.log, r.cursor + 1, n)
    <2>1. CASE r.client = "append"
      BY <2>1 DEF CursorOf
    <2>2. CASE r.client = "drain"
      <3>1. r.batch \o r.buffered = SubSeq(r.log, r.cursor + 1, Len(r.log))
        BY <2>2, PendingCases DEF NextOf, ChainOf
      <3> QED
        BY <1>1, <3>1, RestSplits
    <2> QED
      BY <1>3, <2>1, <2>2
  <1>5. /\ q.log = r.log /\ q.cursor = n /\ q.client = None /\ q.buffered = r.buffered
        /\ q.flush = r.flush /\ q.target = r.target /\ q.batch = <<>>
        /\ q.published => r.published \/ r.at = "publishing"
        /\ q.sealed = r.sealed /\ r.sealed \in Nat
        /\ r.at \in {"releasing", "released"} => q.at = r.at
    BY <1>1, <1>3 DEF Succeeded, Publish, Idle, Handle
  <1>6. Pending(q) = r.buffered
    BY <1>2, <1>5, PendingCases DEF None
  <1>7. ASSUME q.published PROVE r.buffered = SubSeq(r.log, n + 1, Len(r.log))
    <2>1. CASE r.client = "append"
      <3>1. r.buffered = <<>> /\ n = Len(r.log)
        BY <1>5, <1>7, <2>1 DEF ChainOf, CursorOf
      <3>2. SubSeq(r.log, n + 1, Len(r.log)) = <<>>
        BY <1>1, <3>1, RestEmpty
      <3> QED
        BY <3>1, <3>2
    <2>2. CASE r.client = "drain"
      <3>1. r.batch \o r.buffered = SubSeq(r.log, r.cursor + 1, Len(r.log))
        BY <2>2, PendingCases DEF NextOf, ChainOf
      <3> QED
        <4>1. /\ r.log \in Seq(Event) /\ r.cursor \in Nat /\ r.cursor <= Len(r.log)
              /\ r.batch \in Seq(Event) /\ r.buffered \in Seq(Event)
          BY <1>1 DEF Handle
        <4> QED
          BY ONLY <3>1, <4>1, RestSplits
    <2> QED
      BY <1>3, <2>1, <2>2
  <1> HIDE DEF q, m
  <1>8. CursorOf(q)
    <2>1. r.cursor <= n
      BY <1>1
    <2>2. q.sealed <= q.cursor \/ (~q.published /\ q.at \in {"releasing", "released"})
      BY <1>1, <1>5, <2>1 DEF CursorOf
    <2>3. q.flush = "barrier" => q.target <= q.cursor
      BY <1>1, <1>5, <2>1 DEF CursorOf
    <2> QED
      BY <1>1, <1>4, <1>5, <2>2, <2>3 DEF CursorOf, None
  <1>9. NextOf(q)
    BY <1>5, <1>6, <1>7 DEF NextOf
  <1> QED
    BY <1>2, <1>4, <1>8, <1>9 DEF q, m

LEMMA HeaderLog ==
    ASSUME NEW r \in Handle, ChainOf(r), CursorOf(r), NextOf(r), r.op = "header"
    PROVE  LET q == Succeeded([r EXCEPT !.materialized = TRUE])
           IN  q \in Handle /\ CursorOf(q) /\ NextOf(q)
  <1> DEFINE m == [r EXCEPT !.materialized = TRUE]
             q == Succeeded(m)
  <1>1. m \in Handle /\ q \in Handle
    <2>1. m \in Handle
      BY DEF Handle
    <2> QED
      BY <2>1, SucceededType
  <1>2. r.client = "flush"
    BY DEF ChainOf, Handle, Stage
  <1>3. /\ q.log = r.log /\ q.cursor = r.cursor /\ q.client = None
        /\ q.buffered = r.buffered /\ q.published = r.published /\ q.flush = None
        /\ q.sealed = r.sealed
        /\ r.at \in {"releasing", "released"} => q.at \in {"releasing", "released"}
    BY <1>2 DEF Succeeded, Idle, Handle
  <1>4. Pending(q) = Pending(r)
    BY <1>1, <1>2, <1>3, PendingCases DEF None
  <1> HIDE DEF q
  <1> QED
    BY <1>1, <1>3, <1>4, SameLog DEF q, None

\* A failed batch is pending again, ahead of what came after it.
LEMMA FailedLog ==
    ASSUME NEW r \in Handle, ChainOf(r), CursorOf(r), NextOf(r), r.op # "idle"
    PROVE  /\ CursorOf(Failed(r)) /\ NextOf(Failed(r))
           /\ Failed(r).log = r.log /\ Failed(r).cursor = r.cursor
           /\ Failed(r).published = r.published
           /\ r.client = "drain" => Failed(r).buffered # <<>>
           /\ r.client # "drain" => Failed(r).buffered = r.buffered
           /\ Failed(r).client = None
  <1>1. Failed(r) \in Handle
    BY FailedType
  <1>2. r.batch \o r.buffered \in Seq(Event)
    BY PrefixOfConcat DEF Handle
  <1>3. /\ Failed(r).log = r.log /\ Failed(r).cursor = r.cursor
        /\ Failed(r).published = r.published /\ Failed(r).client = None
        /\ Failed(r).flush # None => r.flush # None /\ Failed(r).target = r.target
        /\ Failed(r).flush = "barrier" => r.flush = "barrier"
        /\ r.client = "drain" => Failed(r).buffered = r.batch \o r.buffered
        /\ r.client # "drain" => Failed(r).buffered = r.buffered
        /\ Failed(r).sealed = r.sealed
        /\ r.at \in {"releasing", "released"} => Failed(r).at \in {"releasing", "released"}
    <2>1. Retained(r) = r.batch \o r.buffered
      BY DEF Retained
    <2> HIDE DEF Retained
    <2> QED
      BY <1>2, <2>1 DEF Failed, AfterFailedDrain, CloseHandle, DrainLive, Idle, Handle,
         Unpublished, None
  <1>4. Pending(Failed(r)) = Pending(r)
    BY <1>1, <1>3, PendingCases DEF None
  <1>5. r.client = "drain" => r.batch \o r.buffered # <<>>
    BY ConcatEqualIffEmpty DEF ChainOf, Handle
  <1> QED
    BY <1>1, <1>3, <1>4, <1>5, SameLog DEF None

-----------------------------------------------------------------------------
(* Every step leaves every handle in order. *)

Good(r) == r \in Handle /\ ChainOf(r) /\ CursorOf(r) /\ NextOf(r)

Handles == h \in [Procs -> Handle] /\ HandleInv /\ RoutedIsNext

LEMMA HandlesAreGood == Handles <=> h \in [Procs -> Handle] /\ \A p \in Procs : Good(h[p])
  BY DEF Handles, HandleInv, RoutedIsNext, Good, NextOf

LEMMA HandlesAreGoodPrimed ==
    Handles' <=> h' \in [Procs -> Handle] /\ \A p \in Procs : Good(h'[p])
  BY DEF Handles, HandleInv, RoutedIsNext, Good, NextOf

LEMMA OneBecomes ==
    ASSUME Handles, NEW p \in Procs, NEW r, Good(r), Becomes(p, r)
    PROVE  Handles'
  <1>1. h \in [Procs -> Handle] /\ \A q \in Procs : Good(h[q])
    BY HandlesAreGood
  <1>2. r \in Handle /\ h' = [h EXCEPT ![p] = r]
    BY DEF Good, Becomes
  <1>3. h' \in [Procs -> Handle]
    BY <1>1, <1>2
  <1>4. \A q \in Procs : h'[q] = IF q = p THEN r ELSE h[q]
    BY <1>1, <1>2
  <1>5. \A q \in Procs : Good(h'[q])
    BY <1>1, <1>4
  <1> QED
    BY <1>3, <1>5, HandlesAreGoodPrimed

LEMMA NoHandleGood ==
    ASSUME NEW s \in Claimless \union {"locked", "setup"}
    PROVE  Good([NoHandle EXCEPT !.at = s])
  <1>1. s \in Stations
    BY DEF Claimless, Stations, Routed, Unpublished
  <1> QED
    BY <1>1, NoHandleType, NoHandleChain, NoHandleLog DEF Good

LEMMA OutIsNoHandle == NoHandle = [NoHandle EXCEPT !.at = "out"]
  <1>1. NoHandle.at = "out"
    BY DEF NoHandle
  <1>2. NoHandle = [f \in DOMAIN NoHandle |-> NoHandle[f]]
    BY DEF NoHandle
  <1>3. [NoHandle EXCEPT !.at = "out"]
            = [f \in DOMAIN NoHandle |-> IF f = "at" THEN "out" ELSE NoHandle[f]]
    BY <1>2
  <1>4. \A f \in DOMAIN NoHandle : NoHandle[f] = IF f = "at" THEN "out" ELSE NoHandle[f]
    BY <1>1
  <1> QED
    BY <1>2, <1>3, <1>4

\* Opening: a handle that is loaded has the log that is on disk.
LEMMA HandlesOpen ==
    ASSUME TypeOK, Handles, AloneInv, DiskInv, NEW p \in Procs,
           \/ Create(p) \/ OpenClaim(p) \/ OpenRefused(p) \/ AcquireLease(p) \/ OpenFails(p)
           \/ Load(p)
    PROVE  Handles'
  <1>1. Good(NoHandle)
    BY NoHandleGood, OutIsNoHandle DEF Claimless
  <1>2. CASE Create(p) \/ OpenClaim(p) \/ OpenRefused(p) \/ OpenFails(p)
    BY <1>1, <1>2, NoHandleGood, OneBecomes
       DEF Create, OpenClaim, OpenRefused, OpenFails, Claimless
  <1>3. CASE AcquireLease(p)
    <2>1. h[p].at = "opening" /\ h[p] \in Handle
      BY <1>3 DEF AcquireLease, TypeOK
    <2>2. h[p] = [NoHandle EXCEPT !.at = h[p].at]
      BY <2>1 DEF AloneInv, Loaded, Routed, Unpublished
    <2>3. [h[p] EXCEPT !.at = "locked"] = [NoHandle EXCEPT !.at = "locked"]
      BY <2>2 DEF NoHandle
    <2> QED
      BY <1>3, <2>3, NoHandleGood, OneBecomes DEF AcquireLease
  <1>4. CASE Load(p)
    <2> DEFINE r == [NoHandle EXCEPT !.at = "setup", !.log = View, !.cursor = StoredEvents,
                       !.materialized = TRUE, !.leased = TRUE,
                       !.repair = torn, !.recovered = rescued]
    <2>1. View \in Seq(Event) /\ Len(View) \in Nat /\ Log!Contiguous(View)
      <3>1. View \in Seq(Event)
        BY PrefixOfConcat DEF TypeOK, View
      <3> QED
        BY <3>1, LenProperties DEF DiskInv
    <2>2. NoHandle \in Handle
      BY <1>1 DEF Good
    <2>3. rescued \in Seq(Event) /\ torn \in BOOLEAN
      BY DEF TypeOK
    <2>4. "setup" \in Stations
      BY DEF Stations, Routed, Unpublished
    <2> HIDE DEF View
    <2>5. r \in Handle
      BY <2>1, <2>2, <2>3, <2>4 DEF Handle, StoredEvents
    <2>6. ChainOf(r) /\ CursorOf(r) /\ NextOf(r)
      BY <2>1, LoadChain, LoadLog DEF StoredEvents
    <2> QED
      BY <1>4, <2>5, <2>6, OneBecomes DEF Load, Good
  <1> QED
    BY <1>2, <1>3, <1>4

LEMMA HandleIsGood ==
    ASSUME Handles, NEW p \in Procs
    PROVE  /\ Good(h[p])
           /\ h[p] \in Handle /\ ChainOf(h[p]) /\ CursorOf(h[p]) /\ NextOf(h[p])
  BY HandlesAreGood DEF Good

\* A handle with an operation on its chain, or one that batches, is loaded.
LEMMA BusyIsLoaded ==
    ASSUME AloneInv, NEW p \in Procs, h[p].at \notin Loaded
    PROVE  /\ h[p].op = "idle" /\ h[p].client = None /\ h[p].buffered = <<>>
           /\ ~h[p].timer /\ ~h[p].draining /\ h[p].flush = None
           /\ h[p].batch = <<>> /\ ~h[p].leased
  <1>1. h[p] = [NoHandle EXCEPT !.at = h[p].at]
    BY DEF AloneInv
  <1> DEFINE a == h[p].at
  <1> HIDE DEF a
  <1>2. h[p] = [NoHandle EXCEPT !.at = a]
    BY <1>1 DEF a
  <1> QED
    BY <1>2 DEF NoHandle

\* Storing and appending.
LEMMA HandlesAppend ==
    ASSUME Sound, TypeOK, Handles, DiskInv, NEW p \in Procs,
           \/ \E last \in BOOLEAN : Store(p, last)
           \/ AppendEvent(p)
    PROVE  Handles'
  <1>1. Good(h[p]) /\ h[p] \in Handle /\ ChainOf(h[p]) /\ CursorOf(h[p]) /\ NextOf(h[p])
    BY HandleIsGood
  <1>2. ASSUME NEW last \in BOOLEAN, Store(p, last)
        PROVE  Handles'
    <2> DEFINE r == h[p]
               b == SubSeq(r.log, r.cursor + 1, Len(r.log))
               s == IF last THEN "publishing" ELSE "storing"
               q == Begin([r EXCEPT !.at = s], "append", b)
    <2>1. r.at = "setup" /\ r.op = "idle"
      BY <1>2 DEF Store
    <2>2. CASE b # <<>> /\ Becomes(p, q)
      <3>1. s \in {"storing", "publishing"}
        OBVIOUS
      <3>2. b \in Seq(Event) /\ CursorOf(q) /\ NextOf(q)
        BY <1>1, <2>1, <3>1, StoreLog
      <3> HIDE DEF b
      <3>3. ChainOf(q)
        BY <1>1, <2>1, <2>2, <3>1, <3>2, StoreChain
      <3>4. [r EXCEPT !.at = s] \in Handle
        BY <1>1, <3>1 DEF Handle, Stations, Routed, Unpublished
      <3>5. q \in Handle
        BY <3>2, <3>4, BeginType
      <3> QED
        BY <2>2, <3>2, <3>3, <3>5, OneBecomes DEF Good
    <2>3. CASE b = <<>> /\ Becomes(p, Publish(r))
      BY <1>1, <2>1, <2>3, PublishType, PublishChain, PublishLog, OneBecomes DEF Good
    <2> QED
      BY <1>2, <2>2, <2>3 DEF Store
  <1>3. CASE AppendEvent(p)
    <2> DEFINE r == h[p]
               e == [seq |-> Len(r.log) + 1, id |-> made + 1]
               q == [r EXCEPT !.log = Append(@, e)]
               b == [r EXCEPT !.log = Append(@, e), !.buffered = Append(@, e),
                         !.timer = Armed(r)]
    <2>1. r.at \in Windows /\ r.at # "publishing"
      BY <1>3 DEF AppendEvent, Sound
    <2>2. Len(r.log) \in Nat
      BY <1>1, LenProperties DEF Handle
    <2>3. e \in Event /\ e.seq = Len(r.log) + 1
      BY <2>2 DEF Event, TypeOK
    <2>4. Armed(r) \in BOOLEAN
      BY <1>1 DEF Armed, Handle
    <2>5. b = [q EXCEPT !.buffered = Append(@, e), !.timer = Armed(r)]
      BY <1>1 DEF Handle
    <2>6. /\ r.published => Becomes(p, b)
          /\ ~r.published => Becomes(p, q)
      BY <1>3, <2>5 DEF AppendEvent
    <2> HIDE DEF e
    <2>7. /\ q \in Handle /\ (~r.published => CursorOf(q) /\ NextOf(q))
          /\ b \in Handle /\ (r.published => CursorOf(b) /\ NextOf(b))
      BY <1>1, <2>1, <2>3, <2>4, AppendLog
    <2>8. /\ ChainOf(q)
          /\ r.published => ChainOf(b)
      BY <1>1, <2>1, <2>4, AppendChain
    <2> HIDE DEF q, b
    <2> QED
      BY <1>1, <2>6, <2>7, <2>8, OneBecomes DEF Good
  <1> QED
    BY <1>2, <1>3

\* Batching, draining and flushing.
LEMMA HandlesBatch ==
    ASSUME TypeOK, Handles, NEW p \in Procs,
           TimerFires(p) \/ DrainTurn(p) \/ DrainEnds(p) \/ FlushStart(p) \/ Barrier(p)
    PROVE  Handles'
  <1> DEFINE r == h[p]
  <1>1. r \in Handle /\ ChainOf(r) /\ CursorOf(r) /\ NextOf(r)
    BY HandleIsGood
  <1>2. CASE TimerFires(p)
    <2> DEFINE q == [r EXCEPT !.timer = FALSE]
    <2>1. q \in Handle /\ CursorOf(q) /\ NextOf(q)
      BY <1>1, SettingLog DEF Handle
    <2>2. ChainOf(DrainLive(q))
      BY <1>1, DrainLiveChain
    <2> HIDE DEF q
    <2>3. DrainLive(q) \in Handle /\ CursorOf(DrainLive(q)) /\ NextOf(DrainLive(q))
      BY <2>1, DrainLiveType, SettingLog
    <2> QED
      BY <1>2, <2>2, <2>3, OneBecomes DEF TimerFires, Good, q
  <1>3. CASE DrainTurn(p)
    <2> DEFINE q == Begin([r EXCEPT !.buffered = <<>>], "drain", r.buffered)
    <2>1. r.draining /\ r.op = "idle" /\ r.buffered # <<>> /\ Becomes(p, q)
      BY <1>3 DEF DrainTurn
    <2>2. [r EXCEPT !.buffered = <<>>] \in Handle /\ r.buffered \in Seq(Event)
      BY <1>1, EmptySeq DEF Handle
    <2>3. q \in Handle
      BY <2>2, BeginType
    <2>4. ChainOf(q) /\ CursorOf(q) /\ NextOf(q)
      BY <1>1, <2>1, DrainTurnChain, DrainTurnLog
    <2> QED
      BY <2>1, <2>3, <2>4, OneBecomes DEF Good
  <1>4. CASE DrainEnds(p)
    <2> DEFINE q == [r EXCEPT !.draining = FALSE, !.joined = FALSE,
                         !.flush = IF @ = "draining" THEN "barrier" ELSE @]
    <2>1. r.client # "drain" /\ r.buffered = <<>> /\ Becomes(p, q)
      BY <1>4 DEF DrainEnds
    <2>2. q \in Handle /\ CursorOf(q) /\ NextOf(q)
      BY <1>1, <2>1, DrainEndsLog
    <2>3. ChainOf(q)
      BY <1>1, <2>1, DrainEndsChain
    <2> QED
      BY <2>1, <2>2, <2>3, OneBecomes DEF Good
  <1>5. CASE FlushStart(p)
    <2> DEFINE q == [DrainLive(r) EXCEPT !.flush = "draining",
                         !.target = IF r.published THEN Len(r.log) ELSE 0]
    <2>1. Len(r.log) \in Nat
      BY <1>1, LenProperties DEF Handle
    <2>2. q \in Handle /\ CursorOf(q) /\ NextOf(q)
      BY <1>1, FlushStartLog
    <2>3. ChainOf(q)
      BY <1>1, <2>1, FlushStartChain
    <2>4. Becomes(p, q)
      BY <1>5 DEF FlushStart
    <2> QED
      BY <2>2, <2>3, <2>4, OneBecomes DEF Good
  <1>6. CASE Barrier(p)
    <2>1. r.op = "idle"
      BY <1>6 DEF Barrier
    <2>2. CASE Becomes(p, [r EXCEPT !.flush = None])
      <3>1. [r EXCEPT !.flush = None] \in Handle
        BY <1>1 DEF Handle
      <3> QED
        BY <1>1, <2>1, <2>2, <3>1, BarrierChain, SettingLog, OneBecomes DEF Good
    <2>3. CASE r.at \in Unpublished \union {"live"} /\ Becomes(p, Begin(r, "flush", <<>>))
      <3>1. Begin(r, "flush", <<>>) \in Handle
        BY <1>1, EmptySeq, BeginType
      <3> QED
        BY <1>1, <2>1, <2>3, <3>1, BarrierChain, BeginFlushLog, OneBecomes DEF Good
    <2> QED
      BY <1>6, <2>2, <2>3 DEF Barrier
  <1> QED
    BY <1>2, <1>3, <1>4, <1>5, <1>6

\* The operation at the head of the chain advances, resolves or rejects.
LEMMA HandlesChain ==
    ASSUME TypeOK, Handles, NEW p \in Procs,
           \/ TakeLease(p) \/ Truncated(p) \/ Rewritten(p) \/ Written(p) \/ HeaderWritten(p)
           \/ WriteRefused(p) \/ OpFails(p) \/ PublishFails(p)
    PROVE  Handles'
  <1> DEFINE r == h[p]
  <1>1. r \in Handle /\ ChainOf(r) /\ CursorOf(r) /\ NextOf(r)
    BY HandleIsGood
  <1>2. r.op # "idle"
    BY DEF TakeLease, Truncated, Rewritten, Written, HeaderWritten, WriteRefused, OpFails,
       PublishFails, FileOps
  <1>3. CASE Becomes(p, Failed(r))
    BY <1>1, <1>2, <1>3, FailedType, RetainedChain, FailedLog, OneBecomes DEF Good
  <1>4. CASE Becomes(p, Advance([r EXCEPT !.leased = TRUE]))
    <2>1. [r EXCEPT !.leased = TRUE] \in Handle
      BY <1>1 DEF Handle
    <2> QED
      BY <1>1, <1>2, <1>4, <2>1, AdvanceType, AdvanceChain, AdvanceLog, OneBecomes DEF Good
  <1>5. CASE Becomes(p, Advance([r EXCEPT !.repair = FALSE]))
    <2>1. [r EXCEPT !.repair = FALSE] \in Handle
      BY <1>1 DEF Handle
    <2> QED
      BY <1>1, <1>2, <1>5, <2>1, AdvanceType, AdvanceChain, AdvanceLog, OneBecomes DEF Good
  <1>6. CASE Becomes(p, Advance([r EXCEPT !.recovered = <<>>]))
    <2>1. [r EXCEPT !.recovered = <<>>] \in Handle
      BY <1>1, EmptySeq DEF Handle
    <2> QED
      BY <1>1, <1>2, <1>6, <2>1, AdvanceType, AdvanceChain, AdvanceLog, OneBecomes DEF Good
  <1>7. CASE Written(p)
    <2> DEFINE n == r.cursor + Len(r.batch)
               q == Succeeded([r EXCEPT !.materialized = TRUE, !.cursor = @ + Len(r.batch)])
    <2>1. r.op = "write" /\ Becomes(p, q)
      BY <1>7 DEF Written
    <2>2. n \in Nat
      BY <1>1, LenProperties DEF Handle
    <2>3. q = Succeeded([r EXCEPT !.materialized = TRUE, !.cursor = n])
      BY <1>1 DEF Handle
    <2>4. ChainOf(q)
      BY <1>1, <2>1, <2>2, <2>3, WrittenChain
    <2>5. q \in Handle /\ CursorOf(q) /\ NextOf(q)
      BY <1>1, <2>1, WrittenLog
    <2> QED
      BY <2>1, <2>4, <2>5, OneBecomes DEF Good
  <1>8. CASE HeaderWritten(p)
    <2>1. r.op = "header" /\ Becomes(p, Succeeded([r EXCEPT !.materialized = TRUE]))
      BY <1>8 DEF HeaderWritten
    <2> QED
      BY <1>1, <2>1, HeaderChain, HeaderLog, OneBecomes DEF Good
  <1> QED
    BY <1>3, <1>4, <1>5, <1>6, <1>7, <1>8
       DEF TakeLease, Truncated, Rewritten, WriteRefused, OpFails, PublishFails

\* Closing, and the death of a process.
LEMMA HandlesClose ==
    ASSUME TypeOK, Handles, NEW p \in Procs,
           \/ Close(p) \/ CloseAgain(p) \/ CloseDrained(p) \/ Unlock(p) \/ Released(p)
           \/ Outlived(p) \/ Crash(p)
    PROVE  Handles'
  <1> DEFINE r == h[p]
  <1>1. r \in Handle /\ ChainOf(r) /\ CursorOf(r) /\ NextOf(r)
    BY HandleIsGood
  <1>2. CASE Becomes(p, NoHandle)
    BY <1>2, NoHandleGood, OutIsNoHandle, OneBecomes DEF Claimless
  <1>3. CASE Close(p)
    <2>1. r.at \in Routed \ {"releasing"} /\ r.at # "released" /\ Becomes(p, CloseHandle(r))
      BY <1>3 DEF Close, Routed, Unpublished
    <2> QED
      BY <1>1, <2>1, CloseHandleType, CloseChain, SettingLog, OneBecomes DEF Good
  <1>4. CASE CloseAgain(p)
    <2> DEFINE q == [DrainLive(r) EXCEPT !.joined = TRUE]
    <2>1. r.at = "closing" /\ r.op = "idle" /\ Becomes(p, q)
      BY <1>4 DEF CloseAgain
    <2>2. DrainLive(r) \in Handle
      BY <1>1, DrainLiveType
    <2>3. q \in Handle
      BY <2>2 DEF Handle
    <2> QED
      BY <1>1, <2>1, <2>3, CloseAgainChain, SettingLog, OneBecomes DEF Good
  <1>5. CASE CloseDrained(p)
    <2>1. /\ r.at = "closing" /\ r.op = "idle" /\ FullyDrained(r)
          /\ Becomes(p, [r EXCEPT !.at = "releasing", !.sealed = Len(r.log)])
      BY <1>5 DEF CloseDrained
    <2> QED
      BY <1>1, <2>1, CloseAgainChain, SealedLog, OneBecomes DEF Good
  <1>6. CASE r.at = "releasing" /\ Becomes(p, [r EXCEPT !.at = "released"])
    <2>1. [r EXCEPT !.at = "released"] \in Handle
      BY <1>1 DEF Handle, Stations
    <2> QED
      BY <1>1, <1>6, <2>1, ReleasedChain, SettingLog, OneBecomes DEF Good
  <1>7. CASE Unlock(p)
    <2>1. h' = h
      BY <1>7 DEF Unlock
    <2> QED
      BY <2>1, HandlesAreGood, HandlesAreGoodPrimed
  <1> QED
    BY <1>2, <1>3, <1>4, <1>5, <1>6, <1>7 DEF Released, Outlived, Crash

LEMMA HandlesStep ==
    ASSUME Sound, TypeOK, Handles, AloneInv, DiskInv, Next
    PROVE  Handles'
  <1>1. PICK p \in Procs :
            \/ Create(p) \/ OpenClaim(p) \/ OpenRefused(p) \/ AcquireLease(p) \/ OpenFails(p)
            \/ Load(p)
            \/ \E last \in BOOLEAN : Store(p, last)
            \/ AppendEvent(p) \/ FlushStart(p)
            \/ Chain(p)
            \/ OpFails(p) \/ PublishFails(p) \/ Crash(p)
            \/ Close(p) \/ Closing(p)
    BY DEF Next
  <1> QED
    BY <1>1, HandlesOpen, HandlesAppend, HandlesBatch, HandlesChain, HandlesClose
       DEF Chain, Closing

-----------------------------------------------------------------------------
(* One handle past its claim, and it has the lock. *)

\* What AloneInv says of the handle r of p, with l the lock's holder and s whether
\* the artifact exists.
Placed(p, r, l, s) ==
    /\ r.at \notin Loaded => r = [NoHandle EXCEPT !.at = r.at]
    /\ r.at = "locked" => l = p /\ s
    /\ r.at \in Loaded /\ ~r.leased => ~s
    /\ r.leased => l = p \/ (r.at \in {"releasing", "released"} /\ l = None)

Alone(f) == \A p, q \in Procs : f[p].at \notin Claimless /\ f[q].at \notin Claimless => p = q

LEMMA AloneIsPlaced ==
    /\ AloneInv <=> Alone(h) /\ \A p \in Procs : Placed(p, h[p], lock, stored)
    /\ AloneInv' <=> Alone(h') /\ \A p \in Procs : Placed(p, h'[p], lock', stored')
  BY DEF AloneInv, Alone, Placed

LEMMA ClaimlessIsPlaced ==
    ASSUME NEW s \in Claimless, NEW p, NEW l, NEW f
    PROVE  Placed(p, [NoHandle EXCEPT !.at = s], l, f)
  <1> DEFINE r == [NoHandle EXCEPT !.at = s]
  <1>1. r.at = s /\ r.leased = FALSE
    BY DEF NoHandle
  <1>2. s \notin Loaded /\ s # "locked"
    BY DEF Claimless, Loaded, Routed, Unpublished
  <1>3. r = [NoHandle EXCEPT !.at = r.at]
    BY <1>1
  <1> HIDE DEF r
  <1>4. Placed(p, r, l, f)
    BY <1>1, <1>2, <1>3 DEF Placed
  <1> QED
    BY <1>4 DEF r

\* A handle that no longer has a claim, or waits for one, is placed.
LEMMA ClaimlessStays ==
    ASSUME AloneInv, NEW q \in Procs, h[q].at \in Claimless, NEW l, NEW f
    PROVE  Placed(q, h[q], l, f)
  <1>1. h[q].at \notin Loaded
    BY DEF Claimless, Loaded, Routed, Unpublished
  <1>2. h[q] = [NoHandle EXCEPT !.at = h[q].at]
    BY <1>1 DEF AloneInv
  <1> QED
    BY <1>2, ClaimlessIsPlaced

\* The only handle past its claim moves.
LEMMA AloneMoves ==
    ASSUME TypeOK, AloneInv, NEW p \in Procs, NEW r,
           \A q \in Procs : q # p => h[q].at \in Claimless,
           Becomes(p, r), Placed(p, r, lock', stored')
    PROVE  AloneInv'
  <1>1. \A q \in Procs : h'[q] = IF q = p THEN r ELSE h[q]
    BY DEF Becomes, TypeOK
  <1>2. Alone(h')
    BY <1>1 DEF Alone
  <1>3. \A q \in Procs : Placed(q, h'[q], lock', stored')
    BY <1>1, ClaimlessStays
  <1> QED
    BY <1>2, <1>3, AloneIsPlaced

\* A handle that stays without a claim, or loses it, disturbs nobody.
LEMMA AloneLeaves ==
    ASSUME TypeOK, AloneInv, NEW p \in Procs, NEW s \in Claimless,
           h[p].at \in Claimless,
           Becomes(p, [NoHandle EXCEPT !.at = s]),
           stored' = stored, lock' = lock \/ (lock = p /\ lock' = None)
    PROVE  AloneInv'
  <1>1. \A q \in Procs : h'[q] = IF q = p THEN [NoHandle EXCEPT !.at = s] ELSE h[q]
    BY DEF Becomes, TypeOK
  <1>2. [NoHandle EXCEPT !.at = s].at = s
    BY DEF NoHandle
  <1>3. Alone(h')
    BY <1>1, <1>2, AloneIsPlaced DEF Alone
  <1>4. ASSUME NEW q \in Procs
        PROVE  Placed(q, h'[q], lock', stored')
    <2>1. CASE q = p
      BY <1>1, <2>1, ClaimlessIsPlaced
    <2>2. CASE q # p
      <3>1. Placed(q, h[q], lock, stored)
        BY AloneIsPlaced
      <3>2. h'[q] = h[q] /\ (lock = q => lock' = q) /\ (lock = None => lock' = None)
        BY <1>1, <2>2
      <3> QED
        BY <3>1, <3>2 DEF Placed
    <2> QED
      BY <2>1, <2>2
  <1> QED
    BY <1>3, <1>4, AloneIsPlaced

\* Whoever is past its claim is alone there.
LEMMA OthersWait ==
    ASSUME AloneInv, NEW p \in Procs, h[p].at \notin Claimless
    PROVE  \A q \in Procs : q # p => h[q].at \in Claimless
  BY DEF AloneInv

\* What a handle that is at work keeps.
Keeps(r, q) ==
    /\ q.leased = r.leased /\ q.at \in Loaded
    /\ r.at \in {"releasing", "released"} => q.at \in {"releasing", "released"}

LEMMA AloneKeeps ==
    ASSUME TypeOK, AloneInv, NEW p \in Procs, h[p].at \in Loaded,
           NEW q, Becomes(p, q), Keeps(h[p], q),
           lock' = lock, (stored' = stored) \/ h[p].leased
    PROVE  AloneInv'
  <1>1. h[p].at \notin Claimless /\ h[p] \in Handle
    BY DEF Claimless, Loaded, Routed, Unpublished, TypeOK
  <1>2. Placed(p, h[p], lock, stored)
    BY AloneIsPlaced
  <1>3. q.at # "locked"
    BY DEF Keeps, Loaded, Routed, Unpublished
  <1>4. h[p].leased \in BOOLEAN /\ stored \in BOOLEAN
    BY <1>1 DEF Handle, TypeOK
  <1>5. q.leased => q.leased = TRUE
    BY <1>4 DEF Keeps
  <1>6. Placed(p, q, lock', stored')
    BY <1>2, <1>3, <1>4 DEF Placed, Keeps
  <1> QED
    BY <1>1, <1>6, OthersWait, AloneMoves

LEMMA SettingKeeps ==
    ASSUME NEW r \in Handle, r.at \in Loaded
    PROVE  /\ Keeps(r, DrainLive(r)) /\ Keeps(r, DrainLive([r EXCEPT !.timer = FALSE]))
           /\ Keeps(r, [DrainLive(r) EXCEPT !.joined = TRUE])
           /\ r.at \notin {"releasing", "released"} => Keeps(r, CloseHandle(r))
           /\ Keeps(r, [r EXCEPT !.flush = None])
           /\ r.at \notin {"released"} =>
                 Keeps(r, [r EXCEPT !.at = "releasing", !.sealed = Len(r.log)])
           /\ Keeps(r, [r EXCEPT !.at = "released"])
           /\ Keeps(r, [r EXCEPT !.draining = FALSE, !.joined = FALSE,
                  !.flush = IF @ = "draining" THEN "barrier" ELSE @])
           /\ Keeps(r, [DrainLive(r) EXCEPT !.flush = "draining",
                  !.target = IF r.published THEN Len(r.log) ELSE 0])
  BY DEF Keeps, DrainLive, CloseHandle, Handle, Loaded, Routed

LEMMA BeginKeeps ==
    ASSUME NEW r \in Handle, r.at \in Loaded, NEW client, NEW b
    PROVE  /\ Keeps(r, Begin(r, client, b))
           /\ Keeps(r, Begin([r EXCEPT !.buffered = <<>>], client, b))
           /\ r.at = "setup" => Keeps(r, Publish(r)) /\ \A s \in {"publishing", "storing"} :
                  Keeps(r, Begin([r EXCEPT !.at = s], client, b))
           /\ Keeps(r, Advance([r EXCEPT !.repair = FALSE]))
           /\ Keeps(r, Advance([r EXCEPT !.recovered = <<>>]))
  BY DEF Keeps, Begin, Advance, Publish, Handle, Loaded, Routed, Unpublished

LEMMA AppendKeeps ==
    ASSUME NEW r \in Handle, r.at \in Loaded, NEW e, NEW f
    PROVE  /\ Keeps(r, [r EXCEPT !.log = Append(@, e)])
           /\ Keeps(r, [r EXCEPT !.log = Append(@, e), !.buffered = Append(@, e), !.timer = f])
  BY DEF Keeps, Handle

LEMMA SucceededKeeps ==
    ASSUME NEW r \in Handle, ChainOf(r), r.at \in Loaded, NEW n
    PROVE  /\ Keeps(r, Succeeded([r EXCEPT !.materialized = TRUE, !.cursor = n]))
           /\ Keeps(r, Succeeded([r EXCEPT !.materialized = TRUE]))
  BY DEF Keeps, Succeeded, Publish, Idle, Handle, Loaded, Routed, Unpublished

LEMMA FailedKeeps ==
    ASSUME NEW r \in Handle, r.at \in Loaded
    PROVE  Keeps(r, Failed(r))
  BY DEF Keeps, Failed, AfterFailedDrain, CloseHandle, DrainLive, Idle, Handle, Loaded, Routed,
     Unpublished

LEMMA FileOpsAreLeased ==
    ASSUME NEW r \in Handle, ChainOf(r), r.op \in FileOps
    PROVE  r.leased
  BY DEF ChainOf, Handle, Stage, FileOps, None

LEMMA AloneOpen ==
    ASSUME Sound, TypeOK, AloneInv, NEW p \in Procs,
           \/ Create(p) \/ OpenClaim(p) \/ OpenRefused(p) \/ AcquireLease(p) \/ OpenFails(p)
           \/ Load(p)
    PROVE  AloneInv'
  <1> USE ProcsAssumption DEF disk
  <1>1. CASE Create(p)
    <2> DEFINE r == [NoHandle EXCEPT !.at = "setup"]
    <2>1. /\ \A q \in Procs : h[q].at \in Claimless
          /\ Becomes(p, r) /\ stored' = stored /\ ~stored
      BY <1>1 DEF Create, Claimless
    <2>2. r.at = "setup" /\ r.leased = FALSE
      BY DEF NoHandle
    <2> HIDE DEF r
    <2>3. Placed(p, r, lock', stored')
      BY <2>1, <2>2 DEF Placed, Loaded, Routed, Unpublished
    <2> QED
      BY <2>1, <2>3, AloneMoves
  <1>2. CASE OpenClaim(p)
    BY <1>2, AloneLeaves DEF OpenClaim, Claimless
  <1>3. CASE OpenRefused(p)
    BY <1>3, AloneLeaves, OutIsNoHandle DEF OpenRefused, Claimless
  <1>4. CASE AcquireLease(p)
    <2> DEFINE r == [h[p] EXCEPT !.at = "locked"]
    <2>1. /\ h[p].at = "opening" /\ h[p] \in Handle /\ lock' = p /\ Becomes(p, r)
          /\ stored /\ stored' = stored /\ lock = None
          /\ \A q \in Procs : h[q].at \notin {"releasing", "released"}
      BY <1>4 DEF AcquireLease, TypeOK, Sound
    <2>2. h[p] = [NoHandle EXCEPT !.at = h[p].at]
      BY <2>1 DEF AloneInv, Loaded, Routed, Unpublished
    <2>3. r = [NoHandle EXCEPT !.at = "locked"]
      BY <2>2 DEF NoHandle
    <2>4. ASSUME NEW q \in Procs, q # p
          PROVE  h[q].at \in Claimless
      <3>1. Placed(q, h[q], lock, stored) /\ h[q].at \in Stations
        BY AloneIsPlaced DEF TypeOK, Handle
      <3> QED
        BY <2>1, <3>1 DEF Placed, Claimless, Loaded, Stations
    <2>5. r.at = "locked" /\ r.leased = FALSE
      BY <2>3 DEF NoHandle
    <2> HIDE DEF r
    <2>6. Placed(p, r, lock', stored')
      BY <2>1, <2>3, <2>5 DEF Placed, Loaded, Routed, Unpublished
    <2> QED
      BY <2>1, <2>4, <2>6, AloneMoves
  <1>5. CASE OpenFails(p)
    <2>1. h[p].at \notin Claimless /\ Becomes(p, NoHandle)
      BY <1>5 DEF OpenFails, Claimless
    <2>2. Placed(p, NoHandle, lock', stored')
      BY ClaimlessIsPlaced, OutIsNoHandle DEF Claimless
    <2> QED
      BY <2>1, <2>2, OthersWait, AloneMoves
  <1>6. CASE Load(p)
    <2> DEFINE r == [NoHandle EXCEPT !.at = "setup", !.log = View, !.cursor = StoredEvents,
                       !.materialized = TRUE, !.leased = TRUE,
                       !.repair = torn, !.recovered = rescued]
    <2>1. /\ h[p].at = "locked" /\ h[p].at \notin Claimless
          /\ Becomes(p, r) /\ stored' = stored /\ lock' = lock
      BY <1>6 DEF Load, Claimless
    <2>2. lock = p
      BY <2>1 DEF AloneInv
    <2>3. r.at = "setup" /\ r.leased = TRUE
      BY DEF NoHandle
    <2> HIDE DEF r
    <2>4. Placed(p, r, lock', stored')
      BY <2>1, <2>2, <2>3 DEF Placed, Loaded, Routed, Unpublished
    <2> QED
      BY <2>1, <2>4, OthersWait, AloneMoves
  <1> QED
    BY <1>1, <1>2, <1>3, <1>4, <1>5, <1>6

LEMMA AloneWork ==
    ASSUME Sound, TypeOK, Handles, AloneInv, NEW p \in Procs,
           \/ \E last \in BOOLEAN : Store(p, last)
           \/ AppendEvent(p) \/ FlushStart(p) \/ Chain(p) \/ OpFails(p) \/ PublishFails(p)
    PROVE  AloneInv'
  <1> DEFINE r == h[p]
  <1> USE DEF disk
  <1>1. r \in Handle /\ ChainOf(r)
    BY HandleIsGood
  <1>2. r.leased \in BOOLEAN /\ stored \in BOOLEAN
    BY <1>1 DEF Handle, TypeOK
  <1>3. r.op # "idle" \/ r.timer \/ r.draining \/ r.flush # None => r.at \in Loaded
    BY BusyIsLoaded
  <1>4. ASSUME NEW q, r.at \in Loaded, Becomes(p, q), Keeps(r, q), lock' = lock,
               stored' = stored \/ (stored' = TRUE /\ r.leased = TRUE)
        PROVE  AloneInv'
    <2>1. (stored' = stored) \/ r.leased
      BY <1>2, <1>4
    <2> QED
      BY <1>4, <2>1, AloneKeeps
  <1>5. CASE \E last \in BOOLEAN : Store(p, last)
    <2>1. PICK last \in BOOLEAN : Store(p, last)
      BY <1>5
    <2> DEFINE b == SubSeq(r.log, r.cursor + 1, Len(r.log))
               s == IF last THEN "publishing" ELSE "storing"
    <2>2. s \in {"publishing", "storing"}
      OBVIOUS
    <2>3. /\ r.at = "setup" /\ r.at \in Loaded /\ lock' = lock /\ stored' = stored
          /\ Becomes(p, Begin([r EXCEPT !.at = s], "append", b)) \/ Becomes(p, Publish(r))
      BY <2>1 DEF Store, Loaded, Routed, Unpublished
    <2> HIDE DEF b, s
    <2> QED
      BY <1>1, <1>4, <2>2, <2>3, BeginKeeps
  <1>6. CASE AppendEvent(p)
    <2>1. r.at \in Loaded
      BY <1>1, <1>6 DEF AppendEvent, ChainOf, Loaded, Routed
    <2> DEFINE e == [seq |-> Len(r.log) + 1, id |-> made + 1]
               q == [r EXCEPT !.log = Append(@, e)]
               b == [r EXCEPT !.log = Append(@, e), !.buffered = Append(@, e),
                         !.timer = Armed(r)]
    <2>2. b = [q EXCEPT !.buffered = Append(@, e), !.timer = Armed(r)]
      BY <1>1 DEF Handle
    <2>3. Becomes(p, b) \/ Becomes(p, q)
      BY <1>6, <2>2 DEF AppendEvent
    <2>4. lock' = lock /\ stored' = stored
      BY <1>6 DEF AppendEvent
    <2> HIDE DEF e
    <2>5. Keeps(r, q) /\ Keeps(r, b)
      BY <1>1, <2>1, AppendKeeps
    <2> HIDE DEF q, b
    <2> QED
      BY <1>4, <2>1, <2>3, <2>4, <2>5
  <1>7. CASE FlushStart(p)
    <2>1. /\ lock' = lock /\ stored' = stored
          /\ Becomes(p, [DrainLive(r) EXCEPT !.flush = "draining",
                            !.target = IF r.published THEN Len(r.log) ELSE 0])
      BY <1>7 DEF FlushStart
    <2>2. r.at \in Loaded
      BY <1>7 DEF FlushStart, Sound, Loaded, Routed, Unpublished
    <2> QED
      BY <1>1, <1>4, <2>1, <2>2, SettingKeeps
  <1>8. CASE TimerFires(p) \/ DrainEnds(p)
    <2>1. r.at \in Loaded /\ lock' = lock /\ stored' = stored
      BY <1>3, <1>8 DEF TimerFires, DrainEnds
    <2> QED
      BY <1>1, <1>4, <1>8, <2>1, SettingKeeps DEF TimerFires, DrainEnds
  <1>9. CASE DrainTurn(p)
    <2>1. r.at \in Loaded /\ lock' = lock /\ stored' = stored
      BY <1>3, <1>9 DEF DrainTurn
    <2> QED
      BY <1>1, <1>4, <1>9, <2>1, BeginKeeps DEF DrainTurn
  <1>10. CASE Barrier(p)
    <2>1. r.at \in Loaded /\ lock' = lock /\ stored' = stored
      BY <1>3, <1>10 DEF Barrier, None
    <2>2. Becomes(p, [r EXCEPT !.flush = None]) \/ Becomes(p, Begin(r, "flush", <<>>))
      BY <1>10 DEF Barrier
    <2> QED
      BY <1>1, <1>4, <2>1, <2>2, SettingKeeps, BeginKeeps
  <1>11. CASE Becomes(p, Failed(r)) /\ r.op # "idle" /\ lock' = lock
                  /\ (stored' = stored \/ (stored' = TRUE /\ r.leased = TRUE))
    BY <1>1, <1>3, <1>4, <1>11, FailedKeeps
  <1>12. CASE TakeLease(p)
    <2>1. r.at \in Loaded /\ stored' = stored /\ r.op = "lease"
      BY <1>3, <1>12 DEF TakeLease
    <2>2. CASE lock = None /\ lock' = p /\ Becomes(p, Advance([r EXCEPT !.leased = TRUE]))
      <3> DEFINE q == Advance([r EXCEPT !.leased = TRUE])
      <3>1. q.at = r.at /\ q.leased = TRUE
        BY <1>1 DEF Advance, Handle
      <3>2. r.at \notin Claimless /\ r.at # "locked"
        BY <2>1 DEF Claimless, Loaded, Routed, Unpublished
      <3> HIDE DEF q
      <3>3. Placed(p, q, lock', stored')
        BY <2>1, <2>2, <3>1, <3>2 DEF Placed
      <3> QED
        BY <2>2, <3>2, <3>3, OthersWait, AloneMoves DEF q
    <2>3. CASE lock' = lock /\ Becomes(p, Failed(r))
      BY <1>11, <2>1, <2>3
    <2> QED
      BY <1>12, <2>2, <2>3 DEF TakeLease
  <1>13. CASE Truncated(p) \/ Rewritten(p)
    <2>1. r.at \in Loaded /\ lock' = lock /\ stored' = stored
      BY <1>3, <1>13 DEF Truncated, Rewritten
    <2> QED
      BY <1>1, <1>4, <1>13, <2>1, BeginKeeps DEF Truncated, Rewritten
  <1>14. CASE Written(p) \/ HeaderWritten(p)
    <2>1. r.at \in Loaded /\ lock' = lock /\ stored' = TRUE /\ r.op \in FileOps
      BY <1>3, <1>14 DEF Written, HeaderWritten, FileOps
    <2>2. r.leased = TRUE
      BY <1>1, <1>2, <2>1, FileOpsAreLeased
    <2>3. [r EXCEPT !.materialized = TRUE, !.cursor = @ + Len(r.batch)]
              = [r EXCEPT !.materialized = TRUE, !.cursor = r.cursor + Len(r.batch)]
      BY <1>1 DEF Handle
    <2>4. \/ Becomes(p, Succeeded([r EXCEPT !.materialized = TRUE,
                                       !.cursor = r.cursor + Len(r.batch)]))
          \/ Becomes(p, Succeeded([r EXCEPT !.materialized = TRUE]))
      BY <1>14, <2>3 DEF Written, HeaderWritten
    <2> QED
      BY <1>1, <1>4, <2>1, <2>2, <2>4, SucceededKeeps
  <1>15. CASE WriteRefused(p) \/ OpFails(p)
    BY <1>11, <1>15 DEF WriteRefused, OpFails, FileOps
  <1>16. CASE PublishFails(p)
    <2>1. r.op \in FileOps /\ r.op # "idle" /\ stored' = TRUE /\ lock' = lock
          /\ Becomes(p, Failed(r))
      BY <1>16 DEF PublishFails, FileOps
    <2>2. r.leased = TRUE
      BY <1>1, <1>2, <2>1, FileOpsAreLeased
    <2> QED
      BY <1>11, <2>1, <2>2
  <1> QED
    BY <1>5, <1>6, <1>7, <1>8, <1>9, <1>10, <1>12, <1>13, <1>14, <1>15, <1>16 DEF Chain

LEMMA IdleIsNotInterrupted ==
    ASSUME NEW r, r.op = "idle"
    PROVE  ~Interrupted(r)
  BY DEF Interrupted, Content

LEMMA AloneClose ==
    ASSUME TypeOK, Handles, AloneInv, NEW p \in Procs,
           Close(p) \/ Closing(p) \/ Crash(p)
    PROVE  AloneInv'
  <1> DEFINE r == h[p]
  <1> USE DEF disk
  <1>1. r \in Handle /\ ChainOf(r)
    BY HandleIsGood
  <1>2. r.leased \in BOOLEAN /\ stored \in BOOLEAN
    BY <1>1 DEF Handle, TypeOK
  <1>3. ASSUME NEW q, r.at \in Loaded, Becomes(p, q), Keeps(r, q), lock' = lock, stored' = stored
        PROVE  AloneInv'
    BY <1>3, AloneKeeps
  <1>4. CASE Close(p)
    <2>1. /\ r.at \in Loaded /\ r.at \notin {"releasing", "released"}
          /\ lock' = lock /\ stored' = stored /\ Becomes(p, CloseHandle(r))
      BY <1>4 DEF Close, Loaded, Routed, Unpublished
    <2> QED
      BY <1>1, <1>3, <2>1, SettingKeeps
  <1>5. CASE CloseAgain(p) \/ CloseDrained(p)
    <2>1. r.at \in Loaded /\ r.at = "closing" /\ lock' = lock /\ stored' = stored
      BY <1>5 DEF CloseAgain, CloseDrained, Loaded, Routed
    <2> QED
      BY <1>1, <1>3, <1>5, <2>1, SettingKeeps DEF CloseAgain, CloseDrained
  <1>6. CASE Unlock(p)
    <2>1. r.at = "releasing" /\ lock' = None /\ h' = h /\ stored' = stored /\ lock = p
      BY <1>6 DEF Unlock, GivesUpLock
    <2>2. r.at \notin Claimless /\ r.at \in Loaded
      BY <2>1 DEF Claimless, Loaded, Routed
    <2>3. Placed(p, r, lock', stored')
      BY <2>1, <2>2, AloneIsPlaced DEF Placed, Loaded, Routed
    <2>4. \A q \in Procs : Placed(q, h'[q], lock', stored')
      BY <2>1, <2>2, <2>3, OthersWait, ClaimlessStays
    <2> QED
      BY <2>1, <2>4, AloneIsPlaced
  <1>7. CASE Released(p) /\ Becomes(p, [r EXCEPT !.at = "released"])
    <2>1. r.at \in Loaded /\ r.at = "releasing" /\ lock' = lock /\ stored' = stored
      BY <1>7 DEF Released, Loaded, Routed
    <2> QED
      BY <1>1, <1>3, <1>7, <2>1, SettingKeeps
  <1>8. CASE r.at \notin Claimless /\ Becomes(p, NoHandle)
    <2>1. Placed(p, NoHandle, lock', stored')
      BY ClaimlessIsPlaced, OutIsNoHandle DEF Claimless
    <2> QED
      BY <1>8, <2>1, OthersWait, AloneMoves
  <1>9. CASE Crash(p) /\ r.at \in Claimless
    <2>1. r.op = "idle"
      BY <1>9, BusyIsLoaded DEF Claimless, Loaded, Routed, Unpublished
    <2>2. ~Interrupted(r)
      BY <2>1, IdleIsNotInterrupted
    <2>3. stored' = stored
      BY <1>9, <2>2 DEF Crash
    <2>4. lock' = lock \/ (lock = p /\ lock' = None)
      BY <1>9 DEF Crash
    <2>5. "out" \in Claimless /\ Becomes(p, [NoHandle EXCEPT !.at = "out"])
      BY <1>9, OutIsNoHandle DEF Claimless, Crash
    <2> QED
      BY <1>9, <2>3, <2>4, <2>5, AloneLeaves
  <1> QED
    BY <1>4, <1>5, <1>6, <1>7, <1>8, <1>9 DEF Closing, Released, Outlived, Crash, Claimless

LEMMA AloneStep ==
    ASSUME Sound, TypeOK, Handles, AloneInv, Next
    PROVE  AloneInv'
  <1>1. PICK p \in Procs :
            \/ Create(p) \/ OpenClaim(p) \/ OpenRefused(p) \/ AcquireLease(p) \/ OpenFails(p)
            \/ Load(p)
            \/ \E last \in BOOLEAN : Store(p, last)
            \/ AppendEvent(p) \/ FlushStart(p)
            \/ Chain(p)
            \/ OpFails(p) \/ PublishFails(p) \/ Crash(p)
            \/ Close(p) \/ Closing(p)
    BY DEF Next
  <1> QED
    BY <1>1, AloneOpen, AloneWork, AloneClose

-----------------------------------------------------------------------------
(* What is on disk, against the handle that writes it. *)

\* DiskOf of a handle r, over an artifact with lines l and rescued records c that
\* exists if s.
Kept(r, s, l, c) ==
    /\ IF r.materialized
       THEN /\ s /\ Len(r.recovered) <= r.cursor
            /\ l = SubSeq(r.log, 1, Acknowledged(r))
            /\ r.recovered = SubSeq(r.log, Acknowledged(r) + 1, r.cursor)
            /\ c \in {r.recovered, <<>>} /\ (~r.repair => c = <<>>)
       ELSE r.cursor = 0 /\ r.recovered = <<>> /\ ~r.repair /\ c = <<>> /\ IsPrefix(l, r.log)
    /\ r.at = "setup" \/ (r.published /\ Drained(r)) => l \o c = SubSeq(r.log, 1, r.cursor)

\* The rest of DiskInv: t is whether the artifact is torn, m what was promised.
Durable(s, l, t, c, m) ==
    /\ ~t => c = <<>>
    /\ ~s => l = <<>> /\ c = <<>> /\ ~t
    /\ Log!Contiguous(l \o c) /\ IsPrefix(m, l)

LEMMA DiskIsKept ==
    /\ DiskInv <=> /\ Durable(stored, lines, torn, rescued, promised)
                   /\ \A p \in Procs : h[p].at \in Loaded => Kept(h[p], stored, lines, rescued)
    /\ DiskInv' <=> /\ Durable(stored', lines', torn', rescued', promised')
                    /\ \A p \in Procs : h'[p].at \in Loaded => Kept(h'[p], stored', lines', rescued')
  BY DEF DiskInv, Durable, Kept, DiskOf, View

\* The only loaded handle moves.
LEMMA DiskMoves ==
    ASSUME TypeOK, NEW p \in Procs, NEW r,
           \A q \in Procs : q # p => h[q].at \in Claimless,
           Becomes(p, r), r.at \in Loaded => Kept(r, stored', lines', rescued'),
           Durable(stored', lines', torn', rescued', promised')
    PROVE  DiskInv'
  <1>1. \A q \in Procs : h'[q] = IF q = p THEN r ELSE h[q]
    BY DEF Becomes, TypeOK
  <1>2. \A q \in Procs : h[q].at \in Claimless => h[q].at \notin Loaded
    BY DEF Claimless, Loaded, Routed, Unpublished
  <1>3. \A q \in Procs : h'[q].at \in Loaded => Kept(h'[q], stored', lines', rescued')
    BY <1>1, <1>2
  <1> QED
    BY <1>3, DiskIsKept

\* A handle that is not loaded leaves the disk, and whoever is, alone.
LEMMA DiskStays ==
    ASSUME TypeOK, DiskInv, NEW p \in Procs, NEW r,
           Becomes(p, r), r.at \notin Loaded, UNCHANGED <<disk, promised>>
    PROVE  DiskInv'
  <1>1. \A q \in Procs : h'[q] = IF q = p THEN r ELSE h[q]
    BY DEF Becomes, TypeOK
  <1>2. \A q \in Procs : h'[q].at \in Loaded => Kept(h'[q], stored', lines', rescued')
    BY <1>1, DiskIsKept DEF disk
  <1>3. Durable(stored', lines', torn', rescued', promised')
    BY DiskIsKept DEF disk
  <1> QED
    BY <1>2, <1>3, DiskIsKept

\* What Kept sees of a handle.
SameDisk(r, q) ==
    /\ q.log = r.log /\ q.cursor = r.cursor /\ q.materialized = r.materialized
    /\ q.recovered = r.recovered /\ q.repair = r.repair
    /\ q.at = "setup" \/ (q.published /\ Drained(q))
           => r.at = "setup" \/ (r.published /\ Drained(r))

LEMMA KeptSame ==
    ASSUME NEW r, NEW q, SameDisk(r, q), NEW s, NEW l, NEW c, Kept(r, s, l, c)
    PROVE  Kept(q, s, l, c)
  BY DEF SameDisk, Kept, Acknowledged

LEMMA SettingDisk ==
    ASSUME NEW r \in Handle
    PROVE  /\ SameDisk(r, DrainLive(r)) /\ SameDisk(r, DrainLive([r EXCEPT !.timer = FALSE]))
           /\ SameDisk(r, [DrainLive(r) EXCEPT !.joined = TRUE])
           /\ SameDisk(r, CloseHandle(r))
           /\ SameDisk(r, [r EXCEPT !.flush = None])
           /\ SameDisk(r, [r EXCEPT !.at = "releasing", !.sealed = Len(r.log)])
           /\ SameDisk(r, [r EXCEPT !.at = "released"])
           /\ SameDisk(r, [r EXCEPT !.draining = FALSE, !.joined = FALSE,
                  !.flush = IF @ = "draining" THEN "barrier" ELSE @])
           /\ SameDisk(r, [DrainLive(r) EXCEPT !.flush = "draining",
                  !.target = IF r.published THEN Len(r.log) ELSE 0])
           /\ SameDisk(r, Advance([r EXCEPT !.leased = TRUE]))
  BY DEF SameDisk, DrainLive, CloseHandle, Advance, Drained, Handle

LEMMA BeginDisk ==
    ASSUME NEW r \in Handle, ChainOf(r), r.op = "idle", NEW b
    PROVE  /\ SameDisk(r, Begin(r, "flush", <<>>))
           /\ r.buffered # <<>> => SameDisk(r, Begin([r EXCEPT !.buffered = <<>>], "drain", b))
           /\ r.at = "setup" => SameDisk(r, Publish(r)) /\ \A s \in {"publishing", "storing"} :
                  SameDisk(r, Begin([r EXCEPT !.at = s], "append", b))
  BY DEF SameDisk, ChainOf, Begin, Advance, Publish, Drained, Handle, None

LEMMA FailedDisk ==
    ASSUME NEW r \in Handle, ChainOf(r), CursorOf(r), NextOf(r), r.op # "idle"
    PROVE  /\ SameDisk(r, Failed(r))
           /\ Failed(r).at = "setup" \/ (Failed(r).published /\ Drained(Failed(r)))
                  => r.client = "flush"
  <1>1. /\ Failed(r).log = r.log /\ Failed(r).cursor = r.cursor
        /\ Failed(r).published = r.published
        /\ r.client = "drain" => Failed(r).buffered # <<>>
        /\ r.client # "drain" => Failed(r).buffered = r.buffered
    BY FailedLog
  <1>2. /\ Failed(r).materialized = r.materialized /\ Failed(r).recovered = r.recovered
        /\ Failed(r).repair = r.repair
        /\ Failed(r).at = "setup" => r.at = "setup"
    BY DEF Failed, AfterFailedDrain, CloseHandle, DrainLive, Idle, Handle, Unpublished
  <1>3. r.at = "setup" => r.client = "flush"
    BY DEF ChainOf, None
  <1>4. Failed(r).published /\ Drained(Failed(r)) => r.published /\ r.client = "flush" /\ Drained(r)
    BY <1>1 DEF Drained, ChainOf, Handle, None
  <1> HIDE DEF Failed
  <1> QED
    BY <1>1, <1>2, <1>3, <1>4 DEF SameDisk

\* A front of a contiguous log is contiguous.
LEMMA FrontContiguous ==
    ASSUME NEW s \in Seq(Event), Log!Contiguous(s), NEW t \in Seq(Event), IsPrefix(t, s)
    PROVE  Log!Contiguous(t)
  <1>1. Len(s) \in Nat /\ Len(t) \in Nat
    BY LenProperties
  <1>2. \A i \in 1 .. Len(s) : s[i].seq = i
    BY ContiguousElements
  <1>3. Len(t) <= Len(s) /\ \A i \in 1 .. Len(t) : t[i] = s[i]
    BY PrefixIsFront
  <1>4. \A i \in 1 .. Len(t) : t[i].seq = i
    BY <1>1, <1>2, <1>3
  <1> QED
    BY <1>4, ContiguousElements

\* The lines of a materialized session are the acknowledged front of its log.
LEMMA KeptFacts ==
    ASSUME NEW r \in Handle, CursorOf(r), NEW s, NEW l \in Seq(Event), NEW c, Kept(r, s, l, c)
    PROVE  /\ r.log \in Seq(Event) /\ Log!Contiguous(r.log) /\ Len(r.log) \in Nat
           /\ r.cursor \in Nat /\ r.cursor <= Len(r.log)
           /\ r.recovered \in Seq(Event) /\ r.batch \in Seq(Event)
           /\ Acknowledged(r) \in Nat /\ Acknowledged(r) <= r.cursor
           /\ l \o <<>> = l
           /\ r.recovered = <<>> => Acknowledged(r) = r.cursor
           /\ IsPrefix(l, r.log)
  <1>1. /\ r.log \in Seq(Event) /\ Len(r.log) \in Nat /\ r.cursor \in Nat
        /\ r.recovered \in Seq(Event) /\ Len(r.recovered) \in Nat /\ r.batch \in Seq(Event)
    BY LenProperties DEF Handle
  <1>2. r.cursor <= Len(r.log) /\ Log!Contiguous(r.log)
    BY DEF CursorOf
  <1>3. r.recovered = <<>> => Len(r.recovered) = 0
    BY EmptySeq
  <1>4. Len(r.recovered) <= r.cursor
    BY <1>1, <1>3 DEF Kept
  <1>5. /\ Acknowledged(r) \in Nat /\ Acknowledged(r) <= r.cursor
        /\ r.recovered = <<>> => Acknowledged(r) = r.cursor
    BY <1>1, <1>3, <1>4 DEF Acknowledged
  <1>6. IsPrefix(l, r.log)
    <2>1. Acknowledged(r) <= Len(r.log)
      BY <1>1, <1>2, <1>5
    <2>2. IsPrefix(SubSeq(r.log, 1, Acknowledged(r)), r.log)
      BY <1>1, <1>5, <2>1, FrontIsPrefix
    <2> QED
      BY <2>2 DEF Kept
  <1> QED
    BY <1>1, <1>2, <1>5, <1>6, ConcatEmptySeq

\* What a reader is given is a front of the session's log.
LEMMA KeptView ==
    ASSUME NEW r \in Handle, CursorOf(r), NEW s, NEW l \in Seq(Event), NEW c, Kept(r, s, l, c)
    PROVE  IsPrefix(l \o c, r.log)
  <1>1. /\ r.log \in Seq(Event) /\ Len(r.log) \in Nat
        /\ r.cursor \in Nat /\ r.cursor <= Len(r.log)
        /\ Acknowledged(r) \in Nat /\ Acknowledged(r) <= r.cursor
        /\ l \o <<>> = l /\ IsPrefix(l, r.log)
    BY KeptFacts
  <1>2. CASE c = <<>>
    BY <1>1, <1>2
  <1>3. CASE c # <<>>
    <2>1. /\ l = SubSeq(r.log, 1, Acknowledged(r))
          /\ c = SubSeq(r.log, Acknowledged(r) + 1, r.cursor)
      BY <1>3 DEF Kept
    <2>2. l \o c = SubSeq(r.log, 1, r.cursor)
      BY <1>1, <2>1, FrontGrows
    <2> QED
      BY <1>1, <2>2, FrontIsPrefix
  <1> QED
    BY <1>2, <1>3

\* An event behind the log changes nothing of what is stored.
LEMMA AppendKept ==
    ASSUME NEW r \in Handle, ChainOf(r), CursorOf(r), NEW s, NEW l \in Seq(Event), NEW c,
           Kept(r, s, l, c), NEW e \in Event, NEW f
    PROVE  /\ ~r.published => Kept([r EXCEPT !.log = Append(@, e)], s, l, c)
           /\ r.published => Kept([r EXCEPT !.log = Append(@, e), !.buffered = Append(@, e),
                                      !.timer = f], s, l, c)
  <1> DEFINE log == Append(r.log, e)
             q == [r EXCEPT !.log = Append(@, e)]
             b == [r EXCEPT !.log = Append(@, e), !.buffered = Append(@, e), !.timer = f]
  <1>1. /\ r.log \in Seq(Event) /\ Len(r.log) \in Nat
        /\ r.cursor \in Nat /\ r.cursor <= Len(r.log)
        /\ Acknowledged(r) \in Nat /\ Acknowledged(r) <= r.cursor
        /\ IsPrefix(l, r.log)
    BY KeptFacts
  <1>2. /\ log \in Seq(Event) /\ Len(log) = Len(r.log) + 1
        /\ \A i \in 1 .. Len(r.log) : log[i] = r.log[i]
    BY <1>1, AppendProperties
  <1>3. /\ SubSeq(log, 0 + 1, Acknowledged(r)) = SubSeq(r.log, 0 + 1, Acknowledged(r))
        /\ SubSeq(log, 0 + 1, r.cursor) = SubSeq(r.log, 0 + 1, r.cursor)
        /\ SubSeq(log, Acknowledged(r) + 1, r.cursor) = SubSeq(r.log, Acknowledged(r) + 1, r.cursor)
    <2>1. 0 \in Nat /\ 0 <= r.cursor /\ 0 <= Acknowledged(r) /\ Acknowledged(r) <= Len(r.log)
      BY <1>1
    <2>2. SubSeq(log, 0 + 1, Acknowledged(r)) = SubSeq(r.log, 0 + 1, Acknowledged(r))
      BY <1>1, <2>1, PartOfAppend
    <2>3. SubSeq(log, 0 + 1, r.cursor) = SubSeq(r.log, 0 + 1, r.cursor)
      BY <1>1, <2>1, PartOfAppend
    <2>4. SubSeq(log, Acknowledged(r) + 1, r.cursor)
              = SubSeq(r.log, Acknowledged(r) + 1, r.cursor)
      BY SMTT(20), <1>1, <2>1, PartOfAppend
    <2> QED
      BY <2>2, <2>3, <2>4
  <1>4. IsPrefix(l, log)
    <2> HIDE DEF log
    <2>1. IsPrefix(r.log, log)
      BY <1>1, <1>2, PrefixIsFront
    <2> QED
      BY <1>1, <1>2, <2>1, PrefixTransitive
  <1>5. Append(r.buffered, e) # <<>>
    <2>1. r.buffered \in Seq(Event)
      BY DEF Handle
    <2>2. Len(Append(r.buffered, e)) = Len(r.buffered) + 1 /\ Len(r.buffered) \in Nat
      BY <2>1, AppendProperties, LenProperties
    <2> QED
      BY SMTT(20), <2>2, EmptySeq
  <1>6. /\ q.log = log /\ b.log = log /\ q.cursor = r.cursor /\ b.cursor = r.cursor
        /\ q.recovered = r.recovered /\ b.recovered = r.recovered
        /\ q.materialized = r.materialized /\ b.materialized = r.materialized
        /\ q.repair = r.repair /\ b.repair = r.repair
        /\ q.at = r.at /\ b.at = r.at
        /\ q.published = r.published /\ b.buffered = Append(r.buffered, e)
    BY DEF Handle
  <1>7. Acknowledged(q) = Acknowledged(r) /\ Acknowledged(b) = Acknowledged(r)
    BY <1>6 DEF Acknowledged
  <1>8. 0 + 1 = 1
    OBVIOUS
  <1>9. ~Drained(b)
    BY <1>5, <1>6 DEF Drained
  <1>10. r.published => r.at # "setup"
    BY DEF ChainOf
  <1> HIDE DEF q, b, log
  <1>11. ~r.published => Kept(q, s, l, c)
    BY <1>3, <1>4, <1>6, <1>7, <1>8 DEF Kept
  <1>12. r.published => Kept(b, s, l, c)
    BY <1>3, <1>4, <1>6, <1>7, <1>8, <1>9, <1>10 DEF Kept
  <1> QED
    BY <1>11, <1>12 DEF q, b

\* An operation on the chain that writes finds no repair left to do.
LEMMA StageFacts ==
    ASSUME NEW r \in Handle, ChainOf(r)
    PROVE  /\ r.op = "truncate" => r.repair /\ r.client \in {"append", "drain"}
           /\ r.op = "rewrite" => ~r.repair /\ r.recovered # <<>> /\ r.client \in {"append", "drain"}
           /\ r.op = "write" => ~r.repair /\ r.recovered = <<>> /\ r.client \in {"append", "drain"}
           /\ r.op = "header" => r.client = "flush" /\ r.batch = <<>>
           /\ r.client \in {"append", "drain"} => ~(r.at = "setup" \/ (r.published /\ Drained(r)))
  BY DEF ChainOf, Stage, Drained, Handle, None

LEMMA TruncatedKept ==
    ASSUME NEW r \in Handle, ChainOf(r), CursorOf(r), r.op = "truncate",
           NEW s, NEW l \in Seq(Event), NEW c, Kept(r, s, l, c)
    PROVE  Kept(Advance([r EXCEPT !.repair = FALSE]), s, l, <<>>)
  <1> DEFINE q == Advance([r EXCEPT !.repair = FALSE])
  <1>1. /\ q.log = r.log /\ q.cursor = r.cursor /\ q.materialized = r.materialized
        /\ q.recovered = r.recovered /\ q.repair = FALSE /\ q.at = r.at
        /\ q.published = r.published /\ q.client = r.client /\ q.buffered = r.buffered
    BY DEF Advance, Handle
  <1>2. ~(r.at = "setup" \/ (r.published /\ Drained(r))) /\ r.repair
    BY StageFacts
  <1>3. ~(q.at = "setup" \/ (q.published /\ Drained(q)))
    BY <1>1, <1>2 DEF Drained
  <1>4. Acknowledged(q) = Acknowledged(r)
    BY <1>1 DEF Acknowledged
  <1> HIDE DEF q
  <1>5. Kept(q, s, l, <<>>)
    BY <1>1, <1>2, <1>3, <1>4 DEF Kept
  <1> QED
    BY <1>5 DEF q

LEMMA RewrittenKept ==
    ASSUME NEW r \in Handle, ChainOf(r), CursorOf(r), r.op = "rewrite",
           NEW s, NEW l \in Seq(Event), NEW c, Kept(r, s, l, c)
    PROVE  /\ Kept(Advance([r EXCEPT !.recovered = <<>>]), s, l \o r.recovered, c)
           /\ c = <<>> /\ s /\ Log!Contiguous(l \o r.recovered)
           /\ l = SubSeq(r.log, 1, Acknowledged(r))
           /\ r.recovered = SubSeq(r.log, Acknowledged(r) + 1, r.cursor)
  <1> DEFINE q == Advance([r EXCEPT !.recovered = <<>>])
  <1>1. /\ q.log = r.log /\ q.cursor = r.cursor /\ q.materialized = r.materialized
        /\ q.recovered = <<>> /\ q.repair = r.repair /\ q.at = r.at
        /\ q.published = r.published /\ q.client = r.client /\ q.buffered = r.buffered
    BY DEF Advance, Handle
  <1>2. /\ ~(r.at = "setup" \/ (r.published /\ Drained(r)))
        /\ ~r.repair /\ r.recovered # <<>>
    BY StageFacts
  <1>3. ~(q.at = "setup" \/ (q.published /\ Drained(q)))
    BY <1>1, <1>2 DEF Drained
  <1>4. /\ r.log \in Seq(Event) /\ Len(r.log) \in Nat
        /\ r.cursor \in Nat /\ r.cursor <= Len(r.log)
        /\ Acknowledged(r) \in Nat /\ Acknowledged(r) <= r.cursor
    BY KeptFacts
  <1>5. /\ r.materialized /\ s /\ c = <<>>
        /\ l = SubSeq(r.log, 1, Acknowledged(r))
        /\ r.recovered = SubSeq(r.log, Acknowledged(r) + 1, r.cursor)
    BY <1>2 DEF Kept
  <1>6. l \o r.recovered = SubSeq(r.log, 1, r.cursor)
    <2>1. SubSeq(r.log, 1, Acknowledged(r)) \o SubSeq(r.log, Acknowledged(r) + 1, r.cursor)
              = SubSeq(r.log, 1, r.cursor)
      BY <1>4, FrontGrows
    <2> QED
      BY <1>5, <2>1, Zenon
  <1>7. Acknowledged(q) = r.cursor /\ Len(q.recovered) = 0
    BY <1>1, <1>4, EmptySeq DEF Acknowledged
  <1>8. SubSeq(r.log, r.cursor + 1, r.cursor) = <<>>
    <2>1. /\ SubSeq(r.log, r.cursor + 1, r.cursor) \in Seq(Event)
          /\ Len(SubSeq(r.log, r.cursor + 1, r.cursor)) = r.cursor - r.cursor
      BY <1>4, Part
    <2>2. r.cursor - r.cursor = 0
      BY <1>4
    <2> QED
      BY <2>1, <2>2, EmptySeq
  <1> HIDE DEF q
  <1>9. Log!Contiguous(l \o r.recovered)
    <2>1. /\ SubSeq(r.log, 1, r.cursor) \in Seq(Event)
          /\ IsPrefix(SubSeq(r.log, 1, r.cursor), r.log)
      BY <1>4, FrontIsPrefix
    <2>2. Log!Contiguous(SubSeq(r.log, 1, r.cursor))
      BY <1>4, <2>1, FrontContiguous DEF CursorOf
    <2> QED
      BY <1>6, <2>2
  <1> DEFINE m == l \o r.recovered
  <1>10. /\ m = SubSeq(q.log, 1, Acknowledged(q))
         /\ q.recovered = SubSeq(q.log, Acknowledged(q) + 1, q.cursor)
    BY <1>1, <1>6, <1>7, <1>8
  <1>11. q.materialized /\ Len(q.recovered) <= q.cursor
    BY <1>1, <1>4, <1>5, <1>7
  <1> HIDE DEF m
  <1>12. Kept(q, s, m, c)
    BY <1>3, <1>5, <1>10, <1>11 DEF Kept
  <1> QED
    BY <1>5, <1>12, <1>9 DEF q, m

\* A batch lands behind the lines, or starts them.
LEMMA WrittenKept ==
    ASSUME NEW r \in Handle, ChainOf(r), CursorOf(r), NextOf(r), r.op = "write",
           NEW s, NEW l \in Seq(Event), NEW c, Kept(r, s, l, c),
           r.materialized \/ l = <<>>
    PROVE  /\ Kept(Succeeded([r EXCEPT !.materialized = TRUE, !.cursor = @ + Len(r.batch)]),
                   TRUE, l \o r.batch, c)
           /\ c = <<>> /\ Log!Contiguous(l \o r.batch)
           /\ l = SubSeq(r.log, 1, r.cursor)
           /\ r.batch = SubSeq(r.log, r.cursor + 1, r.cursor + Len(r.batch))
           /\ r.cursor + Len(r.batch) <= Len(r.log)
  <1> DEFINE q == Succeeded([r EXCEPT !.materialized = TRUE, !.cursor = @ + Len(r.batch)])
             n == r.cursor + Len(r.batch)
  <1>1. /\ r.log \in Seq(Event) /\ Len(r.log) \in Nat
        /\ r.cursor \in Nat /\ r.cursor <= Len(r.log)
        /\ r.recovered = <<>> => Acknowledged(r) = r.cursor
        /\ Len(r.batch) \in Nat /\ n \in Nat /\ r.cursor <= n
        /\ r.batch \in Seq(Event)
    BY KeptFacts, LenProperties
  <1>2. ~r.repair /\ r.recovered = <<>>
    BY StageFacts
  <1>3. n <= Len(r.log) /\ r.batch = SubSeq(r.log, r.cursor + 1, n)
    BY WrittenLog
  <1>4. c = <<>> /\ (~r.materialized => r.cursor = 0)
    BY <1>2 DEF Kept
  <1>5. l = SubSeq(r.log, 1, r.cursor)
    <2>1. CASE r.materialized
      BY <1>1, <1>2, <2>1 DEF Kept
    <2>2. CASE ~r.materialized
      <3>1. SubSeq(r.log, 1, 0) \in Seq(Event) /\ Len(SubSeq(r.log, 1, 0)) = 0
        BY <1>1, FrontIsPrefix
      <3>2. SubSeq(r.log, 1, 0) = <<>>
        BY <3>1, EmptySeq
      <3> QED
        BY <1>4, <2>2, <3>2
    <2> QED
      BY <2>1, <2>2
  <1>6. l \o r.batch = SubSeq(r.log, 1, n) /\ (l \o r.batch) \o <<>> = l \o r.batch
    <2>1. SubSeq(r.log, 1, r.cursor) \o SubSeq(r.log, r.cursor + 1, n) = SubSeq(r.log, 1, n)
      BY <1>1, <1>3, FrontGrows
    <2>2. SubSeq(r.log, 1, n) \in Seq(Event)
      BY <1>1, <1>3, FrontIsPrefix
    <2>3. SubSeq(r.log, 1, n) \o <<>> = SubSeq(r.log, 1, n)
      BY <2>2, ConcatEmptySeq
    <2>4. l \o r.batch = SubSeq(r.log, 1, n)
      BY <1>3, <1>5, <2>1, Zenon
    <2> QED
      BY <2>3, <2>4
  <1>7. /\ q.log = r.log /\ q.cursor = n /\ q.materialized = TRUE
        /\ q.recovered = <<>> /\ q.repair = r.repair
    BY <1>1, <1>2 DEF Succeeded, Publish, Idle, Handle
  <1>8. Acknowledged(q) = n /\ Len(q.recovered) = 0
    BY <1>1, <1>7, EmptySeq DEF Acknowledged
  <1>9. SubSeq(r.log, n + 1, n) = <<>>
    <2>1. /\ SubSeq(r.log, n + 1, n) \in Seq(Event)
          /\ Len(SubSeq(r.log, n + 1, n)) = n - n
      BY SMTT(20), <1>1, <1>3, Part
    <2>2. n - n = 0
      BY <1>1
    <2> QED
      BY <2>1, <2>2, EmptySeq
  <1>10. Log!Contiguous(l \o r.batch)
    <2>1. SubSeq(r.log, 1, n) \in Seq(Event) /\ IsPrefix(SubSeq(r.log, 1, n), r.log)
      BY <1>1, <1>3, FrontIsPrefix
    <2>2. Log!Contiguous(SubSeq(r.log, 1, n))
      BY <1>1, <2>1, FrontContiguous DEF CursorOf
    <2> QED
      BY <1>6, <2>2
  <1> HIDE DEF q, n
  <1>11. Kept(q, TRUE, l \o r.batch, c)
    BY <1>1, <1>2, <1>4, <1>6, <1>7, <1>8, <1>9 DEF Kept
  <1> QED
    BY <1>3, <1>4, <1>5, <1>11, <1>10 DEF q, n

LEMMA EmptyFront ==
    ASSUME NEW s \in Seq(Event)
    PROVE  SubSeq(s, 1, 0) = <<>> /\ IsPrefix(<<>>, s)
  <1>1. Len(s) \in Nat /\ 0 \in Nat /\ 0 <= Len(s)
    BY LenProperties
  <1>2. /\ SubSeq(s, 1, 0) \in Seq(Event) /\ Len(SubSeq(s, 1, 0)) = 0
        /\ IsPrefix(SubSeq(s, 1, 0), s)
    BY <1>1, FrontIsPrefix
  <1>3. SubSeq(s, 1, 0) = <<>>
    BY <1>2, EmptySeq
  <1> QED
    BY <1>2, <1>3

LEMMA HeaderKept ==
    ASSUME NEW r \in Handle, ChainOf(r), CursorOf(r), r.op = "header",
           NEW s, NEW l \in Seq(Event), NEW c, Kept(r, s, l, c),
           r.materialized \/ l = <<>>
    PROVE  Kept(Succeeded([r EXCEPT !.materialized = TRUE]), TRUE, l, c)
  <1> DEFINE q == Succeeded([r EXCEPT !.materialized = TRUE])
  <1>1. /\ r.log \in Seq(Event) /\ r.cursor \in Nat
        /\ r.recovered = <<>> => Acknowledged(r) = r.cursor
        /\ l \o <<>> = l
    BY KeptFacts
  <1>2. r.client = "flush"
    BY StageFacts
  <1>3. /\ q.log = r.log /\ q.cursor = r.cursor /\ q.materialized = TRUE
        /\ q.recovered = r.recovered /\ q.repair = r.repair
        /\ q.at = r.at /\ q.published = r.published /\ q.buffered = r.buffered
    BY <1>2 DEF Succeeded, Idle, Handle
  <1>4. Acknowledged(q) = Acknowledged(r)
    BY <1>3 DEF Acknowledged
  <1>5. q.published /\ Drained(q) => r.published /\ Drained(r)
    BY <1>2, <1>3 DEF Drained
  <1> HIDE DEF q
  <1>6. ASSUME r.materialized PROVE Kept(q, TRUE, l, c)
    BY <1>3, <1>4, <1>5, <1>6 DEF Kept
  <1>7. ASSUME ~r.materialized PROVE Kept(q, TRUE, l, c)
    <2>1. /\ l = <<>> /\ c = <<>> /\ r.cursor = 0 /\ r.recovered = <<>>
          /\ Acknowledged(r) = 0 /\ Len(<<>>) = 0
      BY <1>1, <1>7, EmptySeq DEF Kept
    <2>2. SubSeq(r.log, 1, 0) = <<>>
      BY <1>1, EmptyFront
    <2>3. SubSeq(r.log, 0 + 1, 0) = <<>>
      BY <2>2
    <2>4. Len(q.recovered) <= q.cursor
      BY <1>3, <2>1
    <2> QED
      BY <1>1, <1>3, <1>4, <2>1, <2>2, <2>3, <2>4 DEF Kept
  <1> QED
    BY <1>6, <1>7 DEF q

\* A new log linked into place before its write failed.
LEMMA LinkedKept ==
    ASSUME NEW r \in Handle, ChainOf(r), CursorOf(r), NextOf(r), r.op \in {"header", "write"},
           NEW c, Kept(r, FALSE, <<>>, c)
    PROVE  /\ Kept(Failed(r), TRUE, r.batch, c)
           /\ c = <<>> /\ r.batch \in Seq(Event) /\ Log!Contiguous(r.batch)
           /\ r.batch \o <<>> = r.batch
  <1>1. /\ r.log \in Seq(Event) /\ Log!Contiguous(r.log) /\ r.cursor \in Nat
        /\ r.batch \in Seq(Event) /\ Len(r.batch) \in Nat
    BY EmptySeq, LenProperties DEF Handle, CursorOf
  <1>2. ~r.materialized /\ r.cursor = 0 /\ r.recovered = <<>> /\ ~r.repair /\ c = <<>>
    BY DEF Kept
  <1>3. IsPrefix(r.batch, r.log)
    <2>1. CASE r.op = "header"
      BY <1>1, <2>1, StageFacts, EmptyFront
    <2>2. CASE r.op = "write"
      <3>1. /\ 0 + Len(r.batch) <= Len(r.log)
            /\ r.batch = SubSeq(r.log, 0 + 1, 0 + Len(r.batch))
        BY <1>2, <2>2, WrittenLog
      <3>2. Len(r.batch) <= Len(r.log) /\ r.batch = SubSeq(r.log, 1, Len(r.batch))
        BY <1>1, <3>1
      <3> QED
        BY <1>1, <3>2, FrontIsPrefix
    <2> QED
      BY <2>1, <2>2
  <1>4. r.op # "idle"
    OBVIOUS
  <1>5. /\ SameDisk(r, Failed(r))
        /\ Failed(r).at = "setup" \/ (Failed(r).published /\ Drained(Failed(r)))
               => r.client = "flush"
    BY <1>4, FailedDisk
  <1>6. r.batch \o <<>> = r.batch
    BY <1>1, ConcatEmptySeq
  <1>7. r.client = "flush" => r.batch = SubSeq(r.log, 1, 0)
    BY <1>1, StageFacts, EmptyFront
  <1> HIDE DEF Failed
  <1>8. Kept(Failed(r), TRUE, r.batch, c)
    BY <1>2, <1>3, <1>5, <1>6, <1>7 DEF Kept, SameDisk
  <1> QED
    BY <1>1, <1>2, <1>3, <1>6, <1>8, FrontContiguous

\* A session that is created starts from nothing, one that is opened from the
\* view of a reader.
LEMMA CreatedKept == Kept([NoHandle EXCEPT !.at = "setup"], FALSE, <<>>, <<>>)
  <1> DEFINE r == [NoHandle EXCEPT !.at = "setup"]
  <1>1. /\ r.log = <<>> /\ r.cursor = 0 /\ r.materialized = FALSE
        /\ r.recovered = <<>> /\ r.repair = FALSE
    BY DEF NoHandle
  <1>2. <<>> \in Seq(Event)
    BY EmptySeq
  <1>3. <<>> \o <<>> = <<>>
    BY <1>2, ConcatEmptySeq
  <1>4. IsPrefix(<<>>, <<>>) /\ SubSeq(<<>>, 1, 0) = <<>>
    BY <1>2, EmptyFront
  <1> HIDE DEF r
  <1>5. Kept(r, FALSE, <<>>, <<>>)
    BY <1>1, <1>3, <1>4 DEF Kept
  <1> QED
    BY <1>5 DEF r

LEMMA LoadedKept ==
    ASSUME NEW l \in Seq(Event), NEW c \in Seq(Event), NEW t, ~t => c = <<>>,
           NEW n, n = Len(l \o c)
    PROVE  Kept([NoHandle EXCEPT !.at = "setup", !.log = l \o c, !.cursor = n,
                    !.materialized = TRUE, !.leased = TRUE, !.repair = t, !.recovered = c],
                TRUE, l, c)
  <1> DEFINE log == l \o c
             r == [NoHandle EXCEPT !.at = "setup", !.log = log, !.cursor = n,
                    !.materialized = TRUE, !.leased = TRUE, !.repair = t, !.recovered = c]
  <1>1. /\ log \in Seq(Event) /\ Len(log) = Len(l) + Len(c) /\ n = Len(log)
        /\ Len(l) \in Nat /\ Len(c) \in Nat /\ n \in Nat
    BY ConcatProperties, LenProperties
  <1>2. n - Len(c) = Len(l)
    BY <1>1
  <1>3. /\ 0 + Len(l) <= Len(log) /\ l = SubSeq(log, 0 + 1, 0 + Len(l))
        /\ c = SubSeq(log, 0 + Len(l) + 1, Len(log))
    <2>1. l \o c = SubSeq(log, 0 + 1, Len(log))
      BY <1>1, SubSeqFull
    <2>2. 0 \in Nat /\ 0 <= Len(log)
      BY <1>1
    <2> HIDE DEF log
    <2> QED
      BY <1>1, <2>1, <2>2, RestSplits
  <1>4. l = SubSeq(log, 1, Len(l)) /\ c = SubSeq(log, Len(l) + 1, n)
    BY <1>1, <1>3
  <1>5. log = SubSeq(log, 1, n)
    BY <1>1, SubSeqFull
  <1>6. /\ r.log = log /\ r.cursor = n /\ r.materialized = TRUE
        /\ r.recovered = c /\ r.repair = t
    BY DEF NoHandle
  <1>7. Acknowledged(r) = Len(l)
    BY <1>2, <1>6 DEF Acknowledged
  <1>8. Len(r.recovered) <= r.cursor
    BY <1>1, <1>6
  <1> HIDE DEF r
  <1>9. l \o c = SubSeq(r.log, 1, r.cursor)
    BY <1>5, <1>6
  <1> HIDE DEF log
  <1>10. Kept(r, TRUE, l, c)
    BY <1>4, <1>6, <1>7, <1>8, <1>9 DEF Kept
  <1> QED
    BY <1>10 DEF r, log

\* The steps of a loaded handle that do not touch the disk.
LEMMA DiskSame ==
    ASSUME TypeOK, AloneInv, DiskInv, NEW p \in Procs, h[p].at \in Loaded,
           NEW q, Becomes(p, q), SameDisk(h[p], q), UNCHANGED <<disk, promised>>
    PROVE  DiskInv'
  <1>1. \A x \in Procs : x # p => h[x].at \in Claimless
    <2>1. h[p].at \notin Claimless
      BY DEF Claimless, Loaded, Routed, Unpublished
    <2> QED
      BY <2>1, OthersWait
  <1>2. Kept(h[p], stored, lines, rescued) /\ Durable(stored, lines, torn, rescued, promised)
    BY DiskIsKept
  <1>3. Kept(q, stored, lines, rescued)
    BY <1>2, KeptSame
  <1>4. /\ stored' = stored /\ lines' = lines /\ torn' = torn /\ rescued' = rescued
        /\ promised' = promised
    BY DEF disk
  <1>5. Kept(q, stored', lines', rescued')
        /\ Durable(stored', lines', torn', rescued', promised')
    BY <1>2, <1>3, <1>4
  <1> QED
    BY <1>1, <1>5, DiskMoves

LEMMA DiskOpen ==
    ASSUME TypeOK, Handles, AloneInv, DiskInv, NEW p \in Procs,
           \/ Create(p) \/ OpenClaim(p) \/ OpenRefused(p) \/ AcquireLease(p) \/ OpenFails(p)
           \/ Load(p)
    PROVE  DiskInv'
  <1>1. Durable(stored, lines, torn, rescued, promised)
    BY DiskIsKept
  <1>2. CASE Create(p)
    <2>1. /\ \A q \in Procs : q # p => h[q].at \in Claimless
          /\ Becomes(p, [NoHandle EXCEPT !.at = "setup"])
          /\ stored' = stored /\ lines' = lines /\ torn' = torn /\ rescued' = rescued
          /\ promised' = promised /\ ~stored
      BY <1>2 DEF Create, Claimless, disk
    <2>2. stored = FALSE /\ lines = <<>> /\ rescued = <<>>
      BY <1>1, <2>1 DEF Durable, TypeOK
    <2>3. Kept([NoHandle EXCEPT !.at = "setup"], stored', lines', rescued')
      BY <2>1, <2>2, CreatedKept
    <2>4. Durable(stored', lines', torn', rescued', promised')
      BY <1>1, <2>1
    <2> QED
      BY <2>1, <2>3, <2>4, DiskMoves
  <1>3. CASE Load(p)
    <2> DEFINE r == [NoHandle EXCEPT !.at = "setup", !.log = lines \o rescued,
                       !.cursor = StoredEvents, !.materialized = TRUE, !.leased = TRUE,
                       !.repair = torn, !.recovered = rescued]
    <2>1. /\ h[p].at = "locked" /\ Becomes(p, r)
          /\ stored' = stored /\ lines' = lines /\ torn' = torn /\ rescued' = rescued
          /\ promised' = promised
      BY <1>3 DEF Load, disk, View
    <2>2. stored = TRUE /\ h[p].at \notin Claimless
      BY <2>1 DEF AloneInv, TypeOK, Claimless
    <2>3. /\ lines \in Seq(Event) /\ rescued \in Seq(Event) /\ (~torn => rescued = <<>>)
          /\ StoredEvents = Len(lines \o rescued)
      BY <1>1 DEF TypeOK, Durable, StoredEvents, View
    <2>4. Kept(r, TRUE, lines, rescued)
      BY <2>3, LoadedKept
    <2> HIDE DEF r
    <2>5. Kept(r, stored', lines', rescued')
      BY <2>1, <2>2, <2>4
    <2>6. Durable(stored', lines', torn', rescued', promised')
      BY <1>1, <2>1
    <2> QED
      BY <2>1, <2>2, <2>5, <2>6, OthersWait, DiskMoves
  <1>4. CASE OpenClaim(p) \/ OpenRefused(p) \/ AcquireLease(p) \/ OpenFails(p)
    <2>1. PICK r : Becomes(p, r) /\ r.at \in {"out", "opening", "locked"}
      <3>1. NoHandle.at = "out" /\ [NoHandle EXCEPT !.at = "opening"].at = "opening"
        BY DEF NoHandle
      <3>2. [h[p] EXCEPT !.at = "locked"].at = "locked"
        BY DEF TypeOK, Handle
      <3> QED
        BY <1>4, <3>1, <3>2 DEF OpenClaim, OpenRefused, AcquireLease, OpenFails
    <2>2. r.at \notin Loaded
      BY <2>1 DEF Loaded, Routed, Unpublished
    <2>3. UNCHANGED <<disk, promised>>
      BY <1>4 DEF OpenClaim, OpenRefused, AcquireLease, OpenFails
    <2> QED
      BY <2>1, <2>2, <2>3, DiskStays
  <1> QED
    BY <1>2, <1>3, <1>4

\* What is promised is a front of the lines.
LEMMA CoveredIsStored ==
    ASSUME NEW r \in Handle, ChainOf(r), CursorOf(r), r.flush = "barrier",
           NEW s, NEW l \in Seq(Event), NEW c, Kept(r, s, l, c)
    PROVE  Covered(r) \in Seq(Event) /\ IsPrefix(Covered(r), l)
  <1>1. /\ r.log \in Seq(Event) /\ Len(r.log) \in Nat
        /\ r.cursor \in Nat /\ r.cursor <= Len(r.log)
        /\ Acknowledged(r) \in Nat /\ Acknowledged(r) <= r.cursor
        /\ r.recovered = <<>> => Acknowledged(r) = r.cursor
        /\ IsPrefix(l, r.log)
    BY KeptFacts
  <1>2. r.target \in Nat /\ r.target <= r.cursor
    BY DEF Handle, CursorOf
  <1>3. PICK n \in Nat : n <= Acknowledged(r) /\ Covered(r) = SubSeq(r.log, 1, n)
    <2>1. CASE r.recovered # <<>> /\ Acknowledged(r) < r.target
      BY <1>1, <2>1 DEF Covered
    <2>2. CASE ~(r.recovered # <<>> /\ Acknowledged(r) < r.target)
      <3>1. r.target <= Acknowledged(r)
        BY <1>1, <1>2, <2>2
      <3> QED
        BY <1>2, <2>2, <3>1 DEF Covered
    <2> QED
      BY <2>1, <2>2
  <1>4. n <= Len(r.log) /\ Acknowledged(r) <= Len(r.log)
    BY <1>1, <1>3
  <1>5. /\ Covered(r) \in Seq(Event) /\ Len(Covered(r)) = n /\ IsPrefix(Covered(r), r.log)
    BY <1>1, <1>3, <1>4, FrontIsPrefix
  <1>6. CASE r.materialized
    <2>1. l = SubSeq(r.log, 1, Acknowledged(r))
      BY <1>6 DEF Kept
    <2>2. Len(l) = Acknowledged(r)
      BY <1>1, <1>4, <2>1, FrontIsPrefix
    <2> QED
      BY <1>1, <1>3, <1>5, <2>2, PrefixesCompare
  <1>7. CASE ~r.materialized
    <2>1. r.cursor = 0
      BY <1>7 DEF Kept
    <2>2. n = 0
      BY <1>1, <1>3, <2>1
    <2>3. Covered(r) = <<>>
      BY <1>1, <1>3, <2>2, EmptyFront
    <2> QED
      BY <1>5, <2>3, EmptyFront
  <1> QED
    BY <1>6, <1>7

LEMMA DiskWork ==
    ASSUME Sound, TypeOK, Handles, AloneInv, DiskInv, NEW p \in Procs,
           \/ \E last \in BOOLEAN : Store(p, last)
           \/ AppendEvent(p) \/ FlushStart(p)
           \/ TimerFires(p) \/ DrainTurn(p) \/ DrainEnds(p) \/ Barrier(p) \/ TakeLease(p)
    PROVE  DiskInv'
  <1> DEFINE r == h[p]
  <1>1. r \in Handle /\ ChainOf(r) /\ CursorOf(r) /\ NextOf(r)
    BY HandleIsGood
  <1>2. r.op # "idle" \/ r.timer \/ r.draining \/ r.flush # None => r.at \in Loaded
    BY BusyIsLoaded
  <1>3. Windows \subseteq Loaded
    BY DEF Sound, Loaded, Routed, Unpublished
  <1>4. CASE \E last \in BOOLEAN : Store(p, last)
    <2>1. PICK last \in BOOLEAN : Store(p, last)
      BY <1>4
    <2> DEFINE b == SubSeq(r.log, r.cursor + 1, Len(r.log))
               s == IF last THEN "publishing" ELSE "storing"
    <2>2. s \in {"publishing", "storing"}
      OBVIOUS
    <2>3. /\ r.at = "setup" /\ r.at \in Loaded /\ r.op = "idle" /\ UNCHANGED <<disk, promised>>
          /\ Becomes(p, Begin([r EXCEPT !.at = s], "append", b)) \/ Becomes(p, Publish(r))
      BY <2>1 DEF Store, Loaded, Routed, Unpublished
    <2> HIDE DEF b, s
    <2> QED
      BY <1>1, <2>2, <2>3, BeginDisk, DiskSame
  <1>5. CASE AppendEvent(p)
    <2> DEFINE e == [seq |-> Len(r.log) + 1, id |-> made + 1]
               q == [r EXCEPT !.log = Append(@, e)]
               b == [r EXCEPT !.log = Append(@, e), !.buffered = Append(@, e),
                         !.timer = Armed(r)]
    <2>1. r.at \in Loaded /\ r.at \notin Claimless
      BY <1>3, <1>5 DEF AppendEvent, Claimless, Loaded, Routed, Unpublished
    <2>2. b = [q EXCEPT !.buffered = Append(@, e), !.timer = Armed(r)]
      BY <1>1 DEF Handle
    <2>3. /\ r.published => Becomes(p, b)
          /\ ~r.published => Becomes(p, q)
      BY <1>5, <2>2 DEF AppendEvent
    <2>4. /\ stored' = stored /\ lines' = lines /\ torn' = torn /\ rescued' = rescued
          /\ promised' = promised
      BY <1>5 DEF AppendEvent, disk
    <2>5. e \in Event
      <3>1. Len(r.log) \in Nat
        BY <1>1, LenProperties DEF Handle
      <3> QED
        BY <3>1 DEF Event, TypeOK
    <2>6. /\ Kept(r, stored, lines, rescued) /\ lines \in Seq(Event)
          /\ Durable(stored, lines, torn, rescued, promised)
      BY <2>1, DiskIsKept DEF TypeOK
    <2> HIDE DEF e
    <2>7. /\ ~r.published => Kept(q, stored, lines, rescued)
          /\ r.published => Kept(b, stored, lines, rescued)
      BY <1>1, <2>5, <2>6, AppendKept
    <2> HIDE DEF q, b
    <2>8. /\ ~r.published => Kept(q, stored', lines', rescued')
          /\ r.published => Kept(b, stored', lines', rescued')
          /\ Durable(stored', lines', torn', rescued', promised')
      BY <2>4, <2>6, <2>7
    <2> QED
      BY <2>1, <2>3, <2>8, OthersWait, DiskMoves
  <1>6. CASE FlushStart(p) \/ TimerFires(p) \/ DrainEnds(p)
    <2>1. r.at \in Loaded /\ UNCHANGED <<disk, promised>>
      BY <1>2, <1>3, <1>6 DEF FlushStart, TimerFires, DrainEnds
    <2> QED
      BY <1>1, <1>6, <2>1, SettingDisk, DiskSame DEF FlushStart, TimerFires, DrainEnds
  <1>7. CASE DrainTurn(p)
    <2>1. r.at \in Loaded /\ UNCHANGED <<disk, promised>>
      BY <1>2, <1>7 DEF DrainTurn
    <2> QED
      BY <1>1, <1>7, <2>1, BeginDisk, DiskSame DEF DrainTurn
  <1>8. CASE Barrier(p)
    <2>1. r.at \in Loaded /\ r.flush = "barrier" /\ r.op = "idle" /\ UNCHANGED disk
      BY <1>2, <1>8 DEF Barrier, None
    <2>2. CASE promised' = promised /\ Becomes(p, Begin(r, "flush", <<>>))
      BY <1>1, <2>1, <2>2, BeginDisk, DiskSame
    <2>3. CASE /\ promised' = Longest(promised, Covered(r))
               /\ Becomes(p, [r EXCEPT !.flush = None])
      <3>1. /\ Kept(r, stored, lines, rescued) /\ lines \in Seq(Event)
            /\ Durable(stored, lines, torn, rescued, promised)
        BY <2>1, DiskIsKept DEF TypeOK
      <3>2. IsPrefix(promised', lines)
        <4>1. IsPrefix(Covered(r), lines)
          BY <1>1, <2>1, <3>1, CoveredIsStored
        <4> QED
          BY <2>3, <3>1, <4>1 DEF Longest, Durable
      <3>3. stored' = stored /\ lines' = lines /\ torn' = torn /\ rescued' = rescued
        BY <2>1 DEF disk
      <3>4. Durable(stored', lines', torn', rescued', promised')
        BY <3>1, <3>2, <3>3 DEF Durable
      <3>5. Kept([r EXCEPT !.flush = None], stored', lines', rescued')
        BY <1>1, <3>1, <3>3, SettingDisk, KeptSame
      <3>6. r.at \notin Claimless
        BY <2>1 DEF Claimless, Loaded, Routed, Unpublished
      <3> QED
        BY <2>3, <3>4, <3>5, <3>6, OthersWait, DiskMoves
    <2> QED
      BY <1>8, <2>2, <2>3 DEF Barrier
  <1>9. CASE TakeLease(p)
    <2>1. r.at \in Loaded /\ r.op # "idle" /\ UNCHANGED <<disk, promised>>
      BY <1>2, <1>9 DEF TakeLease
    <2> QED
      BY <1>1, <1>9, <2>1, SettingDisk, FailedDisk, DiskSame DEF TakeLease
  <1> QED
    BY <1>4, <1>5, <1>6, <1>7, <1>8, <1>9

\* What a write may build on: the facts of a loaded handle and its disk.
LEMMA LoadedFacts ==
    ASSUME TypeOK, Handles, AloneInv, DiskInv, NEW p \in Procs, h[p].op # "idle"
    PROVE  /\ h[p] \in Handle /\ ChainOf(h[p]) /\ CursorOf(h[p]) /\ NextOf(h[p])
           /\ h[p].at \in Loaded /\ \A q \in Procs : q # p => h[q].at \in Claimless
           /\ lines \in Seq(Event) /\ rescued \in Seq(Event) /\ promised \in Seq(Event)
           /\ stored \in BOOLEAN /\ torn \in BOOLEAN
           /\ Kept(h[p], stored, lines, rescued)
           /\ Durable(stored, lines, torn, rescued, promised)
           /\ ~stored => lines = <<>> /\ rescued = <<>> /\ promised = <<>> /\ ~h[p].materialized
           /\ IsPrefix(promised, lines)
  <1>1. h[p].at \in Loaded
    BY BusyIsLoaded
  <1>2. h[p].at \notin Claimless
    BY <1>1 DEF Claimless, Loaded, Routed, Unpublished
  <1>3. /\ lines \in Seq(Event) /\ rescued \in Seq(Event) /\ promised \in Seq(Event)
        /\ stored \in BOOLEAN /\ torn \in BOOLEAN
    BY DEF TypeOK
  <1>4. /\ Kept(h[p], stored, lines, rescued)
        /\ Durable(stored, lines, torn, rescued, promised)
    BY <1>1, DiskIsKept
  <1>5. ASSUME ~stored
        PROVE  lines = <<>> /\ rescued = <<>> /\ promised = <<>> /\ ~h[p].materialized
    <2>1. lines = <<>> /\ rescued = <<>> /\ IsPrefix(promised, lines)
      BY <1>4, <1>5 DEF Durable
    <2>2. ~h[p].materialized
      BY <1>4, <1>5 DEF Kept
    <2>3. promised = <<>>
      <3>1. Len(promised) <= Len(lines) /\ Len(promised) \in Nat /\ Len(lines) = 0
        BY <1>3, <2>1, PrefixIsFront, LenProperties, EmptySeq
      <3> QED
        BY <1>3, <3>1, EmptySeq
    <2> QED
      BY <2>1, <2>2, <2>3
  <1>6. IsPrefix(promised, lines)
    BY <1>4 DEF Durable
  <1> QED
    BY <1>1, <1>2, <1>3, <1>4, <1>5, <1>6, HandleIsGood, OthersWait

\* More lines behind those there are.
LEMMA DurableGrows ==
    ASSUME NEW l \in Seq(Event), NEW m \in Seq(Event), NEW b \in Seq(Event), IsPrefix(m, l),
           Log!Contiguous(l \o b), NEW t
    PROVE  Durable(TRUE, l \o b, t, <<>>, m)
  <1>1. l \o b \in Seq(Event) /\ IsPrefix(l, l \o b)
    BY PrefixOfConcat
  <1>2. IsPrefix(m, l \o b)
    BY <1>1, PrefixTransitive
  <1>3. (l \o b) \o <<>> = l \o b
    BY <1>1, ConcatEmptySeq
  <1> QED
    BY <1>2, <1>3 DEF Durable

\* The lines alone: a torn tail is cut off.
LEMMA DurableCut ==
    ASSUME NEW s, NEW l \in Seq(Event), NEW t, NEW c \in Seq(Event), NEW m,
           Durable(s, l, t, c, m)
    PROVE  Durable(s, l, FALSE, <<>>, m)
  <1>1. l \o c \in Seq(Event) /\ IsPrefix(l, l \o c)
    BY PrefixOfConcat
  <1>2. Log!Contiguous(l)
    BY <1>1, FrontContiguous DEF Durable
  <1>3. l \o <<>> = l
    BY ConcatEmptySeq
  <1> QED
    BY <1>2, <1>3 DEF Durable

LEMMA DiskWrites ==
    ASSUME TypeOK, Handles, AloneInv, DiskInv, NEW p \in Procs,
           \/ Truncated(p) \/ Rewritten(p) \/ Written(p) \/ HeaderWritten(p)
           \/ WriteRefused(p) \/ OpFails(p) \/ PublishFails(p)
    PROVE  DiskInv'
  <1> DEFINE r == h[p]
  <1>1. r.op # "idle"
    BY DEF Truncated, Rewritten, Written, HeaderWritten, WriteRefused, OpFails, PublishFails,
       FileOps
  <1>2. /\ r \in Handle /\ ChainOf(r) /\ CursorOf(r) /\ NextOf(r)
        /\ r.at \in Loaded /\ \A q \in Procs : q # p => h[q].at \in Claimless
        /\ lines \in Seq(Event) /\ rescued \in Seq(Event) /\ promised \in Seq(Event)
        /\ stored \in BOOLEAN /\ torn \in BOOLEAN
        /\ Kept(r, stored, lines, rescued)
        /\ Durable(stored, lines, torn, rescued, promised)
        /\ ~stored => lines = <<>> /\ rescued = <<>> /\ promised = <<>> /\ ~r.materialized
        /\ IsPrefix(promised, lines)
    BY <1>1, LoadedFacts
  <1>3. CASE Truncated(p)
    <2>1. /\ r.op = "truncate" /\ Becomes(p, Advance([r EXCEPT !.repair = FALSE]))
          /\ stored' = stored /\ lines' = lines /\ torn' = FALSE /\ rescued' = <<>>
          /\ promised' = promised
      BY <1>3 DEF Truncated
    <2>2. Kept(Advance([r EXCEPT !.repair = FALSE]), stored', lines', rescued')
      BY <1>2, <2>1, TruncatedKept
    <2>3. Durable(stored', lines', torn', rescued', promised')
      BY <1>2, <2>1, DurableCut
    <2> QED
      BY <1>2, <2>1, <2>2, <2>3, DiskMoves
  <1>4. CASE Rewritten(p)
    <2>1. /\ r.op = "rewrite" /\ Becomes(p, Advance([r EXCEPT !.recovered = <<>>]))
          /\ stored' = stored /\ lines' = lines \o r.recovered /\ torn' = torn
          /\ rescued' = rescued /\ promised' = promised
      BY <1>4 DEF Rewritten
    <2>2. /\ Kept(Advance([r EXCEPT !.recovered = <<>>]), stored, lines \o r.recovered, rescued)
          /\ rescued = <<>> /\ stored /\ Log!Contiguous(lines \o r.recovered)
      BY <1>2, <2>1, RewrittenKept
    <2>3. r.recovered \in Seq(Event)
      BY <1>2, KeptFacts
    <2>4. Durable(TRUE, lines \o r.recovered, torn, <<>>, promised)
      BY <1>2, <2>2, <2>3, DurableGrows
    <2>5. stored = TRUE
      BY <1>2, <2>2
    <2> QED
      BY <1>2, <2>1, <2>2, <2>4, <2>5, DiskMoves
  <1>5. CASE Written(p)
    <2> DEFINE q == Succeeded([r EXCEPT !.materialized = TRUE, !.cursor = @ + Len(r.batch)])
    <2>1. /\ r.op = "write" /\ Becomes(p, q) /\ (r.materialized \/ ~stored)
          /\ stored' = TRUE /\ lines' = lines \o r.batch /\ torn' = torn
          /\ rescued' = rescued /\ promised' = promised
      BY <1>5 DEF Written, Writable
    <2>2. /\ Kept(q, TRUE, lines \o r.batch, rescued)
          /\ rescued = <<>> /\ Log!Contiguous(lines \o r.batch)
      BY <1>2, <2>1, WrittenKept
    <2>3. r.batch \in Seq(Event)
      BY <1>2, KeptFacts
    <2>4. Durable(TRUE, lines \o r.batch, torn, <<>>, promised)
      BY <1>2, <2>2, <2>3, DurableGrows
    <2> HIDE DEF q
    <2> QED
      BY <1>2, <2>1, <2>2, <2>4, DiskMoves
  <1>6. CASE HeaderWritten(p)
    <2>1. /\ r.op = "header" /\ Becomes(p, Succeeded([r EXCEPT !.materialized = TRUE]))
          /\ (r.materialized \/ ~stored)
          /\ stored' = TRUE /\ lines' = lines /\ torn' = torn
          /\ rescued' = rescued /\ promised' = promised
      BY <1>6 DEF HeaderWritten, Writable
    <2>2. Kept(Succeeded([r EXCEPT !.materialized = TRUE]), TRUE, lines, rescued)
      BY <1>2, <2>1, HeaderKept
    <2>3. Durable(TRUE, lines, torn, rescued, promised)
      BY <1>2 DEF Durable
    <2> QED
      BY <1>2, <2>1, <2>2, <2>3, DiskMoves
  <1>7. CASE WriteRefused(p)
    <2>1. Becomes(p, Failed(r)) /\ UNCHANGED <<disk, promised>>
      BY <1>7 DEF WriteRefused
    <2> QED
      BY <1>1, <1>2, <2>1, FailedDisk, DiskSame
  <1>8. CASE OpFails(p)
    <2>1. /\ Becomes(p, Failed(r)) /\ stored' = stored /\ lines' = lines
          /\ promised' = promised
          /\ \/ torn' = torn /\ rescued' = rescued
             \/ r.op = "truncate" /\ torn' = FALSE /\ rescued' = <<>>
      BY <1>8 DEF OpFails
    <2>2. CASE torn' = torn /\ rescued' = rescued
      BY <1>1, <1>2, <2>1, <2>2, FailedDisk, DiskSame DEF disk
    <2>3. CASE r.op = "truncate" /\ torn' = FALSE /\ rescued' = <<>>
      <3>1. r.client \in {"append", "drain"} /\ r.repair
        BY <1>2, <2>3, StageFacts
      <3>2. /\ SameDisk(r, Failed(r))
            /\ ~(Failed(r).at = "setup" \/ (Failed(r).published /\ Drained(Failed(r))))
        BY <1>1, <1>2, <3>1, FailedDisk
      <3> HIDE DEF Failed
      <3>3. Acknowledged(Failed(r)) = Acknowledged(r)
        BY <3>2 DEF SameDisk, Acknowledged
      <3>4. Kept(Failed(r), stored, lines, <<>>)
        BY <1>2, <3>1, <3>2, <3>3 DEF Kept, SameDisk
      <3>5. Durable(stored', lines', torn', rescued', promised')
        BY <1>2, <2>1, <2>3, DurableCut
      <3> QED
        BY <1>2, <2>1, <2>3, <3>4, <3>5, DiskMoves
    <2> QED
      BY <2>1, <2>2, <2>3
  <1>9. CASE PublishFails(p)
    <2>1. /\ r.op \in {"header", "write"} /\ ~stored /\ Becomes(p, Failed(r))
          /\ stored' = TRUE /\ lines' = r.batch /\ torn' = torn /\ rescued' = rescued
          /\ promised' = promised
      BY <1>9 DEF PublishFails
    <2>2. stored = FALSE /\ lines = <<>> /\ rescued = <<>> /\ promised = <<>>
      BY <1>2, <2>1
    <2>3. Kept(r, FALSE, <<>>, rescued)
      BY <1>2, <2>2
    <2>4. /\ Kept(Failed(r), TRUE, r.batch, rescued)
          /\ r.batch \in Seq(Event) /\ Log!Contiguous(r.batch)
          /\ r.batch \o <<>> = r.batch
      BY <1>2, <2>1, <2>3, LinkedKept
    <2>5. IsPrefix(<<>>, r.batch)
      BY <2>4, EmptyFront
    <2>6. Durable(TRUE, r.batch, torn, <<>>, promised)
      BY <2>2, <2>4, <2>5 DEF Durable
    <2> QED
      BY <1>2, <2>1, <2>2, <2>4, <2>6, DiskMoves
  <1> QED
    BY <1>3, <1>4, <1>5, <1>6, <1>7, <1>8, <1>9

\* Part of an append: what it leaves is still a contiguous log.
LEMMA PartOfAppendContiguous ==
    ASSUME NEW l \in Seq(Event), NEW b \in Seq(Event), Log!Contiguous(l \o b),
           NEW k \in 0 .. Len(b)
    PROVE  SubSeq(b, 1, k) \in Seq(Event) /\ Log!Contiguous(l \o SubSeq(b, 1, k))
  <1> DEFINE f == SubSeq(b, 1, k)
  <1>1. Len(l) \in Nat /\ Len(b) \in Nat /\ k \in Nat /\ k <= Len(b)
    BY LenProperties
  <1>2. f \in Seq(Event) /\ Len(f) = k /\ \A i \in 1 .. k : f[i] = b[i]
    BY <1>1, FrontIsPrefix
  <1> HIDE DEF f
  <1>3. /\ l \o f \in Seq(Event) /\ Len(l \o f) = Len(l) + k
        /\ \A i \in 1 .. Len(l) + k : (l \o f)[i] = IF i <= Len(l) THEN l[i] ELSE f[i - Len(l)]
    BY <1>2, ConcatProperties
  <1>4. /\ l \o b \in Seq(Event) /\ Len(l \o b) = Len(l) + Len(b)
        /\ \A i \in 1 .. Len(l) + Len(b) :
              (l \o b)[i] = IF i <= Len(l) THEN l[i] ELSE b[i - Len(l)]
    BY ConcatProperties
  <1>5. ASSUME NEW i \in 1 .. Len(l) + k
        PROVE  (l \o f)[i] = (l \o b)[i]
    <2>1. i \in 1 .. Len(l) + Len(b) /\ (~(i <= Len(l)) => i - Len(l) \in 1 .. k)
      BY <1>1
    <2> QED
      BY <1>2, <1>3, <1>4, <2>1
  <1>6. IsPrefix(l \o f, l \o b)
    <2> DEFINE x == l \o f
               y == l \o b
    <2>1. x \in Seq(Event) /\ y \in Seq(Event) /\ Len(x) <= Len(y)
      BY <1>1, <1>3, <1>4
    <2>2. \A i \in 1 .. Len(x) : x[i] = y[i]
      BY <1>3, <1>5
    <2> HIDE DEF x, y
    <2>3. IsPrefix(x, y)
      BY <2>1, <2>2, PrefixIsFront
    <2> QED
      BY <2>3 DEF x, y
  <1>7. Log!Contiguous(l \o f)
    BY <1>3, <1>4, <1>6, FrontContiguous
  <1> QED
    BY <1>2, <1>7 DEF f

LEMMA InterruptedIsDurable ==
    ASSUME TypeOK, Handles, AloneInv, DiskInv, NEW p \in Procs, Interrupted(h[p])
    PROVE  Durable(stored', lines', torn', rescued', promised)
  <1> DEFINE r == h[p]
  <1>1. r.op # "idle"
    BY IdleIsNotInterrupted
  <1>2. /\ r \in Handle /\ ChainOf(r) /\ CursorOf(r) /\ NextOf(r)
        /\ lines \in Seq(Event) /\ rescued \in Seq(Event) /\ promised \in Seq(Event)
        /\ stored \in BOOLEAN /\ torn \in BOOLEAN
        /\ Kept(r, stored, lines, rescued)
        /\ Durable(stored, lines, torn, rescued, promised)
        /\ ~stored => lines = <<>> /\ rescued = <<>> /\ promised = <<>> /\ ~r.materialized
        /\ IsPrefix(promised, lines)
    BY <1>1, LoadedFacts
  <1>3. CASE /\ r.op = "truncate" /\ torn' = FALSE /\ rescued' = <<>>
             /\ UNCHANGED <<stored, lines>>
    BY <1>2, <1>3, DurableCut
  <1>4. ASSUME NEW k \in 0 .. Len(Content(r)), Content(r) # <<>>, stored' = stored,
               LET part == SubSeq(Content(r), 1, k)
               IN  \/ k = Len(Content(r)) /\ lines' = lines \o part /\ UNCHANGED <<torn, rescued>>
                   \/ ~framed /\ lines' = lines \o part /\ torn' = TRUE /\ UNCHANGED rescued
                   \/ framed /\ torn' = TRUE /\ rescued' = part /\ UNCHANGED lines
        PROVE  Durable(stored', lines', torn', rescued', promised)
    <2> DEFINE b == Content(r)
               part == SubSeq(b, 1, k)
    <2>1. b \in Seq(Event) /\ stored = TRUE /\ rescued = <<>> /\ Log!Contiguous(lines \o b)
      <3>1. CASE r.op = "rewrite"
        <4>1. b = r.recovered
          BY <3>1 DEF Content
        <4>2. rescued = <<>> /\ stored /\ Log!Contiguous(lines \o r.recovered)
          BY <1>2, <3>1, RewrittenKept
        <4>3. r.recovered \in Seq(Event)
          BY <1>2 DEF Handle
        <4> QED
          BY <1>2, <4>1, <4>2, <4>3
      <3>2. CASE r.op = "write" /\ r.materialized
        <4>1. b = r.batch /\ stored = TRUE
          BY <1>2, <3>2 DEF Content
        <4>2. rescued = <<>> /\ Log!Contiguous(lines \o r.batch)
          BY <1>2, <3>2, WrittenKept
        <4>3. r.batch \in Seq(Event)
          BY <1>2 DEF Handle
        <4> QED
          BY <4>1, <4>2, <4>3
      <3> QED
        BY <1>4, <3>1, <3>2 DEF Content
    <2> HIDE DEF b
    <2>2. k \in 0 .. Len(b)
      BY <1>4 DEF b
    <2>3. part \in Seq(Event) /\ Log!Contiguous(lines \o part)
      BY <1>2, <2>1, <2>2, PartOfAppendContiguous
    <2>4. \/ lines' = lines \o part /\ rescued' = rescued
          \/ torn' = TRUE /\ rescued' = part /\ lines' = lines
      BY <1>4 DEF b
    <2> HIDE DEF part
    <2>5. CASE lines' = lines \o part /\ rescued' = rescued
      <3>1. Durable(TRUE, lines \o part, torn', <<>>, promised)
        BY <1>2, <2>3, DurableGrows
      <3> QED
        BY <1>4, <2>1, <2>5, <3>1
    <2>6. CASE torn' = TRUE /\ rescued' = part /\ lines' = lines
      BY <1>2, <1>4, <2>1, <2>3, <2>6 DEF Durable
    <2> QED
      BY <2>4, <2>5, <2>6
  <1>5. CASE /\ r.op \in {"header", "write"} /\ ~stored
             /\ stored' = TRUE /\ lines' = r.batch /\ UNCHANGED <<torn, rescued>>
    <2>1. stored = FALSE /\ lines = <<>> /\ rescued = <<>> /\ promised = <<>>
      BY <1>2, <1>5
    <2>2. Kept(r, FALSE, <<>>, rescued)
      BY <1>2, <2>1
    <2>3. r.batch \in Seq(Event) /\ Log!Contiguous(r.batch) /\ r.batch \o <<>> = r.batch
      BY <1>2, <1>5, <2>2, LinkedKept
    <2>4. IsPrefix(<<>>, r.batch)
      BY <2>3, EmptyFront
    <2> QED
      BY <1>5, <2>1, <2>3, <2>4 DEF Durable
  <1> QED
    BY <1>3, <1>4, <1>5 DEF Interrupted

LEMMA DiskClose ==
    ASSUME TypeOK, Handles, AloneInv, DiskInv, NEW p \in Procs,
           Close(p) \/ Closing(p) \/ Crash(p)
    PROVE  DiskInv'
  <1> DEFINE r == h[p]
  <1>1. r \in Handle /\ ChainOf(r) /\ CursorOf(r) /\ NextOf(r)
    BY HandleIsGood
  <1>2. NoHandle.at \notin Loaded
    BY DEF NoHandle, Loaded, Routed, Unpublished
  <1>3. CASE Close(p)
    <2>1. r.at \in Loaded /\ Becomes(p, CloseHandle(r)) /\ UNCHANGED <<disk, promised>>
      BY <1>3 DEF Close, Loaded, Routed, Unpublished
    <2> QED
      BY <1>1, <2>1, SettingDisk, DiskSame
  <1>4. CASE CloseAgain(p) \/ CloseDrained(p)
    <2>1. r.at \in Loaded /\ UNCHANGED <<disk, promised>>
      BY <1>4 DEF CloseAgain, CloseDrained, Loaded, Routed
    <2> QED
      BY <1>1, <1>4, <2>1, SettingDisk, DiskSame DEF CloseAgain, CloseDrained
  <1>5. CASE Unlock(p)
    <2>1. /\ h' = h /\ stored' = stored /\ lines' = lines /\ torn' = torn
          /\ rescued' = rescued /\ promised' = promised
      BY <1>5 DEF Unlock, disk
    <2> QED
      BY <2>1, DiskIsKept
  <1>6. CASE Released(p)
    <2>1. r.at \in Loaded /\ UNCHANGED <<disk, promised>>
      BY <1>6 DEF Released, Loaded, Routed
    <2>2. Becomes(p, [r EXCEPT !.at = "released"]) \/ Becomes(p, NoHandle)
      BY <1>6 DEF Released
    <2> QED
      BY <1>1, <1>2, <2>1, <2>2, SettingDisk, DiskSame, DiskStays
  <1>7. CASE Outlived(p)
    BY <1>2, <1>7, DiskStays DEF Outlived
  <1>8. CASE Crash(p)
    <2>1. CASE UNCHANGED disk
      BY <1>2, <1>8, <2>1, DiskStays DEF Crash
    <2>2. CASE Interrupted(r)
      <3>1. Durable(stored', lines', torn', rescued', promised)
        BY <2>2, InterruptedIsDurable
      <3>2. \A q \in Procs : q # p => h[q].at \in Claimless
        <4>1. r.op # "idle"
          BY <2>2, IdleIsNotInterrupted
        <4> QED
          BY <4>1, LoadedFacts
      <3>3. promised' = promised /\ Becomes(p, NoHandle)
        BY <1>8 DEF Crash
      <3> QED
        BY <1>2, <3>1, <3>2, <3>3, DiskMoves
    <2> QED
      BY <1>8, <2>1, <2>2 DEF Crash
  <1> QED
    BY <1>3, <1>4, <1>5, <1>6, <1>7, <1>8 DEF Closing

LEMMA DiskStep ==
    ASSUME Sound, TypeOK, Handles, AloneInv, DiskInv, Next
    PROVE  DiskInv'
  <1>1. PICK p \in Procs :
            \/ Create(p) \/ OpenClaim(p) \/ OpenRefused(p) \/ AcquireLease(p) \/ OpenFails(p)
            \/ Load(p)
            \/ \E last \in BOOLEAN : Store(p, last)
            \/ AppendEvent(p) \/ FlushStart(p)
            \/ Chain(p)
            \/ OpFails(p) \/ PublishFails(p) \/ Crash(p)
            \/ Close(p) \/ Closing(p)
    BY DEF Next
  <1> QED
    BY <1>1, DiskOpen, DiskWork, DiskWrites, DiskClose DEF Chain

-----------------------------------------------------------------------------
(* The invariant. *)

LEMMA PartsAreSequences ==
    ASSUME NEW s \in Seq(Event), NEW k \in 0 .. Len(s)
    PROVE  SubSeq(s, 1, k) \in Seq(Event)
  <1>1. k \in Nat /\ k <= Len(s)
    BY LenProperties
  <1> QED
    BY <1>1, FrontIsPrefix

LEMMA TypeStep ==
    ASSUME TypeOK, Handles, AloneInv, DiskInv, Handles', Next
    PROVE  TypeOK'
  <1>1. PICK p \in Procs :
            \/ Create(p) \/ OpenClaim(p) \/ OpenRefused(p) \/ AcquireLease(p) \/ OpenFails(p)
            \/ Load(p)
            \/ \E last \in BOOLEAN : Store(p, last)
            \/ AppendEvent(p) \/ FlushStart(p)
            \/ Chain(p)
            \/ OpFails(p) \/ PublishFails(p) \/ Crash(p)
            \/ Close(p) \/ Closing(p)
    BY DEF Next
  <1> DEFINE r == h[p]
  <1>2. /\ r \in Handle /\ r.recovered \in Seq(Event) /\ r.batch \in Seq(Event)
        /\ h' \in [Procs -> Handle]
    BY DEF TypeOK, Handle, Handles
  <1>3. /\ lines \in Seq(Event) /\ rescued \in Seq(Event) /\ promised \in Seq(Event)
        /\ <<>> \in Seq(Event)
        /\ lines \o r.recovered \in Seq(Event) /\ lines \o r.batch \in Seq(Event)
    BY <1>2, PrefixOfConcat, EmptySeq DEF TypeOK
  <1>4. framed' \in BOOLEAN
    BY <1>1 DEF TypeOK, Create, OpenClaim, OpenRefused, AcquireLease, OpenFails, Load, Store,
       AppendEvent, FlushStart, Chain, TimerFires, DrainTurn, DrainEnds, Barrier, TakeLease,
       Truncated, Rewritten, Written, HeaderWritten, WriteRefused, OpFails, PublishFails, Crash,
       Close, Closing, CloseAgain, CloseDrained, Unlock, Released, Outlived
  <1>5. lock' \in Procs \union {None}
    BY <1>1 DEF TypeOK, Create, OpenClaim, OpenRefused, AcquireLease, OpenFails, Load, Store,
       AppendEvent, FlushStart, Chain, TimerFires, DrainTurn, DrainEnds, Barrier, TakeLease,
       Truncated, Rewritten, Written, HeaderWritten, WriteRefused, OpFails, PublishFails, Crash,
       Close, Closing, CloseAgain, CloseDrained, Unlock, Released, Outlived
  <1>6. made' \in Nat /\ faults' \in Nat /\ crashes' \in Nat
    <2>1. made \in Nat /\ faults \in Nat /\ crashes \in Nat
      BY DEF TypeOK
    <2>2. CASE AppendEvent(p) \/ Crash(p)
      BY <2>1, <2>2 DEF AppendEvent, Crash
    <2>3. CASE OpFails(p) \/ PublishFails(p)
      BY <2>1, <2>3 DEF OpFails, PublishFails, Faulty
    <2>4. CASE UNCHANGED bounds
      BY <2>1, <2>4 DEF bounds
    <2> QED
      BY <1>1, <2>2, <2>3, <2>4 DEF Create, OpenClaim, OpenRefused, AcquireLease, OpenFails,
       Load, Store, FlushStart, Chain, TimerFires, DrainTurn, DrainEnds, Barrier, TakeLease,
       Truncated, Rewritten, Written, HeaderWritten, WriteRefused,
       Close, Closing, CloseAgain, CloseDrained, Unlock, Released, Outlived
  <1>7. promised' \in Seq(Event)
    <2>1. CASE Barrier(p)
      <3>1. CASE promised' = promised
        BY <1>3, <3>1
      <3>2. CASE promised' = Longest(promised, Covered(r))
        <4>1. r.flush = "barrier" /\ ChainOf(r) /\ CursorOf(r)
          BY <2>1, HandleIsGood DEF Barrier
        <4>2. Kept(r, stored, lines, rescued)
          BY <4>1, BusyIsLoaded, DiskIsKept DEF None
        <4>3. Covered(r) \in Seq(Event)
          BY <1>2, <1>3, <4>1, <4>2, CoveredIsStored
        <4> QED
          BY <1>3, <3>2, <4>3 DEF Longest
      <3> QED
        BY <2>1, <3>1, <3>2 DEF Barrier
    <2>2. CASE ~Barrier(p)
      BY <1>1, <1>3, <2>2 DEF Create, OpenClaim, OpenRefused, AcquireLease, OpenFails, Load, Store,
       AppendEvent, FlushStart, Chain, TimerFires, DrainTurn, DrainEnds, TakeLease,
       Truncated, Rewritten, Written, HeaderWritten, WriteRefused, OpFails, PublishFails, Crash,
       Close, Closing, CloseAgain, CloseDrained, Unlock, Released, Outlived
    <2> QED
      BY <2>1, <2>2
  <1>8. /\ stored' \in BOOLEAN /\ torn' \in BOOLEAN
        /\ lines' \in Seq(Event) /\ rescued' \in Seq(Event)
    <2>1. CASE UNCHANGED disk
      BY <1>3, <2>1 DEF disk, TypeOK
    <2>2. CASE \/ Truncated(p) \/ Rewritten(p) \/ Written(p) \/ HeaderWritten(p)
               \/ OpFails(p) \/ PublishFails(p)
      BY <1>2, <1>3, <2>2 DEF TypeOK, Truncated, Rewritten, Written, HeaderWritten, OpFails,
         PublishFails
    <2>3. CASE Interrupted(r)
      <3>1. Content(r) \in Seq(Event)
        BY <1>2, <1>3 DEF Content
      <3>2. ASSUME NEW k \in 0 .. Len(Content(r))
            PROVE  /\ SubSeq(Content(r), 1, k) \in Seq(Event)
                   /\ lines \o SubSeq(Content(r), 1, k) \in Seq(Event)
        <4>1. SubSeq(Content(r), 1, k) \in Seq(Event)
          BY <3>1, PartsAreSequences
        <4> QED
          BY <1>3, <4>1, PrefixOfConcat
      <3> HIDE DEF Content
      <3> QED
        BY <1>2, <1>3, <2>3, <3>2 DEF Interrupted, TypeOK
    <2> QED
      BY <1>1, <2>1, <2>2, <2>3
         DEF Create, OpenClaim, OpenRefused, AcquireLease, OpenFails, Load, Store,
       AppendEvent, FlushStart, Chain, TimerFires, DrainTurn, DrainEnds, Barrier, TakeLease,
       WriteRefused, Crash, Close, Closing, CloseAgain, CloseDrained, Unlock, Released, Outlived
  <1> QED
    BY <1>2, <1>4, <1>5, <1>6, <1>7, <1>8 DEF TypeOK

\* The parts of the invariant that a step needs.
Ready == TypeOK /\ Handles /\ AloneInv /\ DiskInv

\* The rest follows from them.
LEMMA ReadyIsWriteInv ==
    ASSUME Ready
    PROVE  OneWriter /\ ClosedIsDrained /\ MemoryMatchesDisk
  <1>0. TypeOK /\ Handles /\ AloneInv /\ DiskInv
    BY DEF Ready
  <1>1. OneWriter
    <2> SUFFICES ASSUME NEW p \in Procs, h[p].op \in FileOps
                 PROVE  lock \in {p, None}
      BY DEF OneWriter
    <2>1. h[p].leased
      BY <1>0, HandleIsGood, FileOpsAreLeased
    <2> QED
      BY <1>0, <2>1 DEF AloneInv
  <1>2. ASSUME NEW p \in Procs, h[p].at \in Routed
        PROVE  /\ IsPrefix(View, h[p].log)
               /\ h[p].at = "releasing" /\ h[p].published =>
                     \/ IsPrefix(SubSeq(h[p].log, 1, h[p].sealed), View)
                     \/ h[p].recovered # <<>> /\ rescued = <<>>
    <2> DEFINE r == h[p]
    <2>1. /\ Kept(r, stored, lines, rescued) /\ lines \in Seq(Event)
          /\ r \in Handle /\ ChainOf(r) /\ CursorOf(r) /\ NextOf(r)
      BY <1>0, <1>2, DiskIsKept, HandleIsGood DEF Loaded, TypeOK
    <2>2. IsPrefix(lines \o rescued, r.log)
      BY <2>1, KeptView
    <2>3. ASSUME r.published, r.recovered = <<>> \/ rescued # <<>>
          PROVE  IsPrefix(SubSeq(r.log, 1, r.sealed), lines \o rescued)
      <3>1. /\ r.log \in Seq(Event) /\ Len(r.log) \in Nat
            /\ r.cursor \in Nat /\ r.cursor <= Len(r.log)
        BY <2>1, KeptFacts
      <3>2. r.sealed \in Nat /\ r.sealed <= r.cursor
        BY <2>1, <2>3 DEF CursorOf, Handle
      <3>3. lines \o rescued = SubSeq(r.log, 1, r.cursor) \/ (r.cursor = 0 /\ ~r.materialized)
        <4>1. Acknowledged(r) \in Nat /\ Acknowledged(r) <= r.cursor /\ lines \o <<>> = lines
              /\ (r.recovered = <<>> => Acknowledged(r) = r.cursor)
          BY <2>1, KeptFacts
        <4>2. CASE r.materialized /\ r.recovered = <<>>
          BY <2>1, <4>1, <4>2 DEF Kept
        <4>3. CASE r.materialized /\ rescued = r.recovered
          <5>1. /\ lines = SubSeq(r.log, 1, Acknowledged(r))
                /\ rescued = SubSeq(r.log, Acknowledged(r) + 1, r.cursor)
            BY <2>1, <4>3 DEF Kept
          <5> QED
            BY <3>1, <4>1, <5>1, FrontGrows
        <4> QED
          BY <2>1, <2>3, <4>2, <4>3 DEF Kept
      <3>4. lines \o rescued \in Seq(Event)
        BY <1>0, <2>1, PrefixOfConcat DEF TypeOK
      <3>5. CASE lines \o rescued = SubSeq(r.log, 1, r.cursor)
        <4>1. /\ IsPrefix(SubSeq(r.log, 1, r.cursor), r.log) /\ Len(SubSeq(r.log, 1, r.cursor)) = r.cursor
              /\ SubSeq(r.log, 1, r.cursor) \in Seq(Event)
          BY <3>1, FrontIsPrefix
        <4>2. /\ IsPrefix(SubSeq(r.log, 1, r.sealed), r.log) /\ Len(SubSeq(r.log, 1, r.sealed)) = r.sealed
              /\ SubSeq(r.log, 1, r.sealed) \in Seq(Event)
          <5>1. r.sealed <= Len(r.log)
            BY <3>1, <3>2
          <5> QED
            BY <3>1, <3>2, <5>1, FrontIsPrefix
        <4>3. IsPrefix(SubSeq(r.log, 1, r.sealed), SubSeq(r.log, 1, r.cursor))
          BY <3>1, <3>2, <4>1, <4>2, PrefixesCompare
        <4> QED
          BY <3>5, <4>3
      <3>6. CASE r.cursor = 0
        <4>1. r.sealed = 0
          BY <3>2, <3>6
        <4> QED
          BY <3>1, <3>4, <4>1, EmptyFront
      <3> QED
        BY <3>3, <3>5, <3>6
    <2> QED
      BY <2>2, <2>3 DEF View
  <1> QED
    BY <1>1, <1>2 DEF ClosedIsDrained, MemoryMatchesDisk, Routed

LEMMA ReadyInit == Init => Ready
  <1> SUFFICES ASSUME Init PROVE Ready
    OBVIOUS
  <1>1. Good(NoHandle) /\ NoHandle.at = "out"
    BY NoHandleGood, OutIsNoHandle DEF Claimless, NoHandle
  <1>2. NoHandle \in Handle /\ \A p \in Procs : h[p] = NoHandle
    BY <1>1 DEF Good, Init
  <1>3. <<>> \in Seq(Event) /\ <<>> \o <<>> = <<>>
    BY EmptySeq, ConcatEmptySeq
  <1>4. TypeOK
    BY <1>2, <1>3 DEF Init, TypeOK
  <1>5. Handles
    BY <1>1, <1>2, <1>4, HandlesAreGood DEF TypeOK
  <1>6. AloneInv
    <2>1. \A p \in Procs : Placed(p, h[p], lock, stored)
      BY <1>2, ClaimlessIsPlaced, OutIsNoHandle DEF Claimless
    <2>2. Alone(h)
      BY <1>1, <1>2 DEF Alone, Claimless
    <2> QED
      BY <2>1, <2>2, AloneIsPlaced
  <1>7. DiskInv
    <2>1. Log!Contiguous(<<>>) /\ IsPrefix(<<>>, <<>>)
      BY <1>3, EmptyContiguous, EmptyFront
    <2>2. Durable(stored, lines, torn, rescued, promised)
      BY <1>3, <2>1 DEF Init, Durable
    <2>3. \A p \in Procs : h[p].at \notin Loaded
      BY <1>1, <1>2 DEF Loaded, Routed, Unpublished
    <2> QED
      BY <2>2, <2>3, DiskIsKept
  <1> QED
    BY <1>4, <1>5, <1>6, <1>7 DEF Ready

LEMMA ReadyStep ==
    ASSUME Sound, Ready, [Next]_vars
    PROVE  Ready'
  <1>1. CASE Next
    <2>1. TypeOK /\ Handles /\ AloneInv /\ DiskInv
      BY DEF Ready
    <2>2. Handles'
      BY <1>1, <2>1, HandlesStep
    <2>3. TypeOK'
      BY <1>1, <2>1, <2>2, TypeStep
    <2>4. AloneInv' /\ DiskInv'
      BY <1>1, <2>1, AloneStep, DiskStep
    <2> QED
      BY <2>2, <2>3, <2>4 DEF Ready
  <1>2. CASE UNCHANGED vars
    <2>1. /\ h' = h /\ stored' = stored /\ lines' = lines /\ torn' = torn
          /\ rescued' = rescued /\ promised' = promised /\ lock' = lock /\ framed' = framed
          /\ made' = made /\ faults' = faults /\ crashes' = crashes
      BY <1>2 DEF vars, disk, bounds
    <2>2. Handles'
      BY <2>1, HandlesAreGood, HandlesAreGoodPrimed DEF Ready
    <2>3. AloneInv' /\ DiskInv'
      BY <2>1, AloneIsPlaced, DiskIsKept DEF Ready
    <2>4. TypeOK'
      BY <2>1 DEF Ready, TypeOK
    <2> QED
      BY <2>2, <2>3, <2>4 DEF Ready
  <1> QED
    BY <1>1, <1>2

LEMMA WriterInv == ASSUME Sound PROVE Spec => []Ready
  <1>1. Init => Ready
    BY ReadyInit
  <1>2. Ready /\ [Next]_vars => Ready'
    BY ReadyStep
  <1> QED
    BY <1>1, <1>2, PTL DEF Spec

-----------------------------------------------------------------------------
(* The theorems. *)

\* The write path of one session, across processes, crashes and failed operations,
\* keeps its state in order: no process writes under another one's lock, the events
\* still to be stored follow the stored ones without a gap, and a close whose
\* drains succeed has everything on disk that was routed before it came to release
\* the lock.
THEOREM WritersAreInOrder == ASSUME Sound PROVE Spec => []WriteInv
  <1>1. Ready => WriteInv
    BY ReadyIsWriteInv DEF Ready, Handles, WriteInv
  <1> QED
    BY <1>1, WriterInv, PTL

\* A reader is never given an event that an open session does not have, in
\* another order.
THEOREM ReadersSeeTheLog == ASSUME Sound PROVE Spec => []MemoryMatchesDisk
  <1>1. Ready => MemoryMatchesDisk
    BY ReadyIsWriteInv
  <1> QED
    BY <1>1, WriterInv, PTL

-----------------------------------------------------------------------------
(* The stored log is what persistence promises. *)

\* What a step does to the view of a reader.
ViewMoves ==
    \/ IsPrefix(lines \o rescued, lines' \o rescued')
    \/ IsPrefix(lines' \o rescued', lines \o rescued)

LEMMA SelfPrefix ==
    ASSUME NEW s \in Seq(Event)
    PROVE  IsPrefix(s, s)
  <1>1. Len(s) \in Nat
    BY LenProperties
  <1> QED
    BY <1>1, PrefixIsFront

LEMMA WritesMoveView ==
    ASSUME Ready, NEW p \in Procs,
           \/ Truncated(p) \/ Rewritten(p) \/ Written(p) \/ HeaderWritten(p)
           \/ OpFails(p) \/ PublishFails(p) \/ Interrupted(h[p])
    PROVE  ViewMoves
  <1> DEFINE r == h[p]
  <1>1. r.op # "idle"
    BY IdleIsNotInterrupted DEF Truncated, Rewritten, Written, HeaderWritten, OpFails,
       PublishFails, FileOps
  <1>2. /\ r \in Handle /\ ChainOf(r) /\ CursorOf(r) /\ NextOf(r)
        /\ lines \in Seq(Event) /\ rescued \in Seq(Event)
        /\ Kept(r, stored, lines, rescued)
        /\ ~stored => lines = <<>> /\ rescued = <<>> /\ ~r.materialized
        /\ r.recovered \in Seq(Event) /\ r.batch \in Seq(Event)
    BY <1>1, LoadedFacts DEF Ready, Handle
  <1>3. lines \o <<>> = lines /\ lines \o rescued \in Seq(Event)
    BY <1>2, ConcatEmptySeq, PrefixOfConcat
  <1>4. CASE lines' = lines /\ rescued' = rescued
    BY <1>3, <1>4, SelfPrefix DEF ViewMoves
  <1>5. CASE lines' = lines /\ rescued' = <<>>
    BY <1>2, <1>3, <1>5, PrefixOfConcat DEF ViewMoves
  <1>6. ASSUME rescued = <<>>, NEW b \in Seq(Event),
               \/ lines' = lines \o b /\ rescued' = <<>>
               \/ lines' = lines /\ rescued' = b
        PROVE  ViewMoves
    <2>1. lines \o b \in Seq(Event) /\ IsPrefix(lines, lines \o b)
      BY <1>2, PrefixOfConcat
    <2>2. (lines \o b) \o <<>> = lines \o b
      BY <2>1, ConcatEmptySeq
    <2>3. lines' \o rescued' = lines \o b
      BY <1>6, <2>2
    <2>4. lines \o rescued = lines
      BY <1>3, <1>6
    <2> QED
      BY <2>1, <2>3, <2>4 DEF ViewMoves
  <1>7. ASSUME r.op \in {"header", "write"}, ~stored, lines' = r.batch, rescued' = rescued
        PROVE  ViewMoves
    <2>1. lines = <<>> /\ rescued = <<>>
      BY <1>2, <1>7
    <2>2. <<>> \o r.batch = r.batch
      BY <1>2, ConcatEmptySeq
    <2> QED
      BY <1>2, <1>6, <1>7, <2>1, <2>2
  <1>8. CASE Truncated(p) \/ HeaderWritten(p) \/ OpFails(p)
    BY <1>4, <1>5, <1>8 DEF Truncated, HeaderWritten, OpFails
  <1>9. CASE Rewritten(p)
    <2>1. /\ r.op = "rewrite" /\ lines' = lines \o r.recovered /\ rescued' = rescued
      BY <1>9 DEF Rewritten
    <2>2. rescued = <<>>
      BY <1>2, <2>1, RewrittenKept
    <2> QED
      BY <1>2, <1>6, <2>1, <2>2
  <1>10. CASE Written(p)
    <2>1. /\ r.op = "write" /\ lines' = lines \o r.batch /\ rescued' = rescued
          /\ (r.materialized \/ ~stored)
      BY <1>10 DEF Written, Writable
    <2>2. rescued = <<>>
      BY <1>2, <2>1, WrittenKept
    <2> QED
      BY <1>2, <1>6, <2>1, <2>2
  <1>11. CASE PublishFails(p)
    BY <1>7, <1>11 DEF PublishFails
  <1>12. CASE Interrupted(r)
    <2>1. ASSUME NEW k \in 0 .. Len(Content(r)), Content(r) # <<>>,
                 LET part == SubSeq(Content(r), 1, k)
                 IN  \/ k = Len(Content(r)) /\ lines' = lines \o part /\ UNCHANGED <<torn, rescued>>
                     \/ ~framed /\ lines' = lines \o part /\ torn' = TRUE /\ UNCHANGED rescued
                     \/ framed /\ torn' = TRUE /\ rescued' = part /\ UNCHANGED lines
          PROVE  ViewMoves
      <3> DEFINE part == SubSeq(Content(r), 1, k)
      <3>1. Content(r) \in Seq(Event)
        BY <1>2, EmptySeq DEF Content
      <3>2. rescued = <<>>
        <4>1. CASE r.op = "rewrite"
          BY <1>2, <4>1, RewrittenKept
        <4>2. CASE r.op = "write" /\ r.materialized
          BY <1>2, <4>2, WrittenKept
        <4> QED
          BY <2>1, <4>1, <4>2 DEF Content
      <3>3. part \in Seq(Event)
        BY <3>1, PartsAreSequences
      <3>4. \/ lines' = lines \o part /\ rescued' = rescued
            \/ lines' = lines /\ rescued' = part
        BY <2>1
      <3> HIDE DEF part
      <3> QED
        BY <1>6, <3>2, <3>3, <3>4
    <2>2. CASE r.op = "truncate" /\ torn' = FALSE /\ rescued' = <<>> /\ UNCHANGED <<stored, lines>>
      BY <1>5, <2>2
    <2>3. CASE /\ r.op \in {"header", "write"} /\ ~stored
               /\ stored' = TRUE /\ lines' = r.batch /\ UNCHANGED <<torn, rescued>>
      BY <1>7, <2>3
    <2> QED
      BY <1>12, <2>1, <2>2, <2>3 DEF Interrupted
  <1> QED
    BY <1>8, <1>9, <1>10, <1>11, <1>12

LEMMA RefineStep ==
    ASSUME Ready, Ready', [Next]_vars
    PROVE  [Log!Extend \/ Log!Forget \/ Log!Promise]_<<View, promised>>
  <1>1. TypeOK /\ Handles /\ AloneInv /\ DiskInv
    BY DEF Ready
  <1>2. /\ lines \in Seq(Event) /\ rescued \in Seq(Event) /\ promised \in Seq(Event)
        /\ lines' \in Seq(Event) /\ rescued' \in Seq(Event) /\ promised' \in Seq(Event)
        /\ Log!Contiguous(lines' \o rescued')
        /\ IsPrefix(promised, lines) /\ IsPrefix(promised', lines')
    BY DiskIsKept DEF Ready, TypeOK, Durable
  <1>3. /\ IsPrefix(lines, lines \o rescued) /\ lines \o rescued \in Seq(Event)
        /\ IsPrefix(lines', lines' \o rescued') /\ lines' \o rescued' \in Seq(Event)
    BY <1>2, PrefixOfConcat
  <1>4. IsPrefix(promised', lines' \o rescued')
    BY <1>2, <1>3, PrefixTransitive
  <1> DEFINE seen == lines \o rescued
  <1>5. View = seen /\ View' = seen'
    BY DEF View
  <1>6. Log!Contiguous(seen') /\ IsPrefix(promised', seen')
    BY <1>2, <1>4
  <1>7. CASE promised' = promised /\ ViewMoves
    <2>1. IsPrefix(seen, seen') \/ IsPrefix(seen', seen)
      BY <1>7 DEF ViewMoves
    <2> HIDE DEF seen
    <2>2. CASE IsPrefix(seen, seen')
      <3>1. Log!Extend
        BY <1>7, <1>5, <1>6, <2>2 DEF Log!Extend, Log!IsPrefix, IsPrefix
      <3> QED
        BY <3>1
    <2>3. CASE IsPrefix(seen', seen)
      <3>1. Log!Forget
        BY <1>7, <1>5, <1>6, <2>3 DEF Log!Forget, Log!IsPrefix, IsPrefix
      <3> QED
        BY <3>1
    <2> QED
      BY <2>1, <2>2, <2>3
  <1>8. CASE promised' = promised /\ UNCHANGED <<lines, rescued>>
    BY <1>8 DEF View
  <1>9. ASSUME NEW p \in Procs, Barrier(p)
        PROVE  [Log!Extend \/ Log!Forget \/ Log!Promise]_<<View, promised>>
    <2>1. UNCHANGED <<lines, rescued>> /\ h[p].flush = "barrier"
      BY <1>9 DEF Barrier, disk
    <2>2. CASE promised' = Longest(promised, Covered(h[p]))
      <3>1. Covered(h[p]) \in Seq(Event) /\ IsPrefix(Covered(h[p]), lines)
        <4>1. h[p].at \in Loaded /\ ChainOf(h[p]) /\ CursorOf(h[p]) /\ h[p] \in Handle
          BY <1>1, <2>1, BusyIsLoaded, HandleIsGood DEF None
        <4>2. Kept(h[p], stored, lines, rescued)
          BY <1>1, <4>1, DiskIsKept
        <4> QED
          BY <1>2, <2>1, <4>1, <4>2, CoveredIsStored
      <3>2. Len(promised) \in Nat /\ Len(Covered(h[p])) \in Nat
        BY <1>2, <3>1, LenProperties
      <3>3. IsPrefix(promised, promised')
        <4>1. CASE Len(promised) < Len(Covered(h[p]))
          <5>1. Len(promised) <= Len(Covered(h[p]))
            BY <3>2, <4>1
          <5>2. IsPrefix(promised, Covered(h[p]))
            BY <1>2, <3>1, <5>1, PrefixesCompare
          <5> QED
            BY <2>2, <4>1, <5>2 DEF Longest
        <4>2. CASE ~(Len(promised) < Len(Covered(h[p])))
          BY <1>2, <2>2, <4>2, SelfPrefix DEF Longest
        <4> QED
          BY <4>1, <4>2
      <3>4. seen' = seen
        BY <2>1
      <3> HIDE DEF seen
      <3>5. Log!Promise
        BY <1>5, <1>6, <3>3, <3>4 DEF Log!Promise, Log!IsPrefix, IsPrefix
      <3> QED
        BY <3>5
    <2>3. CASE promised' = promised
      BY <1>8, <2>1, <2>3
    <2> QED
      BY <1>9, <2>2, <2>3 DEF Barrier
  <1>10. CASE UNCHANGED vars
    BY <1>8, <1>10 DEF vars, disk
  <1>11. CASE Next
    <2>1. PICK p \in Procs :
              \/ Create(p) \/ OpenClaim(p) \/ OpenRefused(p) \/ AcquireLease(p) \/ OpenFails(p)
              \/ Load(p)
              \/ \E last \in BOOLEAN : Store(p, last)
              \/ AppendEvent(p) \/ FlushStart(p)
              \/ Chain(p)
              \/ OpFails(p) \/ PublishFails(p) \/ Crash(p)
              \/ Close(p) \/ Closing(p)
      BY <1>11 DEF Next
    <2>2. CASE \/ Truncated(p) \/ Rewritten(p) \/ Written(p) \/ HeaderWritten(p)
               \/ OpFails(p) \/ PublishFails(p)
      <3>1. promised' = promised
        BY <2>2 DEF Truncated, Rewritten, Written, HeaderWritten, OpFails, PublishFails
      <3> QED
        BY <1>7, <2>2, <3>1, WritesMoveView
    <2>3. CASE Crash(p)
      <3>1. promised' = promised /\ (UNCHANGED disk \/ Interrupted(h[p]))
        BY <2>3 DEF Crash
      <3>2. CASE UNCHANGED disk
        BY <1>8, <3>1, <3>2 DEF disk
      <3>3. CASE Interrupted(h[p])
        BY <1>7, <3>1, <3>3, WritesMoveView
      <3> QED
        BY <3>1, <3>2, <3>3
    <2>4. CASE \/ Create(p) \/ OpenClaim(p) \/ OpenRefused(p) \/ AcquireLease(p) \/ OpenFails(p)
               \/ Load(p) \/ (\E last \in BOOLEAN : Store(p, last))
               \/ AppendEvent(p) \/ FlushStart(p) \/ TimerFires(p) \/ DrainTurn(p)
               \/ DrainEnds(p) \/ TakeLease(p) \/ WriteRefused(p) \/ Close(p) \/ Closing(p)
      <3>1. promised' = promised /\ UNCHANGED <<lines, rescued>>
        BY <2>4 DEF disk, Create, OpenClaim, OpenRefused, AcquireLease, OpenFails, Load, Store,
           AppendEvent, FlushStart, TimerFires, DrainTurn, DrainEnds, TakeLease, WriteRefused,
           Close, Closing, CloseAgain, CloseDrained, Unlock, Released, Outlived
      <3> QED
        BY <1>8, <3>1
    <2> QED
      BY <1>9, <2>1, <2>2, <2>3, <2>4 DEF Chain
  <1> QED
    BY <1>10, <1>11

\* The write path implements DurableLog: the stored log is contiguous and never
\* rewritten, and no event that a resolved flush covered is lost, whichever
\* operations fail and whichever processes die.
THEOREM WritePathRefinesDurableLog == ASSUME Sound PROVE Spec => RefinesLog
  <1>1. Init => Log!LogInit
    <2>1. <<>> \o <<>> = <<>>
      BY EmptySeq, ConcatEmptySeq
    <2> QED
      BY <2>1 DEF Init, Log!LogInit, View
  <1>2. Ready /\ Ready' /\ [Next]_vars
            => [Log!Extend \/ Log!Forget \/ Log!Promise]_<<View, promised>>
    BY RefineStep
  <1> QED
    BY <1>1, <1>2, WriterInv, PTL DEF Spec, RefinesLog, Log!LogSpec

=============================================================================
