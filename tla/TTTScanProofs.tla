--------------------------- MODULE TTTScanProofs ---------------------------
(***************************************************************************)
(* Proofs about TTTScan, for every value of its constants: IInv, and with  *)
(* it type correctness and EventsCovered, is an invariant of Spec; so is   *)
(* LossInv, which bounds the blocks that are given up and how far back a   *)
(* watermark falls; and no event is counted twice while the ring drops     *)
(* only keys that no scan can deliver again.                               *)
(***************************************************************************)
EXTENDS TTTScan, SequenceTheorems, FiniteSetTheorems, TLAPS

-----------------------------------------------------------------------------
(* Sequences. *)

\* Members of the empty sequence, of an appended one and of a concatenation.
LEMMA MembersOfSeq ==
  /\ Members(<<>>) = {}
  /\ \A S : \A s \in Seq(S), x \in S :
       Members(Append(s, x)) = Members(s) \cup {x}
  /\ \A S : \A s, t \in Seq(S) :
       Members(s \o t) = Members(s) \cup Members(t)
PROOF
  <1>1. Members(<<>>) = {}
    BY DEF Members
  <1>2. ASSUME NEW S, NEW s \in Seq(S), NEW x \in S
        PROVE  Members(Append(s, x)) = Members(s) \cup {x}
    <2>1. /\ DOMAIN Append(s, x) = 1..(Len(s) + 1)
          /\ DOMAIN s = 1..Len(s) /\ Len(s) \in Nat
          /\ \A i \in 1..Len(s) : Append(s, x)[i] = s[i]
          /\ Append(s, x)[Len(s) + 1] = x
      BY AppendProperties, LenProperties
    <2> QED BY <2>1 DEF Members
  <1>3. ASSUME NEW S, NEW s \in Seq(S), NEW t \in Seq(S)
        PROVE  Members(s \o t) = Members(s) \cup Members(t)
    <2>1. /\ s \o t \in Seq(S)
          /\ Len(s \o t) = Len(s) + Len(t)
          /\ \A i \in 1..(Len(s) + Len(t)) :
               (s \o t)[i] = IF i <= Len(s) THEN s[i] ELSE t[i - Len(s)]
      BY ConcatProperties
    <2>2. /\ DOMAIN s = 1..Len(s) /\ Len(s) \in Nat
          /\ DOMAIN t = 1..Len(t) /\ Len(t) \in Nat
          /\ DOMAIN (s \o t) = 1..(Len(s) + Len(t))
      BY <2>1, LenProperties
    <2>3. Members(s \o t) \subseteq Members(s) \cup Members(t)
      <3> SUFFICES ASSUME NEW i \in DOMAIN (s \o t)
                   PROVE  (s \o t)[i] \in Members(s) \cup Members(t)
        BY DEF Members
      <3>1. CASE i <= Len(s)
        BY <2>1, <2>2, <3>1 DEF Members
      <3>2. CASE i > Len(s)
        <4>1. i - Len(s) \in DOMAIN t
          BY <2>2, <3>2
        <4> QED BY <2>1, <2>2, <3>2, <4>1 DEF Members
      <3> QED BY <2>2, <3>1, <3>2
    <2>4. Members(s) \subseteq Members(s \o t)
      BY <2>1, <2>2 DEF Members
    <2>5. Members(t) \subseteq Members(s \o t)
      <3> SUFFICES ASSUME NEW j \in DOMAIN t
                   PROVE  t[j] \in Members(s \o t)
        BY DEF Members
      <3>1. j + Len(s) \in DOMAIN (s \o t)
        BY <2>2
      <3>2. (s \o t)[j + Len(s)] = t[j]
        BY <2>1, <2>2, <3>1
      <3> QED BY <3>1, <3>2 DEF Members
    <2> QED BY <2>3, <2>4, <2>5
  <1> QED BY <1>1, <1>2, <1>3

\* The head of a sequence and the members of its tail make up its members.
LEMMA MembersOfTail ==
  ASSUME NEW S, NEW s \in Seq(S), s # <<>>
  PROVE  /\ Head(s) \in S /\ Tail(s) \in Seq(S)
         /\ Members(s) = {Head(s)} \cup Members(Tail(s))
PROOF
  <1>1. /\ Head(s) \in S /\ Tail(s) \in Seq(S)
        /\ Len(Tail(s)) = Len(s) - 1
        /\ \A i \in 1..Len(Tail(s)) : Tail(s)[i] = s[i + 1]
    BY HeadTailProperties
  <1>2. /\ DOMAIN s = 1..Len(s) /\ Len(s) \in Nat \ {0}
        /\ DOMAIN Tail(s) = 1..(Len(s) - 1) /\ Head(s) = s[1]
    BY <1>1, LenProperties, EmptySeq
  <1>3. Members(s) \subseteq {Head(s)} \cup Members(Tail(s))
    <2> SUFFICES ASSUME NEW i \in DOMAIN s
                 PROVE  s[i] \in {Head(s)} \cup Members(Tail(s))
      BY DEF Members
    <2>1. CASE i = 1
      BY <1>2, <2>1
    <2>2. CASE i # 1
      <3>1. i - 1 \in DOMAIN Tail(s) /\ Tail(s)[i - 1] = s[i]
        BY <1>1, <1>2, <2>2
      <3> QED BY <3>1 DEF Members
    <2> QED BY <2>1, <2>2
  <1>4. {Head(s)} \cup Members(Tail(s)) \subseteq Members(s)
    <2>1. Head(s) \in Members(s)
      BY <1>2 DEF Members
    <2>2. ASSUME NEW j \in DOMAIN Tail(s) PROVE Tail(s)[j] \in Members(s)
      <3>1. j + 1 \in DOMAIN s /\ Tail(s)[j] = s[j + 1]
        BY <1>1, <1>2
      <3> QED BY <3>1 DEF Members
    <2> QED BY <2>1, <2>2 DEF Members
  <1> QED BY <1>1, <1>3, <1>4

\* The tail kept of a full ring holds nothing new.
LEMMA MembersOfLastOf ==
  ASSUME NEW S, NEW s \in Seq(S), NEW n \in Nat
  PROVE  LastOf(s, n) \in Seq(S) /\ Members(LastOf(s, n)) \subseteq Members(s)
PROOF
  <1> DEFINE a == Larger(1, Len(s) - n + 1)
  <1>1. /\ Len(s) \in Nat /\ DOMAIN s = 1..Len(s)
        /\ \A i \in 1..Len(s) : s[i] \in S
    BY LenProperties, ElementOfSeq
  <1>2. a \in Int /\ a >= 1
    BY <1>1 DEF Larger
  <1>3. \A i \in a..Len(s) : s[i] \in S
    BY <1>1, <1>2
  <1> HIDE DEF a
  <1>4. /\ SubSeq(s, a, Len(s)) \in Seq(S)
        /\ Len(SubSeq(s, a, Len(s))) = IF a <= Len(s) THEN Len(s) - a + 1 ELSE 0
        /\ \A i \in 1..(Len(s) - a + 1) : SubSeq(s, a, Len(s))[i] = s[a + i - 1]
    BY <1>1, <1>2, <1>3, SubSeqProperties
  <1>5. LastOf(s, n) = SubSeq(s, a, Len(s))
    BY DEF LastOf, a
  <1>6. ASSUME NEW i \in DOMAIN SubSeq(s, a, Len(s))
        PROVE  SubSeq(s, a, Len(s))[i] \in Members(s)
    <2>1. i \in 1..(Len(s) - a + 1)
      BY <1>1, <1>2, <1>4, LenProperties
    <2>2. a + i - 1 \in DOMAIN s
      BY <1>1, <1>2, <2>1
    <2> QED BY <1>4, <2>1, <2>2 DEF Members
  <1> QED BY <1>4, <1>5, <1>6 DEF Members

-----------------------------------------------------------------------------
(* The cache. *)

\* A cache that keeps its promises to the chain `at` of height h.
Sound(m, at, h) ==
  m \in CacheType /\ BelowHead(m, h) /\ RingIsCounted(m) /\ CoveredIn(m, at)

\* Registering a token disturbs nothing but the registry, and what it promises
\* for the buybacks of the new token is empty.
LEMMA RegisterTokenLemma ==
  ASSUME NEW m \in CacheType, NEW a \in Tokens
  PROVE  /\ RegisterToken(m, a) \in CacheType
         /\ RegisterToken(m, a).mark = m.mark
         /\ RegisterToken(m, a).ring = m.ring
         /\ RegisterToken(m, a).counted = m.counted
         /\ RegisterToken(m, a).skipped = m.skipped
         /\ \A b \in Tokens : b \in Members(RegisterToken(m, a).tokens) =>
              \/ /\ b \in Members(m.tokens)
                 /\ RegisterToken(m, a).since[b] = m.since[b]
              \/ RegisterToken(m, a).since[b] = m.mark["Bought"]
PROOF
  <1>1. CASE a \in Members(m.tokens)
    <2>1. RegisterToken(m, a) = m
      BY <1>1 DEF RegisterToken
    <2> QED BY <2>1
  <1>2. CASE a \notin Members(m.tokens)
    <2>1. RegisterToken(m, a) = [m EXCEPT !.tokens = Append(m.tokens, a),
                                          !.since[a] = m.mark["Bought"]]
      BY <1>2 DEF RegisterToken
    <2>2. m.tokens \in Seq(Tokens) /\ m.since \in [Tokens -> 0..MaxBlock]
          /\ m.mark["Bought"] \in 0..MaxBlock
      BY DEF CacheType, Topics
    <2>3. Append(m.tokens, a) \in Seq(Tokens)
      BY <2>2, AppendProperties
    <2>4. Members(Append(m.tokens, a)) = Members(m.tokens) \cup {a}
      BY <2>2, MembersOfSeq
    <2>5. RegisterToken(m, a) \in CacheType
      <3> DEFINE tk == Append(m.tokens, a)
                 sn == [m.since EXCEPT ![a] = m.mark["Bought"]]
      <3>1. sn \in [Tokens -> 0..MaxBlock]
        BY <2>2
      <3>2. RegisterToken(m, a) = [m EXCEPT !.tokens = tk, !.since = sn]
        BY <2>1 DEF CacheType
      <3>3. tk \in Seq(Tokens)
        BY <2>3
      <3> HIDE DEF tk, sn
      <3> QED BY <3>1, <3>2, <3>3 DEF CacheType
    <2>6. /\ RegisterToken(m, a).tokens = Append(m.tokens, a)
          /\ RegisterToken(m, a).since =
               [m.since EXCEPT ![a] = m.mark["Bought"]]
      BY <2>1 DEF CacheType
    <2>7. /\ RegisterToken(m, a).mark = m.mark
          /\ RegisterToken(m, a).ring = m.ring
          /\ RegisterToken(m, a).counted = m.counted
          /\ RegisterToken(m, a).skipped = m.skipped
      BY <2>1 DEF CacheType
    <2>8. ASSUME NEW b \in Tokens, b \in Members(RegisterToken(m, a).tokens)
          PROVE  \/ /\ b \in Members(m.tokens)
                    /\ RegisterToken(m, a).since[b] = m.since[b]
                 \/ RegisterToken(m, a).since[b] = m.mark["Bought"]
      BY <2>2, <2>4, <2>6, <2>8
    <2> QED BY <2>5, <2>7, <2>8
  <1> QED BY <1>1, <1>2

\* Counting an event counts it, loses no count and leaves the rest alone.
LEMMA CountOnceLemma ==
  ASSUME ConfigAssumption, NEW m \in CacheType, RingIsCounted(m), NEW k \in Keys
  PROVE  /\ CountOnce(m, k) \in CacheType
         /\ RingIsCounted(CountOnce(m, k))
         /\ CountOnce(m, k).counted[k] > 0
         /\ \A j \in Keys : m.counted[j] > 0 => CountOnce(m, k).counted[j] > 0
         /\ CountOnce(m, k).mark = m.mark
         /\ CountOnce(m, k).tokens = m.tokens
         /\ CountOnce(m, k).skipped = m.skipped
         /\ CountOnce(m, k).since = m.since
PROOF
  <1>1. CASE k \in Members(m.ring)
    <2>1. CountOnce(m, k) = m
      BY <1>1 DEF CountOnce
    <2>2. m.counted[k] > 0
      BY <1>1 DEF RingIsCounted
    <2> QED BY <2>1, <2>2
  <1>2. CASE k \notin Members(m.ring)
    <2> DEFINE r == LastOf(Append(m.ring, k), RingSize)
               f == [m.counted EXCEPT ![k] = Bump(m.counted[k])]
    <2>1. CountOnce(m, k) = [m EXCEPT !.ring = r, !.counted = f]
      BY <1>2 DEF CountOnce, CacheType
    <2>2. m.ring \in Seq(Keys) /\ m.counted \in [Keys -> 0..CountCap]
      BY DEF CacheType
    <2>3. /\ Append(m.ring, k) \in Seq(Keys)
          /\ Members(Append(m.ring, k)) = Members(m.ring) \cup {k}
      BY <2>2, AppendProperties, MembersOfSeq
    <2>4. r \in Seq(Keys) /\ Members(r) \subseteq Members(m.ring) \cup {k}
      BY <2>3, MembersOfLastOf DEF ConfigAssumption
    <2>5. f \in [Keys -> 0..CountCap] /\ f[k] > 0
          /\ \A j \in Keys : m.counted[j] > 0 => f[j] > 0
      BY <2>2 DEF Bump, CountCap
    <2> HIDE DEF r, f
    <2>6. CountOnce(m, k) \in CacheType
      BY <2>1, <2>4, <2>5 DEF CacheType
    <2>7. /\ CountOnce(m, k).ring = r
          /\ CountOnce(m, k).counted = f
          /\ CountOnce(m, k).mark = m.mark
          /\ CountOnce(m, k).tokens = m.tokens
          /\ CountOnce(m, k).skipped = m.skipped
          /\ CountOnce(m, k).since = m.since
      BY <2>1 DEF CacheType
    <2>8. Members(m.ring) \subseteq Keys
      BY <2>2, LenProperties DEF Members
    <2>9. RingIsCounted(CountOnce(m, k))
      BY <2>4, <2>5, <2>7, <2>8 DEF RingIsCounted
    <2> QED BY <2>5, <2>6, <2>7, <2>9
  <1> QED BY <1>1, <1>2

\* Applying an event keeps a cache sound and counts the event.
LEMMA ApplyLemma ==
  ASSUME ConfigAssumption, NEW at, NEW h, NEW m, Sound(m, at, h),
         MarginAssumption, at \in [Logs -> 0..MaxBlock], NEW k \in Keys
  PROVE  /\ Sound(Apply(m, k), at, h)
         /\ Apply(m, k).counted[k] > 0
         /\ \A j \in Keys : m.counted[j] > 0 => Apply(m, k).counted[j] > 0
         /\ Apply(m, k).mark = m.mark
         /\ TopicOf[k[1]] # "Launched" => Apply(m, k).tokens = m.tokens
PROOF
  <1> DEFINE a == TokenOf[k[1]]
             p == IF TopicOf[k[1]] = "Launched" THEN RegisterToken(m, a) ELSE m
  <1>1. a \in Tokens /\ m \in CacheType
    BY DEF ConfigAssumption, Keys, Sound
  <1>2. /\ p \in CacheType /\ p.mark = m.mark /\ p.ring = m.ring
        /\ p.counted = m.counted /\ p.skipped = m.skipped
        /\ \A b \in Tokens : b \in Members(p.tokens) =>
             \/ b \in Members(m.tokens) /\ p.since[b] = m.since[b]
             \/ p.since[b] = m.mark["Bought"]
    BY <1>1, RegisterTokenLemma
  <1>3. Apply(m, k) = CountOnce(p, k)
    BY DEF Apply
  <1>4. RingIsCounted(p)
    BY <1>2 DEF RingIsCounted, Sound
  <1>9. TopicOf[k[1]] # "Launched" => p = m
    OBVIOUS
  <1> HIDE DEF p
  <1>5. /\ Apply(m, k) \in CacheType
        /\ RingIsCounted(Apply(m, k))
        /\ Apply(m, k).counted[k] > 0
        /\ \A j \in Keys : m.counted[j] > 0 => Apply(m, k).counted[j] > 0
        /\ Apply(m, k).mark = m.mark
        /\ Apply(m, k).tokens = p.tokens
        /\ Apply(m, k).skipped = m.skipped
        /\ Apply(m, k).since = p.since
    BY <1>2, <1>3, <1>4, CountOnceLemma
  <1>6. BelowHead(Apply(m, k), h)
    BY <1>5 DEF BelowHead, Sound
  <1>7. CoveredIn(Apply(m, k), at)
    <2> SUFFICES ASSUME NEW l \in Logs, Promised(Apply(m, k), at, l)
                 PROVE  Apply(m, k).counted[<<l, at[l]>>] > 0
      BY DEF CoveredIn
    <2>1. /\ at[l] \in Blocks /\ <<l, at[l]>> \in Keys
          /\ at[l] <= m.mark[TopicOf[l]] - Margin
          /\ at[l] \notin m.skipped[TopicOf[l]]
      BY <1>5 DEF Promised, Keys
    <2>2. CASE TopicOf[l] # "Bought"
      <3>1. Promised(m, at, l)
        BY <2>1, <2>2 DEF Promised
      <3> QED BY <2>1, <3>1, <1>5 DEF Sound, CoveredIn
    <2>3. CASE TopicOf[l] = "Bought"
      <3>1. /\ TokenOf[l] \in Tokens
            /\ TokenOf[l] \in Members(p.tokens)
            /\ at[l] > p.since[TokenOf[l]] - Margin
        BY <2>3, <1>5 DEF Promised, ConfigAssumption
      <3>2. p.since[TokenOf[l]] # m.mark["Bought"]
        <4>1. p.since \in [Tokens -> 0..MaxBlock] /\ m.mark["Bought"] \in 0..MaxBlock
          BY <1>1, <1>2 DEF CacheType, Topics
        <4>2. p.since[TokenOf[l]] \in Nat /\ m.mark["Bought"] \in Nat /\ at[l] \in Nat
              /\ Margin \in Nat
          BY <2>1, <3>1, <4>1 DEF Blocks, ConfigAssumption
        <4> QED BY <2>1, <2>3, <3>1, <4>2
      <3>3. TokenOf[l] \in Members(m.tokens)
            /\ p.since[TokenOf[l]] = m.since[TokenOf[l]]
        BY <1>2, <3>1, <3>2
      <3>4. Promised(m, at, l)
        BY <2>1, <2>3, <3>1, <3>3 DEF Promised
      <3> QED BY <2>1, <3>4, <1>5 DEF Sound, CoveredIn
    <2> QED BY <2>2, <2>3
  <1> QED BY <1>5, <1>6, <1>7, <1>9 DEF Sound

\* What a save and a load give back is sound when the saved cache is.
LEMMA SavedLemma ==
  ASSUME ConfigAssumption, NEW at, NEW h, NEW m, Sound(m, at, h)
  PROVE  /\ Saved(m) \in [version : {1, 2}, cache : CacheType]
         /\ Sound(Loaded(Saved(m)), at, h)
PROOF
  <1> DEFINE r == LastOf(m.ring, PersistSize)
             n == [m EXCEPT !.ring = r]
  <1>1. m \in CacheType /\ m.ring \in Seq(Keys)
    BY DEF Sound, CacheType
  <1>2. r \in Seq(Keys) /\ Members(r) \subseteq Members(m.ring)
    BY <1>1, MembersOfLastOf DEF ConfigAssumption
  <1> HIDE DEF r
  <1>3. /\ n \in CacheType /\ n.ring = r /\ n.mark = m.mark
        /\ n.tokens = m.tokens /\ n.counted = m.counted
        /\ n.skipped = m.skipped /\ n.since = m.since
    BY <1>1, <1>2 DEF CacheType
  <1>4. Saved(m) = [version |-> 2, cache |-> n]
    BY DEF Saved, r
  <1>5. Loaded(Saved(m)) = n
    BY <1>4 DEF Loaded
  <1> HIDE DEF n
  <1>6. RingIsCounted(n) /\ BelowHead(n, h) /\ CoveredIn(n, at)
    BY <1>2, <1>3
       DEF Sound, RingIsCounted, BelowHead, CoveredIn, Promised
  <1> QED BY <1>3, <1>4, <1>5, <1>6 DEF Sound

\* An empty cache promises nothing, whatever tokens it knows.
LEMMA EmptyCacheLemma ==
  ASSUME ConfigAssumption, NEW at, NEW h \in Nat, NEW s \in Seq(Tokens)
  PROVE  /\ EmptyCache \in CacheType
         /\ Sound(EmptyCache, at, h)
         /\ Sound([EmptyCache EXCEPT !.tokens = s], at, h)
PROOF
  <1> DEFINE n == [EmptyCache EXCEPT !.tokens = s]
  <1>1. <<>> \in Seq(Tokens) /\ <<>> \in Seq(Keys) /\ Members(<<>>) = {}
    BY EmptySeq, MembersOfSeq
  <1>2. EmptyCache \in CacheType /\ n \in CacheType
    <2> DEFINE mk == [t \in Topics |-> 0]
               ct == [k \in Keys |-> 0]
               sk == [t \in Topics |-> {}]
               si == [a \in Tokens |-> 0]
    <2>1. /\ mk \in [Topics -> 0..MaxBlock] /\ ct \in [Keys -> 0..CountCap]
          /\ sk \in [Topics -> SUBSET Blocks]
          /\ si \in [Tokens -> 0..MaxBlock]
      BY DEF CountCap, ConfigAssumption
    <2>2. EmptyCache = [mark |-> mk, tokens |-> <<>>, ring |-> <<>>,
                        counted |-> ct, skipped |-> sk, since |-> si]
      BY DEF EmptyCache
    <2> HIDE DEF mk, ct, sk, si
    <2>3. EmptyCache \in CacheType
      BY <1>1, <2>1, <2>2 DEF CacheType
    <2>4. n \in CacheType
      BY <1>1, <2>3 DEF CacheType
    <2> QED BY <2>3, <2>4
  <1>3. /\ EmptyCache.ring = <<>> /\ EmptyCache.mark = [t \in Topics |-> 0]
        /\ n.ring = <<>> /\ n.mark = [t \in Topics |-> 0]
    BY DEF EmptyCache
  <1> HIDE DEF n
  <1>4. \A l \in Logs : ~Promised(EmptyCache, at, l) /\ ~Promised(n, at, l)
    BY <1>3 DEF Promised, ConfigAssumption, Blocks
  <1>5. Sound(EmptyCache, at, h)
    BY <1>1, <1>2, <1>3, <1>4 DEF Sound, BelowHead, RingIsCounted, CoveredIn
  <1>6. Sound(n, at, h)
    BY <1>1, <1>2, <1>3, <1>4 DEF Sound, BelowHead, RingIsCounted, CoveredIn
  <1> QED BY <1>2, <1>5, <1>6 DEF n

\* Moving a watermark over blocks that are counted or skipped keeps a cache
\* sound.
LEMMA AdvancedLemma ==
  ASSUME ConfigAssumption, NEW at, NEW h \in Nat, NEW m, Sound(m, at, h),
         at \in [Logs -> 0..MaxBlock], h <= MaxBlock,
         NEW t \in Topics, NEW from \in Nat, NEW reached \in Int, reached <= h,
         \A l \in Logs :
           ( /\ TopicOf[l] = t /\ at[l] \in Blocks
             /\ from <= at[l] /\ at[l] <= reached - Margin
             /\ t = "Bought" => TokenOf[l] \in Members(m.tokens) )
           => m.counted[<<l, at[l]>>] > 0
  PROVE  /\ Sound(Advanced(m, t, from, reached), at, h)
         /\ Advanced(m, t, from, reached).tokens = m.tokens
PROOF
  <1>1. CASE reached < from
    <2>1. Advanced(m, t, from, reached) = m
      BY <1>1 DEF Advanced
    <2> QED BY <2>1
  <1>2. CASE reached >= from
    <2> DEFINE gap == {b \in Blocks : b < from /\ b > m.mark[t] - Margin}
               n == [m EXCEPT !.mark[t] = reached, !.skipped[t] = @ \cup gap]
    <2>1. Advanced(m, t, from, reached) = n
      BY <1>2 DEF Advanced
    <2>2. /\ m \in CacheType /\ m.mark \in [Topics -> 0..MaxBlock]
          /\ m.skipped \in [Topics -> SUBSET Blocks]
      BY DEF Sound, CacheType
    <2>3. /\ n.mark = [m.mark EXCEPT ![t] = reached]
          /\ n.skipped = [m.skipped EXCEPT ![t] = m.skipped[t] \cup gap]
          /\ n.ring = m.ring /\ n.counted = m.counted
          /\ n.tokens = m.tokens /\ n.since = m.since
      BY <2>2 DEF CacheType
    <2>4. reached \in 0..MaxBlock
      BY <1>2 DEF ConfigAssumption
    <2>5. n \in CacheType
      BY <2>2, <2>4 DEF CacheType
    <2> HIDE DEF n
    <2>6. RingIsCounted(n) /\ BelowHead(n, h)
      BY <2>2, <2>3 DEF Sound, RingIsCounted, BelowHead
    <2>7. CoveredIn(n, at)
      <3> SUFFICES ASSUME NEW l \in Logs, Promised(n, at, l)
                   PROVE  m.counted[<<l, at[l]>>] > 0
        BY <2>3 DEF CoveredIn
      <3>1. CASE TopicOf[l] # t
        <4>1. Promised(m, at, l)
          BY <2>2, <2>3, <3>1 DEF Promised, ConfigAssumption
        <4> QED BY <4>1 DEF Sound, CoveredIn
      <3>2. CASE TopicOf[l] = t /\ at[l] < from
        <4>1. at[l] \in Blocks /\ at[l] \notin gap /\ at[l] \notin m.skipped[t]
          BY <2>2, <2>3, <3>2 DEF Promised
        <4>2. at[l] <= m.mark[t] - Margin
          BY <2>2, <3>2, <4>1 DEF Blocks, ConfigAssumption
        <4>3. Promised(m, at, l)
          BY <2>3, <3>2, <4>1, <4>2 DEF Promised
        <4> QED BY <4>3 DEF Sound, CoveredIn
      <3>3. CASE TopicOf[l] = t /\ at[l] >= from
        <4>1. at[l] \in Blocks /\ at[l] <= reached - Margin
          BY <2>2, <2>3, <3>3 DEF Promised
        <4>2. t = "Bought" => TokenOf[l] \in Members(m.tokens)
          BY <2>3, <3>3 DEF Promised
        <4> QED BY <3>3, <4>1, <4>2
      <3>4. at[l] \in Nat
        BY DEF Promised, Blocks
      <3> QED BY <3>1, <3>2, <3>3, <3>4
    <2> QED BY <2>1, <2>3, <2>5, <2>6, <2>7 DEF Sound
  <1> QED BY <1>1, <1>2

\* A chain that keeps its settled blocks keeps a cache sound.
LEMMA ChainLemma ==
  ASSUME ConfigAssumption, NEW at, NEW h \in Nat, NEW m, Sound(m, at, h),
         NEW at2, NEW h2 \in Nat, h <= h2,
         \A l \in Logs :
           (at2[l] \in Blocks /\ at2[l] <= h - Margin) => at2[l] = at[l]
  PROVE  Sound(m, at2, h2)
PROOF
  <1>1. m \in CacheType /\ m.mark \in [Topics -> 0..MaxBlock]
    BY DEF Sound, CacheType
  <1>2. BelowHead(m, h2)
    BY <1>1 DEF Sound, BelowHead
  <1>3. ASSUME NEW l \in Logs, Promised(m, at2, l)
        PROVE  m.counted[<<l, at2[l]>>] > 0
    <2>1. TopicOf[l] \in Topics
      BY DEF ConfigAssumption
    <2>2. m.mark[TopicOf[l]] <= h /\ m.mark[TopicOf[l]] \in Nat
      BY <1>1, <2>1 DEF Sound, BelowHead
    <2>3. at2[l] \in Blocks /\ at2[l] <= h - Margin
      BY <1>3, <2>2 DEF Promised, Blocks, ConfigAssumption
    <2>4. at2[l] = at[l]
      BY <2>3
    <2>5. Promised(m, at, l)
      BY <1>3, <2>4 DEF Promised
    <2> QED BY <2>4, <2>5 DEF Sound, CoveredIn
  <1> QED BY <1>2, <1>3 DEF Sound, CoveredIn

-----------------------------------------------------------------------------
(* The steps. *)

LEMMA LoadedType ==
  ASSUME NEW d \in [version : {1, 2}, cache : CacheType]
  PROVE  Loaded(d) \in CacheType
PROOF
  <1>1. d.cache \in CacheType /\ d.cache.tokens \in Seq(Tokens)
    BY DEF CacheType
  <1>2. Sound([EmptyCache EXCEPT !.tokens = d.cache.tokens], <<>>, 0)
    BY <1>1, EmptyCacheLemma, ConfigAssumption
  <1> QED BY <1>1, <1>2 DEF Loaded, Sound

\* The invariant makes both caches sound, and what is left of it when they are.
LEMMA IInvSound ==
  ASSUME IInv
  PROVE  Sound(mem, minedAt, head) /\ Sound(Loaded(disk), minedAt, head)
PROOF
  <1>1. mem \in CacheType /\ Loaded(disk) \in CacheType
    BY LoadedType DEF IInv, TypeOK
  <1> QED BY <1>1 DEF IInv, EventsCovered, Sound

\* What holds of a scan, besides its type.
ScanInv ==
  /\ pc \in {"fetch", "apply"} => scan.reach <= cur
  /\ \A k \in Members(scan.batch) : TopicOf[k[1]] = scan.topic
  /\ FetchInv
  /\ ApplyInv

\* The invariant holds after a step if the types do, the chain is below its
\* head, both caches are sound and the scan is in order.
LEMMA IInvPrime ==
  ASSUME TypeOK', \A l \in Logs : minedAt'[l] <= head', cur' <= head',
         Sound(mem', minedAt', head'), Sound(Loaded(disk'), minedAt', head'),
         ScanInv'
  PROVE  IInv'
BY DEF IInv, ScanInv, EventsCovered, Sound

\* A scan starts with nothing read, and over an empty range it is complete.
LEMMA StartScanLemma ==
  ASSUME NEW m \in CacheType, NEW t \in Topics, NEW c \in 0..MaxBlock,
         StartScan(m, t, c), cur' = c, minedAt' \in [Logs -> 0..MaxBlock],
         mem' \in CacheType
  PROVE  /\ scan' \in ScanType
         /\ pc' \in {"fetch", "apply"}
         /\ ScanInv'
PROOF
  <1> DEFINE f == FromBlock(m, t, c)
  <1>1. f \in Nat
    <2>1. m.mark[t] \in 0..MaxBlock
      BY DEF CacheType
    <2> QED BY <2>1, ConfigAssumption DEF FromBlock, Larger, ConfigAssumption
  <1>2. /\ scan' = [topic |-> t, from |-> f, cursor |-> f, done |-> 0,
                    reach |-> c, batch |-> <<>>]
        /\ pc' = IF f > c THEN "apply" ELSE "fetch"
    BY DEF StartScan
  <1> HIDE DEF f
  <1>3. scan' \in ScanType
    BY <1>1, <1>2, EmptySeq DEF ScanType
  <1>4. Members(scan'.batch) = {}
    BY <1>2, MembersOfSeq
  <1>5. /\ scan'.from = f /\ scan'.cursor = f /\ scan'.reach = c
        /\ scan'.done = 0
    BY <1>2
  <1>6. \A l \in Logs : minedAt'[l] \in 0..MaxBlock
    OBVIOUS
  <1>7. FetchInv'
    <2>1. ASSUME pc' = "fetch" PROVE f <= c
      BY <1>1, <1>2, <2>1, ConfigAssumption DEF ConfigAssumption
    <2>2. ASSUME NEW l \in Logs, Settled(l)' PROVE ~(minedAt'[l] < f)
      BY <1>1, <1>5, <1>6, <2>2, ConfigAssumption DEF Settled, ConfigAssumption
    <2>3. \A j \in DOMAIN mem'.tokens : ~(j <= 0)
      <3>1. mem'.tokens \in Seq(Tokens)
        BY DEF CacheType
      <3>2. DOMAIN mem'.tokens = 1..Len(mem'.tokens)
        BY <3>1, LenProperties
      <3> QED BY <3>2
    <2> QED BY <1>1, <1>5, <2>1, <2>2, <2>3 DEF FetchInv
  <1>8. ApplyInv'
    <2> SUFFICES ASSUME pc' = "apply", NEW l \in Logs
                 PROVE  ~Settled(l)'
      BY DEF ApplyInv
    <2>1. f > c
      BY <1>2
    <2> QED BY <1>1, <1>5, <1>6, <2>1, ConfigAssumption
            DEF Settled, ConfigAssumption
  <1>9. scan'.reach <= cur'
    BY <1>5, ConfigAssumption DEF ConfigAssumption
  <1> QED BY <1>2, <1>3, <1>4, <1>7, <1>8, <1>9 DEF ScanInv

\* While the manager is not scanning there is nothing to hold of a scan.
LEMMA NoScanLemma ==
  ASSUME pc' \in {"off", "idle"}, scan' = NoScan
  PROVE  scan' \in ScanType /\ ScanInv'
PROOF
  <1>1. <<>> \in Seq(Keys) /\ Members(<<>>) = {}
    BY EmptySeq, MembersOfSeq
  <1>2. scan' \in ScanType /\ Members(scan'.batch) = {}
    BY <1>1 DEF NoScan, ScanType, Topics
  <1> QED BY <1>2 DEF ScanInv, FetchInv, ApplyInv

LEMMA AfterTopicLemma ==
  ASSUME NEW m \in CacheType, NEW t \in Topics, AfterTopic(m, t),
         cur \in 0..MaxBlock, minedAt' \in [Logs -> 0..MaxBlock],
         mem' \in CacheType
  PROVE  /\ scan' \in ScanType
         /\ pc' \in {"idle", "fetch", "apply"}
         /\ cur' \in {0, cur}
         /\ ScanInv'
PROOF
  <1>1. CASE EndCycle
    BY <1>1, NoScanLemma DEF EndCycle
  <1>2. CASE StartScan(m, "Deposited", cur) /\ UNCHANGED cur
    BY <1>2, StartScanLemma DEF Topics
  <1>3. CASE StartScan(m, "Bought", cur) /\ UNCHANGED cur
    BY <1>3, StartScanLemma DEF Topics
  <1> QED BY <1>1, <1>2, <1>3 DEF AfterTopic

LEMMA IInvInit == Init => IInv
PROOF
  <1> SUFFICES ASSUME Init PROVE IInv
    OBVIOUS
  <1>1. /\ EmptyCache \in CacheType
        /\ Sound(EmptyCache, minedAt, head)
        /\ \A s \in Seq(Tokens) :
             Sound([EmptyCache EXCEPT !.tokens = s], minedAt, head)
    <2>1. head \in Nat /\ <<>> \in Seq(Tokens)
      BY ConfigAssumption, EmptySeq DEF Init, ConfigAssumption
    <2> QED BY <2>1, EmptyCacheLemma, ConfigAssumption
  <1>2. \A s \in TokenLists : s \in Seq(Tokens)
    <2>1. LaunchedTokens \subseteq Tokens
      BY ConfigAssumption DEF LaunchedTokens, ConfigAssumption
    <2>2. Cardinality(LaunchedTokens) \in Nat
      BY <2>1, FS_Subset, FS_CardinalityType, ConfigAssumption
         DEF ConfigAssumption
    <2>3. ASSUME NEW s \in TokenLists PROVE s \in Seq(Tokens)
      <3>1. s \in [1..Cardinality(LaunchedTokens) -> Tokens]
        BY <2>1 DEF TokenLists
      <3> QED BY <2>2, <3>1, SeqDef
    <2> QED BY <2>3
  <1>3. ASSUME NEW s \in TokenLists
        PROVE  /\ LegacyFile(s) \in [version : {1, 2}, cache : CacheType]
               /\ Sound(Loaded(LegacyFile(s)), minedAt, head)
    <2> DEFINE mk == [t \in Topics |-> head]
               ct == [k \in Keys |->
                        IF minedAt[k[1]] = k[2] THEN CountCap ELSE 0]
               n == [EmptyCache EXCEPT !.mark = mk, !.tokens = s,
                                       !.counted = ct]
    <2>1. /\ mk \in [Topics -> 0..MaxBlock] /\ ct \in [Keys -> 0..CountCap]
          /\ s \in Seq(Tokens)
      BY <1>2, ConfigAssumption DEF Init, ConfigAssumption, CountCap
    <2>2. LegacyFile(s) = [version |-> 1, cache |-> n]
      BY DEF LegacyFile
    <2> HIDE DEF mk, ct
    <2>3. n \in CacheType /\ n.tokens = s
      BY <1>1, <2>1 DEF CacheType
    <2> HIDE DEF n
    <2>4. Loaded(LegacyFile(s)) = [EmptyCache EXCEPT !.tokens = s]
      BY <2>2, <2>3 DEF Loaded
    <2>5. Sound(Loaded(LegacyFile(s)), minedAt, head)
      BY <1>1, <2>1, <2>4
    <2> QED BY <2>2, <2>3, <2>5
  <1>4. /\ NewFile \in [version : {1, 2}, cache : CacheType]
        /\ Sound(Loaded(NewFile), minedAt, head)
    BY <1>1 DEF NewFile, Loaded
  <1>5. /\ disk \in [version : {1, 2}, cache : CacheType]
        /\ Sound(Loaded(disk), minedAt, head)
    BY <1>3, <1>4 DEF Init
  <1>6. Sound(mem, minedAt, head) /\ mem \in CacheType
    BY <1>1 DEF Init
  <1>7. <<>> \in Seq(Keys) /\ Members(<<>>) = {}
    BY EmptySeq, MembersOfSeq
  <1>8. scan \in ScanType /\ Members(scan.batch) = {}
    BY <1>7 DEF Init, NoScan, ScanType, Topics
  <1>9. TypeOK
    BY <1>5, <1>6, <1>8, ConfigAssumption DEF Init, TypeOK, ConfigAssumption
  <1>10. FetchInv /\ ApplyInv /\ pc \notin {"fetch", "apply"}
    BY DEF Init, FetchInv, ApplyInv
  <1>11. (\A l \in Logs : minedAt[l] <= head) /\ cur <= head
    BY ConfigAssumption DEF Init, ConfigAssumption
  <1> QED BY <1>5, <1>6, <1>8, <1>9, <1>10, <1>11
          DEF IInv, Sound, EventsCovered

\* A change of the chain that leaves the settled blocks alone.
LEMMA ChainStep ==
  ASSUME IInv, pc # "apply", UNCHANGED <<pc, cur, scan, mem, disk, starts>>,
         reorgs' \in 0..MaxReorgs, minedAt' \in [Logs -> 0..MaxBlock],
         head' \in head..MaxBlock, \A l \in Logs : minedAt'[l] <= head',
         \A l \in Logs : (minedAt'[l] \in Blocks /\ minedAt'[l] <= head - Margin)
                           => minedAt'[l] = minedAt[l]
  PROVE  IInv'
PROOF
  <1>1. head \in Nat /\ head' \in Nat /\ head <= head' /\ cur <= head
        /\ head' \in StartBlock..MaxBlock /\ cur \in Nat
    BY ConfigAssumption DEF IInv, TypeOK, ConfigAssumption
  <1>2. TypeOK'
    BY <1>1 DEF IInv, TypeOK
  <1>3. Sound(mem', minedAt', head') /\ Sound(Loaded(disk'), minedAt', head')
    <2>1. Sound(mem, minedAt', head') /\ Sound(Loaded(disk), minedAt', head')
      BY <1>1, IInvSound, ChainLemma, ConfigAssumption
    <2> QED BY <2>1
  <1>4. ScanInv'
    <2>1. ASSUME NEW l \in Logs, Settled(l)'
          PROVE  minedAt'[l] = minedAt[l] /\ Settled(l)
      <3>1. minedAt'[l] \in Blocks /\ minedAt'[l] <= cur - Margin
        BY <2>1 DEF Settled, Blocks
      <3>2. minedAt'[l] <= head - Margin
        BY <1>1, <3>1, ConfigAssumption DEF Blocks, ConfigAssumption
      <3>3. minedAt'[l] = minedAt[l]
        BY <3>1, <3>2
      <3> QED BY <2>1, <3>3 DEF Settled, Blocks
    <2>2. FetchInv'
      BY <2>1 DEF IInv, FetchInv, Wanted, Chunk, Batched
    <2>3. ApplyInv'
      BY DEF ApplyInv
    <2> QED BY <2>2, <2>3 DEF ScanInv, IInv
  <1>5. cur' <= head'
    BY <1>1
  <1> QED BY <1>2, <1>3, <1>4, <1>5, IInvPrime

LEMMA GrowStep ==
  ASSUME IInv, Grow
  PROVE  IInv'
PROOF
  <1>1. /\ head \in Nat /\ head < MaxBlock /\ head' = head + 1 /\ pc # "apply"
        /\ UNCHANGED <<reorgs, pc, cur, scan, mem, disk, starts>>
        /\ minedAt \in [Logs -> 0..MaxBlock] /\ MaxBlock \in Nat
        /\ reorgs \in 0..MaxReorgs /\ \A l \in Logs : minedAt[l] <= head
    BY ConfigAssumption DEF Grow, IInv, TypeOK, ConfigAssumption
  <1>2. PICK S \in SUBSET {l \in Logs : minedAt[l] = 0} :
          minedAt' = [l \in Logs |-> IF l \in S THEN head + 1 ELSE minedAt[l]]
    BY DEF Grow
  <1>3. /\ minedAt' \in [Logs -> 0..MaxBlock]
        /\ \A l \in Logs : minedAt'[l] = head + 1 \/ minedAt'[l] = minedAt[l]
    BY <1>1, <1>2
  <1>4. head' \in head..MaxBlock /\ \A l \in Logs : minedAt'[l] <= head'
    BY <1>1, <1>3
  <1>5. \A l \in Logs : (minedAt'[l] \in Blocks /\ minedAt'[l] <= head - Margin)
                          => minedAt'[l] = minedAt[l]
    BY <1>1, <1>3, ConfigAssumption DEF ConfigAssumption
  <1> QED BY <1>1, <1>3, <1>4, <1>5, ChainStep

LEMMA ReorgStep ==
  ASSUME IInv, Reorg
  PROVE  IInv'
PROOF
  <1>1. /\ head \in Nat /\ head <= MaxBlock /\ head' = head /\ pc # "apply"
        /\ UNCHANGED <<pc, cur, scan, mem, disk, starts>>
        /\ minedAt \in [Logs -> 0..MaxBlock] /\ MaxBlock \in Nat
        /\ \A l \in Logs : minedAt[l] <= head
    BY ConfigAssumption DEF Reorg, IInv, TypeOK, ConfigAssumption
  <1>2. reorgs' \in 0..MaxReorgs
    BY ConfigAssumption DEF Reorg, IInv, TypeOK, ConfigAssumption
  <1>3. PICK at \in [Logs -> {0} \cup Replaceable] :
          minedAt' = [l \in Logs |->
                        IF minedAt[l] \in {0} \cup Replaceable
                          THEN at[l] ELSE minedAt[l]]
    BY DEF Reorg
  <1>4. \A b \in Replaceable : /\ b \in 1..MaxBlock /\ b <= head
                               /\ b > head - ReorgDepth
    BY DEF Replaceable, Blocks
  <1>5. \A l \in Logs : minedAt'[l] \in {0} \cup Replaceable
                        \/ minedAt'[l] = minedAt[l]
    BY <1>3
  <1>6. minedAt' \in [Logs -> 0..MaxBlock]
    BY <1>1, <1>3, <1>4
  <1>7. \A l \in Logs : minedAt'[l] <= head
    BY <1>1, <1>4, <1>5
  <1>8. \A l \in Logs : (minedAt'[l] \in Blocks /\ minedAt'[l] <= head - Margin)
                          => minedAt'[l] = minedAt[l]
    <2> SUFFICES ASSUME NEW l \in Logs, minedAt'[l] \in 1..MaxBlock,
                        minedAt'[l] <= head - Margin
                 PROVE  minedAt'[l] = minedAt[l]
      BY DEF Blocks
    <2>1. minedAt'[l] \notin Replaceable
      BY <1>1, <1>4, ConfigAssumption, MarginAssumption
         DEF ConfigAssumption, MarginAssumption
    <2> QED BY <1>5, <2>1
  <1>9. head' \in head..MaxBlock
    BY <1>1
  <1> QED BY <1>1, <1>2, <1>6, <1>7, <1>8, <1>9, ChainStep

LEMMA BeginCycleStep ==
  ASSUME IInv, BeginCycle
  PROVE  IInv'
PROOF
  <1>1. PICK c \in Blocks : c <= head /\ cur' = c /\ StartScan(mem, "Launched", c)
    BY DEF BeginCycle
  <1>2. UNCHANGED <<head, minedAt, reorgs, mem, disk, starts>>
    BY DEF BeginCycle
  <1>3. c \in 0..MaxBlock /\ "Launched" \in Topics /\ mem' \in CacheType
        /\ minedAt' \in [Logs -> 0..MaxBlock] /\ mem \in CacheType
    BY <1>2, ConfigAssumption
       DEF Blocks, Topics, IInv, TypeOK, ConfigAssumption
  <1>4. scan' \in ScanType /\ pc' \in {"fetch", "apply"} /\ ScanInv'
    BY <1>1, <1>3, StartScanLemma
  <1>5. TypeOK'
    BY <1>1, <1>2, <1>3, <1>4 DEF IInv, TypeOK
  <1>6. Sound(mem', minedAt', head') /\ Sound(Loaded(disk'), minedAt', head')
    BY <1>2, IInvSound
  <1>7. (\A l \in Logs : minedAt'[l] <= head') /\ cur' <= head'
    BY <1>1, <1>2 DEF IInv
  <1> QED BY <1>4, <1>5, <1>6, <1>7, IInvPrime

\* A request that ends with its settled events up to `reached` in the batch.
LEMMA EndChunkLemma ==
  ASSUME IInv, pc = "fetch", NEW reached \in Int, reached <= cur,
         NEW batch \in Seq(Keys), Members(scan.batch) \subseteq Members(batch),
         \A k \in Members(batch) : TopicOf[k[1]] = scan.topic,
         \A l \in Logs : (Settled(l) /\ Wanted(l) /\ minedAt[l] <= reached)
                           => <<l, minedAt[l]>> \in Members(batch),
         EndChunk(reached, batch),
         UNCHANGED <<head, minedAt, reorgs, cur, mem, disk, starts>>
  PROVE  IInv'
PROOF
  <1> DEFINE r == Smaller(scan.reach, reached)
             s == [scan EXCEPT !.reach = r, !.batch = batch]
  <1>1. /\ scan \in ScanType /\ cur \in Nat /\ scan.reach \in Int
        /\ scan.reach <= cur /\ scan.cursor \in Nat /\ scan.from \in Nat
        /\ scan.done \in Nat /\ ChunkSize \in Nat \ {0}
        /\ mem.tokens \in Seq(Tokens) /\ minedAt \in [Logs -> 0..MaxBlock]
    BY ConfigAssumption
       DEF IInv, TypeOK, ScanType, CacheType, ConfigAssumption
  <1>2. DOMAIN mem.tokens = 1..Len(mem.tokens) /\ Len(mem.tokens) \in Nat
    BY <1>1, LenProperties
  <1>3. /\ r \in Int /\ r <= cur /\ r <= scan.reach /\ r <= reached
    BY <1>1 DEF Smaller
  <1> HIDE DEF r
  <1>4. /\ s \in ScanType /\ s.topic = scan.topic /\ s.from = scan.from
        /\ s.reach = r /\ s.batch = batch /\ s.done = scan.done
        /\ s.cursor = scan.cursor
    BY <1>1, <1>3 DEF ScanType
  <1> HIDE DEF s
  <1>5. \/ LastChunk /\ scan' = s /\ pc' = "apply"
        \/ /\ ~LastChunk /\ UNCHANGED pc
           /\ scan' = [s EXCEPT !.cursor = scan.from,
                                !.done = s.done + ChunkSize]
    BY DEF EndChunk, s, r
  \* Whatever known token a settled event of the topic up to r is about, if
  \* its chunk has been asked for, the event is in the batch.
  <1>6. ASSUME NEW l \in Logs, Settled(l), minedAt[l] <= r,
               scan.topic = "Bought" =>
                 \E j \in DOMAIN mem.tokens :
                   mem.tokens[j] = TokenOf[l] /\ j <= scan.done + ChunkSize
        PROVE  <<l, minedAt[l]>> \in Members(batch)
    <2>1. minedAt[l] \in Nat /\ minedAt[l] <= reached /\ minedAt[l] <= scan.reach
      BY <1>1, <1>3, <1>6
    <2>2. CASE Wanted(l)
      BY <1>6, <2>1, <2>2
    <2>3. CASE ~Wanted(l)
      <3>1. scan.topic = "Bought" /\ TokenOf[l] \notin Chunk
        BY <1>6, <2>3 DEF Wanted, Settled
      <3>2. PICK j \in DOMAIN mem.tokens :
              mem.tokens[j] = TokenOf[l] /\ j <= scan.done + ChunkSize
        BY <1>6, <3>1
      <3>3. j <= scan.done
        BY <1>1, <1>2, <3>1, <3>2 DEF Chunk
      <3>4. Batched(l)
        BY <1>6, <2>1, <3>1, <3>2, <3>3 DEF IInv, FetchInv
      <3> QED BY <3>4 DEF Batched
    <2> QED BY <2>2, <2>3
  <1>7. CASE LastChunk /\ scan' = s /\ pc' = "apply"
    <2>1. ASSUME NEW l \in Logs, Settled(l)', minedAt'[l] <= scan'.reach,
                 scan'.topic = "Bought" => TokenOf[l] \in Members(mem'.tokens)
          PROVE  Batched(l)'
      <3>1. Settled(l) /\ minedAt[l] <= r
        BY <1>4, <1>7, <2>1 DEF Settled
      <3>2. scan.topic = "Bought" =>
              \E j \in DOMAIN mem.tokens :
                mem.tokens[j] = TokenOf[l] /\ j <= scan.done + ChunkSize
        <4> SUFFICES ASSUME scan.topic = "Bought"
                     PROVE  \E j \in DOMAIN mem.tokens :
                              mem.tokens[j] = TokenOf[l] /\ j <= scan.done + ChunkSize
          OBVIOUS
        <4>1. TokenOf[l] \in Members(mem.tokens)
          BY <1>4, <1>7, <2>1
        <4>2. PICK j \in DOMAIN mem.tokens : mem.tokens[j] = TokenOf[l]
          BY <4>1 DEF Members
        <4>3. scan.done + ChunkSize >= Len(mem.tokens)
          BY <1>7 DEF LastChunk
        <4>4. j <= scan.done + ChunkSize
          BY <1>1, <1>2, <4>3
        <4> QED BY <4>2, <4>4
      <3>3. <<l, minedAt[l]>> \in Members(batch)
        BY <1>6, <3>1, <3>2
      <3> QED BY <1>4, <1>7, <3>3 DEF Batched
    <2>2. ApplyInv'
      BY <2>1 DEF ApplyInv
    <2>3. FetchInv'
      BY <1>7 DEF FetchInv
    <2>4. ScanInv'
      BY <1>3, <1>4, <1>7, <2>2, <2>3 DEF ScanInv
    <2>5. TypeOK'
      BY <1>4, <1>7 DEF IInv, TypeOK
    <2> QED BY <2>4, <2>5, IInvSound, IInvPrime DEF IInv
  <1>8. CASE /\ ~LastChunk /\ UNCHANGED pc
             /\ scan' = [s EXCEPT !.cursor = scan.from,
                                  !.done = s.done + ChunkSize]
    <2>1. /\ scan' \in ScanType /\ scan'.topic = scan.topic
          /\ scan'.from = scan.from /\ scan'.cursor = scan.from
          /\ scan'.done = scan.done + ChunkSize
          /\ scan'.reach = r /\ scan'.batch = batch
      <3> DEFINE d == s.done + ChunkSize
      <3>1. d \in Nat /\ d = scan.done + ChunkSize
        BY <1>1, <1>4
      <3>2. scan' = [s EXCEPT !.cursor = scan.from, !.done = d]
        BY <1>8
      <3> HIDE DEF d
      <3> QED BY <1>1, <1>4, <3>1, <3>2 DEF ScanType
    <2>2. scan.from <= scan.cursor /\ scan.cursor <= cur
      BY DEF IInv, FetchInv
    <2>3. ASSUME NEW l \in Logs, Settled(l)'
          PROVE  /\ ~(minedAt'[l] < scan'.cursor)
                 /\ \A j \in DOMAIN mem'.tokens :
                      ( /\ scan'.topic = "Bought" /\ j <= scan'.done
                        /\ mem'.tokens[j] = TokenOf[l]
                        /\ minedAt'[l] <= scan'.reach )
                      => Batched(l)'
      <3>1. Settled(l) /\ scan.from <= minedAt[l] /\ minedAt[l] \in Nat
        BY <1>1, <2>1, <2>3 DEF Settled
      <3>2. ~(minedAt'[l] < scan'.cursor)
        BY <1>1, <2>1, <3>1
      <3>3. ASSUME NEW j \in DOMAIN mem'.tokens, scan'.topic = "Bought",
                   j <= scan'.done, mem'.tokens[j] = TokenOf[l],
                   minedAt'[l] <= scan'.reach
            PROVE  Batched(l)'
        <4>1. /\ j \in DOMAIN mem.tokens /\ mem.tokens[j] = TokenOf[l]
              /\ j <= scan.done + ChunkSize /\ minedAt[l] <= r
          BY <2>1, <3>3
        <4>2. <<l, minedAt[l]>> \in Members(batch)
          BY <1>6, <3>1, <4>1
        <4> QED BY <2>1, <4>2 DEF Batched
      <3> QED BY <3>2, <3>3
    <2>4. FetchInv'
      <3>1. scan'.from <= scan'.cursor /\ scan'.cursor <= cur'
        BY <1>1, <2>1, <2>2
      <3> QED BY <2>3, <3>1 DEF FetchInv
    <2>5. ApplyInv'
      BY <1>8 DEF ApplyInv
    <2>6. ScanInv'
      BY <1>3, <2>1, <2>4, <2>5 DEF ScanInv
    <2>7. TypeOK'
      BY <1>8, <2>1 DEF IInv, TypeOK
    <2> QED BY <2>6, <2>7, IInvSound, IInvPrime DEF IInv
  <1> QED BY <1>5, <1>7, <1>8

\* The keys of a page, in whatever order, are keys of the topic, and every
\* settled event asked for in its range is among them.
LEMMA PageLemma ==
  ASSUME IInv, pc = "fetch", NEW v \in (head - LogLag)..head,
         NEW s \in BlockOrders(PageKeys(v))
  PROVE  /\ s \in Seq(Keys) /\ Members(s) = PageKeys(v)
         /\ \A k \in Members(s) : TopicOf[k[1]] = scan.topic
         /\ \A l \in Logs :
              ( /\ Settled(l) /\ Wanted(l)
                /\ scan.cursor <= minedAt[l] /\ minedAt[l] <= PageEnd )
              => <<l, minedAt[l]>> \in Members(s)
PROOF
  <1>1. PageKeys(v) \subseteq Keys
    BY DEF PageKeys, Keys
  <1>2. IsFiniteSet(Keys)
    <2>1. IsFiniteSet(Blocks)
      BY FS_Interval, ConfigAssumption DEF Blocks, ConfigAssumption
    <2> QED BY <2>1, FS_Product, ConfigAssumption DEF Keys, ConfigAssumption
  <1>3. Cardinality(PageKeys(v)) \in Nat
    BY <1>1, <1>2, FS_Subset, FS_CardinalityType
  <1>4. s \in [1..Cardinality(PageKeys(v)) -> PageKeys(v)]
        /\ Members(s) = PageKeys(v)
    BY DEF BlockOrders
  <1>5. s \in Seq(Keys)
    <2>1. s \in [1..Cardinality(PageKeys(v)) -> Keys]
      BY <1>1, <1>4
    <2> QED BY <1>3, <2>1, SeqDef
  <1>6. \A k \in Members(s) : TopicOf[k[1]] = scan.topic
    BY <1>4 DEF PageKeys, Wanted
  <1>7. ASSUME NEW l \in Logs, Settled(l), Wanted(l),
               scan.cursor <= minedAt[l], minedAt[l] <= PageEnd
        PROVE  <<l, minedAt[l]>> \in Members(s)
    <2>1. minedAt[l] \in Blocks /\ minedAt[l] <= cur - Margin
      BY <1>7 DEF Settled
    <2>2. cur <= head /\ cur \in Nat /\ head \in Nat
      BY ConfigAssumption DEF IInv, TypeOK, ConfigAssumption
    <2>3. minedAt[l] <= v
      BY <2>1, <2>2, ConfigAssumption, MarginAssumption
         DEF Blocks, ConfigAssumption, MarginAssumption
    <2> QED BY <1>4, <1>7, <2>1, <2>3 DEF PageKeys
  <1> QED BY <1>4, <1>5, <1>6, <1>7

LEMMA PageOkStep ==
  ASSUME IInv, PageOk
  PROVE  IInv'
PROOF
  <1>1. PICK v \in (head - LogLag)..head : \E s \in BlockOrders(PageKeys(v)) :
       \/ PageEnd = cur /\ EndChunk(cur, scan.batch \o s)
       \/ /\ PageEnd < cur
          /\ scan' = [scan EXCEPT !.cursor = PageEnd + 1,
                                  !.batch = scan.batch \o s]
          /\ UNCHANGED pc
    BY DEF PageOk
  <1>2. PICK s \in BlockOrders(PageKeys(v)) :
       \/ PageEnd = cur /\ EndChunk(cur, scan.batch \o s)
       \/ /\ PageEnd < cur
          /\ scan' = [scan EXCEPT !.cursor = PageEnd + 1,
                                  !.batch = scan.batch \o s]
          /\ UNCHANGED pc
    BY <1>1
  <1>3. pc = "fetch"
        /\ UNCHANGED <<head, minedAt, reorgs, cur, mem, disk, starts>>
    BY DEF PageOk
  <1> DEFINE batch == scan.batch \o s
  <1>4. /\ scan \in ScanType /\ scan.batch \in Seq(Keys) /\ cur \in Nat
        /\ scan.cursor \in Nat /\ scan.from \in Nat /\ PageSize \in Nat \ {0}
        /\ minedAt \in [Logs -> 0..MaxBlock]
    BY ConfigAssumption DEF IInv, TypeOK, ScanType, ConfigAssumption
  <1>5. /\ s \in Seq(Keys)
        /\ \A k \in Members(s) : TopicOf[k[1]] = scan.topic
        /\ \A l \in Logs :
             ( /\ Settled(l) /\ Wanted(l)
               /\ scan.cursor <= minedAt[l] /\ minedAt[l] <= PageEnd )
             => <<l, minedAt[l]>> \in Members(s)
    BY <1>3, PageLemma
  <1>6. /\ batch \in Seq(Keys)
        /\ Members(batch) = Members(scan.batch) \cup Members(s)
    BY <1>4, <1>5, ConcatProperties, MembersOfSeq
  <1> HIDE DEF batch
  <1>7. \A k \in Members(batch) : TopicOf[k[1]] = scan.topic
    BY <1>5, <1>6 DEF IInv
  <1>8. /\ scan.from <= scan.cursor /\ scan.cursor <= cur
        /\ PageEnd \in Nat /\ PageEnd <= cur /\ scan.cursor <= PageEnd
    <2>1. scan.from <= scan.cursor /\ scan.cursor <= cur
      BY <1>3 DEF IInv, FetchInv
    <2> QED BY <1>4, <2>1 DEF PageEnd, Smaller
  <1>9. ASSUME NEW l \in Logs, Settled(l), Wanted(l), minedAt[l] <= PageEnd
        PROVE  <<l, minedAt[l]>> \in Members(batch)
    <2>1. CASE minedAt[l] < scan.cursor
      BY <1>3, <1>6, <1>9, <2>1 DEF IInv, FetchInv, Batched
    <2>2. CASE minedAt[l] >= scan.cursor
      BY <1>4, <1>5, <1>6, <1>9, <2>2
    <2> QED BY <1>4, <2>1, <2>2
  <1>10. CASE PageEnd = cur /\ EndChunk(cur, batch)
    BY <1>3, <1>4, <1>6, <1>7, <1>9, <1>10, EndChunkLemma
  <1>11. CASE /\ PageEnd < cur /\ UNCHANGED pc
              /\ scan' = [scan EXCEPT !.cursor = PageEnd + 1, !.batch = batch]
    <2>1. /\ scan' \in ScanType /\ scan'.topic = scan.topic
          /\ scan'.from = scan.from /\ scan'.cursor = PageEnd + 1
          /\ scan'.done = scan.done /\ scan'.reach = scan.reach
          /\ scan'.batch = batch
      <3> DEFINE e == PageEnd + 1
      <3>1. e \in Nat
        BY <1>8
      <3>2. scan' = [scan EXCEPT !.cursor = e, !.batch = batch]
        BY <1>11
      <3> HIDE DEF e
      <3>3. /\ scan' \in ScanType /\ scan'.topic = scan.topic
            /\ scan'.from = scan.from /\ scan'.cursor = e
            /\ scan'.done = scan.done /\ scan'.reach = scan.reach
            /\ scan'.batch = batch
        BY <1>4, <1>6, <3>1, <3>2 DEF ScanType
      <3> QED BY <3>3 DEF e
    <2>2. ASSUME NEW l \in Logs, Settled(l)'
          PROVE  /\ Wanted(l)' /\ minedAt'[l] < scan'.cursor => Batched(l)'
                 /\ \A j \in DOMAIN mem'.tokens :
                      ( /\ scan'.topic = "Bought" /\ j <= scan'.done
                        /\ mem'.tokens[j] = TokenOf[l]
                        /\ minedAt'[l] <= scan'.reach )
                      => Batched(l)'
      <3>1. Settled(l) /\ (Wanted(l)' <=> Wanted(l)) /\ minedAt[l] \in Nat
        BY <1>3, <1>4, <2>1, <2>2 DEF Settled, Wanted, Chunk
      <3>2. Wanted(l)' /\ minedAt'[l] < scan'.cursor => Batched(l)'
        <4> SUFFICES ASSUME Wanted(l)', minedAt'[l] < scan'.cursor
                     PROVE  Batched(l)'
          OBVIOUS
        <4>1. minedAt[l] <= PageEnd /\ Wanted(l)
          BY <1>3, <1>8, <2>1, <3>1
        <4>2. <<l, minedAt[l]>> \in Members(batch)
          BY <1>9, <3>1, <4>1
        <4> QED BY <1>3, <2>1, <4>2 DEF Batched
      <3>3. ASSUME NEW j \in DOMAIN mem'.tokens, scan'.topic = "Bought",
                   j <= scan'.done, mem'.tokens[j] = TokenOf[l],
                   minedAt'[l] <= scan'.reach
            PROVE  Batched(l)'
        <4>1. Batched(l)
          BY <1>3, <2>1, <3>1, <3>3 DEF IInv, FetchInv
        <4> QED BY <1>3, <1>6, <2>1, <4>1 DEF Batched
      <3> QED BY <3>2, <3>3
    <2>3. FetchInv'
      <3>1. scan'.from <= scan'.cursor /\ scan'.cursor <= cur'
        BY <1>3, <1>4, <1>8, <1>11, <2>1
      <3> QED BY <2>2, <3>1 DEF FetchInv
    <2>4. ScanInv'
      BY <1>3, <1>7, <1>11, <2>1, <2>3 DEF ScanInv, ApplyInv, IInv
    <2>5. TypeOK'
      BY <1>3, <1>11, <2>1 DEF IInv, TypeOK
    <2> QED BY <1>3, <2>4, <2>5, IInvSound, IInvPrime DEF IInv
  <1> QED BY <1>2, <1>10, <1>11 DEF batch

LEMMA PageRefusedStep ==
  ASSUME IInv, PageRefused
  PROVE  IInv'
PROOF
  <1>1. /\ pc = "fetch" /\ EndChunk(scan.cursor - 1, scan.batch)
        /\ UNCHANGED <<head, minedAt, reorgs, cur, mem, disk, starts>>
    BY DEF PageRefused
  <1>2. /\ scan.batch \in Seq(Keys) /\ cur \in Nat /\ scan.cursor \in Nat
        /\ minedAt \in [Logs -> 0..MaxBlock]
    BY ConfigAssumption DEF IInv, TypeOK, ScanType, ConfigAssumption
  <1>3. scan.cursor <= cur /\ scan.cursor - 1 \in Int /\ scan.cursor - 1 <= cur
    BY <1>1, <1>2 DEF IInv, FetchInv
  <1>4. \A k \in Members(scan.batch) : TopicOf[k[1]] = scan.topic
    BY DEF IInv
  <1>5. ASSUME NEW l \in Logs, Settled(l), Wanted(l),
               minedAt[l] <= scan.cursor - 1
        PROVE  <<l, minedAt[l]>> \in Members(scan.batch)
    <2>1. minedAt[l] < scan.cursor
      BY <1>2, <1>5
    <2> QED BY <1>1, <1>5, <2>1 DEF IInv, FetchInv, Batched
  <1> QED BY <1>1, <1>2, <1>3, <1>4, <1>5, EndChunkLemma

LEMMA ScanRaisedStep ==
  ASSUME IInv, ScanRaised
  PROVE  IInv'
PROOF
  <1>1. /\ AfterTopic(mem, scan.topic)
        /\ UNCHANGED <<head, minedAt, reorgs, mem, disk, starts>>
    BY DEF ScanRaised
  <1>2. /\ mem \in CacheType /\ scan.topic \in Topics /\ cur \in 0..MaxBlock
        /\ minedAt' \in [Logs -> 0..MaxBlock] /\ mem' \in CacheType
    BY <1>1 DEF IInv, TypeOK, ScanType
  <1>3. /\ scan' \in ScanType /\ pc' \in {"idle", "fetch", "apply"}
        /\ cur' \in {0, cur} /\ ScanInv'
    BY <1>1, <1>2, AfterTopicLemma
  <1>6. cur' \in 0..MaxBlock
    BY <1>2, <1>3, ConfigAssumption DEF ConfigAssumption
  <1>4. TypeOK'
    BY <1>1, <1>2, <1>3, <1>6 DEF IInv, TypeOK
  <1>5. cur' <= head'
    BY <1>1, <1>3, ConfigAssumption DEF IInv, TypeOK, ConfigAssumption
  <1> QED BY <1>1, <1>3, <1>4, <1>5, IInvSound, IInvPrime DEF IInv

LEMMA ApplyEventStep ==
  ASSUME IInv, ApplyEvent
  PROVE  IInv'
PROOF
  <1> DEFINE k == Head(scan.batch)
  <1>1. /\ pc = "apply" /\ scan.batch # <<>> /\ mem' = Apply(mem, k)
        /\ scan' = [scan EXCEPT !.batch = Tail(scan.batch)]
        /\ UNCHANGED <<head, minedAt, reorgs, pc, cur, disk, starts>>
    BY DEF ApplyEvent
  <1>2. /\ scan \in ScanType /\ scan.batch \in Seq(Keys)
        /\ minedAt \in [Logs -> 0..MaxBlock]
    BY DEF IInv, TypeOK, ScanType
  <1>3. /\ k \in Keys /\ Tail(scan.batch) \in Seq(Keys)
        /\ Members(scan.batch) = {k} \cup Members(Tail(scan.batch))
    BY <1>1, <1>2, MembersOfTail
  <1> HIDE DEF k
  <1>4. /\ scan' \in ScanType /\ scan'.topic = scan.topic
        /\ scan'.from = scan.from /\ scan'.reach = scan.reach
        /\ scan'.batch = Tail(scan.batch)
    BY <1>1, <1>2, <1>3 DEF ScanType
  <1>5. /\ Sound(mem', minedAt, head) /\ mem'.counted[k] > 0
        /\ \A j \in Keys : mem.counted[j] > 0 => mem'.counted[j] > 0
        /\ TopicOf[k[1]] # "Launched" => mem'.tokens = mem.tokens
    <2>1. Sound(mem, minedAt, head)
      BY IInvSound
    <2>2. /\ Sound(Apply(mem, k), minedAt, head) /\ Apply(mem, k).counted[k] > 0
          /\ \A j \in Keys : mem.counted[j] > 0 => Apply(mem, k).counted[j] > 0
          /\ TopicOf[k[1]] # "Launched" => Apply(mem, k).tokens = mem.tokens
      BY <1>2, <1>3, <2>1, ApplyLemma, ConfigAssumption, MarginAssumption
    <2> QED BY <1>1, <2>2
  <1>6. Sound(Loaded(disk'), minedAt', head') /\ Sound(mem', minedAt', head')
    BY <1>1, <1>5, IInvSound
  <1>7. ASSUME NEW l \in Logs, Settled(l)', minedAt'[l] <= scan'.reach,
               scan'.topic = "Bought" => TokenOf[l] \in Members(mem'.tokens)
        PROVE  Batched(l)' \/ mem'.counted[<<l, minedAt'[l]>>] > 0
    <2>1. Settled(l) /\ minedAt[l] <= scan.reach /\ <<l, minedAt[l]>> \in Keys
      BY <1>1, <1>4, <1>7 DEF Settled, Keys
    <2>2. scan.topic = "Bought" => TokenOf[l] \in Members(mem.tokens)
      <3>1. TopicOf[k[1]] = scan.topic
        BY <1>3 DEF IInv
      <3> QED BY <1>4, <1>5, <1>7, <3>1
    <2>3. Batched(l) \/ mem.counted[<<l, minedAt[l]>>] > 0
      BY <1>1, <2>1, <2>2 DEF IInv, ApplyInv
    <2>4. CASE mem.counted[<<l, minedAt[l]>>] > 0
      BY <1>1, <1>5, <2>1, <2>4
    <2>5. CASE Batched(l)
      <3>1. <<l, minedAt[l]>> = k \/ <<l, minedAt[l]>> \in Members(scan'.batch)
        BY <1>3, <1>4, <2>5 DEF Batched
      <3> QED BY <1>1, <1>5, <3>1 DEF Batched
    <2> QED BY <2>3, <2>4, <2>5
  <1>8. ApplyInv'
    BY <1>7 DEF ApplyInv
  <1>9. ScanInv'
    BY <1>1, <1>3, <1>4, <1>8 DEF ScanInv, FetchInv, IInv
  <1>10. TypeOK'
    BY <1>1, <1>4, <1>5 DEF IInv, TypeOK, Sound
  <1> QED BY <1>1, <1>6, <1>9, <1>10, IInvPrime DEF IInv

LEMMA AdvanceMarkStep ==
  ASSUME IInv, AdvanceMark
  PROVE  IInv'
PROOF
  <1> DEFINE m == Advanced(mem, scan.topic, scan.from, scan.reach)
  <1>1. /\ pc = "apply" /\ scan.batch = <<>> /\ mem' = m
        /\ AfterTopic(m, scan.topic)
        /\ UNCHANGED <<head, minedAt, reorgs, disk, starts>>
    BY DEF AdvanceMark
  <1>2. /\ scan.topic \in Topics /\ scan.from \in Nat /\ scan.reach \in Int
        /\ cur \in 0..MaxBlock /\ scan.reach <= cur /\ cur <= head
        /\ head \in Nat /\ head <= MaxBlock
        /\ minedAt \in [Logs -> 0..MaxBlock]
    BY <1>1, ConfigAssumption
       DEF IInv, TypeOK, ScanType, ConfigAssumption
  <1>3. ASSUME NEW l \in Logs, TopicOf[l] = scan.topic, minedAt[l] \in Blocks,
               scan.from <= minedAt[l], minedAt[l] <= scan.reach - Margin,
               scan.topic = "Bought" => TokenOf[l] \in Members(mem.tokens)
        PROVE  mem.counted[<<l, minedAt[l]>>] > 0
    <2>1. minedAt[l] <= cur - Margin /\ minedAt[l] <= scan.reach
      BY <1>2, <1>3, ConfigAssumption DEF ConfigAssumption, Blocks
    <2>2. Settled(l)
      BY <1>3, <2>1 DEF Settled
    <2>3. ~Batched(l)
      BY <1>1, MembersOfSeq DEF Batched
    <2> QED BY <1>1, <1>3, <2>1, <2>2, <2>3 DEF IInv, ApplyInv
  <1>4. Sound(m, minedAt, head)
    <2>1. scan.reach <= head
      BY <1>2
    <2>2. Sound(mem, minedAt, head)
      BY IInvSound
    <2> QED BY <1>2, <1>3, <2>1, <2>2, AdvancedLemma, ConfigAssumption
  <1> HIDE DEF m
  <1>5. m \in CacheType /\ mem' \in CacheType
    BY <1>1, <1>4 DEF Sound
  <1>6. /\ scan' \in ScanType /\ pc' \in {"idle", "fetch", "apply"}
        /\ cur' \in {0, cur} /\ ScanInv'
    BY <1>1, <1>2, <1>5, AfterTopicLemma
  <1>7. cur' \in 0..MaxBlock /\ cur' <= head'
    BY <1>1, <1>2, <1>6, ConfigAssumption DEF ConfigAssumption
  <1>8. TypeOK'
    BY <1>1, <1>2, <1>5, <1>6, <1>7 DEF IInv, TypeOK
  <1>9. Sound(mem', minedAt', head') /\ Sound(Loaded(disk'), minedAt', head')
    BY <1>1, <1>4, IInvSound
  <1> QED BY <1>1, <1>6, <1>7, <1>8, <1>9, IInvPrime DEF IInv

\* Between two runs the memory is empty.
LEMMA StopStep ==
  ASSUME IInv, Close \/ Crash
  PROVE  IInv'
PROOF
  <1>1. /\ pc' = "off" /\ cur' = 0 /\ scan' = NoScan /\ mem' = EmptyCache
        /\ UNCHANGED <<head, minedAt, reorgs, starts>>
        /\ disk' = Saved(mem) \/ disk' = disk
    BY DEF Close, Crash
  <1>2. scan' \in ScanType /\ ScanInv'
    BY <1>1, NoScanLemma
  <1>3. head \in Nat /\ <<>> \in Seq(Tokens)
    BY ConfigAssumption, EmptySeq DEF IInv, TypeOK, ConfigAssumption
  <1>4. EmptyCache \in CacheType /\ Sound(EmptyCache, minedAt, head)
    BY <1>3, EmptyCacheLemma, ConfigAssumption
  <1>5. /\ disk' \in [version : {1, 2}, cache : CacheType]
        /\ Sound(Loaded(disk'), minedAt, head)
    <2>1. /\ Saved(mem) \in [version : {1, 2}, cache : CacheType]
          /\ Sound(Loaded(Saved(mem)), minedAt, head)
      BY IInvSound, SavedLemma, ConfigAssumption
    <2>2. /\ disk \in [version : {1, 2}, cache : CacheType]
          /\ Sound(Loaded(disk), minedAt, head)
      BY IInvSound DEF IInv, TypeOK
    <2> QED BY <1>1, <2>1, <2>2
  <1>6. TypeOK'
    BY <1>1, <1>2, <1>4, <1>5, ConfigAssumption
       DEF IInv, TypeOK, ConfigAssumption
  <1>7. cur' <= head' /\ Sound(mem', minedAt', head')
        /\ Sound(Loaded(disk'), minedAt', head')
    BY <1>1, <1>3, <1>4, <1>5
  <1> QED BY <1>1, <1>2, <1>6, <1>7, IInvPrime DEF IInv

LEMMA RestartStep ==
  ASSUME IInv, Restart
  PROVE  IInv'
PROOF
  <1>1. /\ pc = "off" /\ starts < MaxStarts /\ starts' = starts + 1
        /\ mem' = Loaded(disk) /\ pc' = "idle"
        /\ UNCHANGED <<head, minedAt, reorgs, cur, scan, disk>>
    BY DEF Restart
  <1>2. Sound(mem', minedAt', head') /\ Sound(Loaded(disk'), minedAt', head')
    BY <1>1, IInvSound
  <1>3. starts' \in 0..MaxStarts
    BY <1>1, ConfigAssumption DEF IInv, TypeOK, ConfigAssumption
  <1>4. TypeOK'
    BY <1>1, <1>2, <1>3 DEF IInv, TypeOK, Sound
  <1>5. ScanInv'
    BY <1>1 DEF IInv, ScanInv, FetchInv, ApplyInv
  <1> QED BY <1>1, <1>2, <1>4, <1>5, IInvPrime DEF IInv

LEMMA IInvStep == IInv /\ [Next]_vars => IInv'
PROOF
  <1> SUFFICES ASSUME IInv, [Next]_vars PROVE IInv'
    OBVIOUS
  <1>1. CASE UNCHANGED vars
    <2>1. UNCHANGED <<head, minedAt, reorgs, pc, cur, scan, mem, disk, starts>>
      BY <1>1 DEF vars
    <2>2. TypeOK' /\ ScanInv'
      BY <2>1 DEF IInv, TypeOK, ScanInv, FetchInv, ApplyInv, Settled, Wanted,
                  Chunk, Batched
    <2> QED BY <2>1, <2>2, IInvSound, IInvPrime DEF IInv
  <1>2. CASE Grow
    BY <1>2, GrowStep
  <1>3. CASE Reorg
    BY <1>3, ReorgStep
  <1>4. CASE BeginCycle
    BY <1>4, BeginCycleStep
  <1>5. CASE PageOk
    BY <1>5, PageOkStep
  <1>6. CASE PageRefused
    BY <1>6, PageRefusedStep
  <1>7. CASE ScanRaised
    BY <1>7, ScanRaisedStep
  <1>8. CASE ApplyEvent
    BY <1>8, ApplyEventStep
  <1>9. CASE AdvanceMark
    BY <1>9, AdvanceMarkStep
  <1>10. CASE Close \/ Crash
    BY <1>10, StopStep
  <1>11. CASE Restart
    BY <1>11, RestartStep
  <1> QED BY <1>1, <1>2, <1>3, <1>4, <1>5, <1>6, <1>7, <1>8, <1>9, <1>10,
             <1>11 DEF Next

\* The inductive invariant: between scans both caches keep their promises, in
\* a scan the settled events of the pages read are in the batch or counted.
THEOREM IInvariant == Spec => []IInv
PROOF
  <1>1. Init => IInv
    BY IInvInit
  <1>2. IInv /\ [Next]_vars => IInv'
    BY IInvStep
  <1> QED BY <1>1, <1>2, PTL DEF Spec

\* Every variable keeps its type: no watermark, range or page is ever outside
\* the chain.
THEOREM TypeCorrect == Spec => []TypeOK
PROOF
  <1>1. IInv => TypeOK
    BY DEF IInv
  <1> QED BY <1>1, IInvariant, PTL

\* No event of the chain is lost by the scan, in memory or on disk, for every
\* chain, page size, chunk size, ring size and look-back, as long as a
\* reorganisation and a node's lag stay within the margin.
THEOREM NoEventLost == Spec => []EventsCovered
PROOF
  <1>1. IInv => EventsCovered
    BY DEF IInv
  <1> QED BY <1>1, IInvariant, PTL

-----------------------------------------------------------------------------
(***************************************************************************)
(* What is given up, and how far a watermark falls back.  Both follow from *)
(* where a scan started: until its topic ends, the watermark it started    *)
(* from is still the cache's.                                              *)
(***************************************************************************)
StartedAt == pc \in {"fetch", "apply"} => scan.from = FromBlock(mem, scan.topic, cur)

\* The blocks skipped lie before the first run's start or beyond the look-back.
GivenUp(m, h) ==
  \A t \in Topics : \A b \in m.skipped[t] :
    b < Larger(DeployBlock, h - FirstLookback) \/ b < h - Lookback

LossInv == StartedAt /\ GivenUp(mem, head) /\ GivenUp(Loaded(disk), head)

\* What a scan starts from is read off the watermarks alone.
LEMMA FromBlockByMark ==
  ASSUME NEW m, NEW n, n.mark = m.mark, NEW t, NEW c
  PROVE  FromBlock(n, t, c) = FromBlock(m, t, c)
BY DEF FromBlock

\* The head does not fall, so what is beyond a look-back stays there.
LEMMA GivenUpGrows ==
  ASSUME NEW m \in CacheType, NEW h \in Nat, NEW g \in Nat, h <= g, GivenUp(m, h)
  PROVE  GivenUp(m, g)
PROOF
  <1> SUFFICES ASSUME NEW t \in Topics, NEW b \in m.skipped[t]
               PROVE  b < Larger(DeployBlock, g - FirstLookback) \/ b < g - Lookback
    BY DEF GivenUp
  <1>1. b \in Nat
    BY DEF CacheType, Blocks
  <1>2. b < Larger(DeployBlock, h - FirstLookback) \/ b < h - Lookback
    BY DEF GivenUp
  <1> QED BY <1>1, <1>2, ConfigAssumption DEF Larger, ConfigAssumption

\* The next topic starts from the cache the last one leaves.
LEMMA NextTopicStarts ==
  ASSUME NEW m, NEW t, AfterTopic(m, t), mem' = m
  PROVE  StartedAt'
BY DEF AfterTopic, StartScan, EndCycle, StartedAt

\* Pages and chunks leave the start of the scan alone.
LEMMA EndChunkKeepsStart ==
  ASSUME IInv, pc = "fetch", StartedAt, NEW r, NEW s, EndChunk(r, s),
         UNCHANGED <<mem, cur>>
  PROVE  StartedAt'
PROOF
  <1>1. scan \in ScanType
    BY DEF IInv, TypeOK
  <1>2. scan'.from = scan.from /\ scan'.topic = scan.topic
    BY <1>1 DEF EndChunk, ScanType
  <1> QED BY <1>2 DEF StartedAt

\* A watermark moves over no block but those the start has given up, and falls
\* back by less than the margin.
LEMMA AdvanceLoses ==
  ASSUME NEW m \in CacheType, NEW t \in Topics, NEW c \in Nat, NEW h \in Nat, c <= h,
         NEW reached \in Int, GivenUp(m, h)
  PROVE  LET n == Advanced(m, t, FromBlock(m, t, c), reached) IN
         /\ GivenUp(n, h)
         /\ \A u \in Topics : n.mark[u] = m.mark[u] \/ n.mark[u] > m.mark[u] - Margin
PROOF
  <1> DEFINE from == FromBlock(m, t, c)
             n == Advanced(m, t, from, reached)
  <1>1. m.mark \in [Topics -> 0..MaxBlock] /\ m.skipped \in [Topics -> SUBSET Blocks]
    BY DEF CacheType
  <1>2. m.mark[t] \in Nat /\ MaxBlock \in Nat
    BY <1>1, ConfigAssumption DEF ConfigAssumption
  <1>3. /\ from \in Nat
        /\ m.mark[t] = 0 => from = Larger(DeployBlock, c - FirstLookback)
        /\ m.mark[t] # 0 => from = Larger(0, Larger(m.mark[t] + 1 - Margin, c - Lookback))
    BY <1>2, ConfigAssumption DEF FromBlock, Larger, ConfigAssumption
  <1>4. CASE reached < from
    BY <1>4 DEF Advanced
  <1>5. CASE ~(reached < from)
    <2> DEFINE gap == {b \in Blocks : b < from /\ b > m.mark[t] - Margin}
    <2>1. n = [m EXCEPT !.mark[t] = reached, !.skipped[t] = @ \cup gap]
      BY <1>5 DEF Advanced
    <2>2. /\ n.mark = [m.mark EXCEPT ![t] = reached]
          /\ n.skipped = [m.skipped EXCEPT ![t] = @ \cup gap]
      BY <2>1 DEF CacheType
    <2>3. reached = m.mark[t] \/ reached > m.mark[t] - Margin
      BY <1>2, <1>3, <1>5, ConfigAssumption DEF Larger, ConfigAssumption
    <2>4. ASSUME NEW b \in gap
          PROVE  b < Larger(DeployBlock, h - FirstLookback) \/ b < h - Lookback
      <3>1. b \in Nat /\ b < from /\ b > m.mark[t] - Margin /\ b > 0
        BY DEF Blocks
      <3> QED BY <1>2, <1>3, <3>1, ConfigAssumption DEF Larger, ConfigAssumption
    <2> HIDE DEF gap, n, from
    <2>5. \A u \in Topics : n.mark[u] = m.mark[u] \/ n.mark[u] > m.mark[u] - Margin
      <3> SUFFICES ASSUME NEW u \in Topics
                   PROVE  n.mark[u] = m.mark[u] \/ n.mark[u] > m.mark[u] - Margin
        OBVIOUS
      <3>1. CASE u = t
        BY <1>1, <2>2, <2>3, <3>1
      <3>2. CASE u # t
        BY <1>1, <2>2, <3>2
      <3> QED BY <3>1, <3>2
    <2>6. GivenUp(n, h)
      <3> SUFFICES ASSUME NEW u \in Topics, NEW b \in n.skipped[u]
                   PROVE  b < Larger(DeployBlock, h - FirstLookback) \/ b < h - Lookback
        BY DEF GivenUp
      <3>1. CASE b \in m.skipped[u]
        BY <3>1 DEF GivenUp
      <3>2. CASE b \notin m.skipped[u]
        <4>1. b \in gap
          BY <1>1, <2>2, <3>2
        <4> QED BY <2>4, <4>1
      <3> QED BY <3>1, <3>2
    <2> QED BY <2>5, <2>6 DEF n, from
  <1> QED BY <1>4, <1>5

\* The cache an application leaves has the watermarks and skipped blocks it had.
LEMMA ApplyLosesNothing ==
  ASSUME IInv, NEW k \in Keys
  PROVE  Apply(mem, k).mark = mem.mark /\ Apply(mem, k).skipped = mem.skipped
PROOF
  <1> DEFINE a == TokenOf[k[1]]
             p == IF TopicOf[k[1]] = "Launched" THEN RegisterToken(mem, a) ELSE mem
  <1>1. mem \in CacheType /\ a \in Tokens /\ RingIsCounted(mem)
    BY ConfigAssumption DEF IInv, TypeOK, ConfigAssumption, Keys
  <1>2. /\ p \in CacheType /\ p.mark = mem.mark /\ p.skipped = mem.skipped
        /\ p.ring = mem.ring /\ p.counted = mem.counted
    BY <1>1, RegisterTokenLemma
  <1>3. RingIsCounted(p)
    BY <1>1, <1>2 DEF RingIsCounted
  <1>4. Apply(mem, k) = CountOnce(p, k)
    BY DEF Apply
  <1> HIDE DEF p
  <1> QED BY <1>2, <1>3, <1>4, CountOnceLemma, ConfigAssumption

\* Both files and an empty cache have given up nothing new.
LEMMA FilesGiveUpNothing ==
  ASSUME IInv, LossInv
  PROVE  /\ GivenUp(EmptyCache, head)
         /\ GivenUp(Loaded(Saved(mem)), head)
PROOF
  <1> DEFINE r == LastOf(mem.ring, PersistSize)
             n == [mem EXCEPT !.ring = r]
  <1>1. mem \in CacheType
    BY DEF IInv, TypeOK
  <1> HIDE DEF r
  <1>2. n.skipped = mem.skipped
    BY <1>1 DEF CacheType
  <1>3. Saved(mem) = [version |-> 2, cache |-> n]
    BY DEF Saved, r
  <1> HIDE DEF n
  <1>4. Loaded(Saved(mem)) = n
    BY <1>3 DEF Loaded
  <1> QED BY <1>2, <1>4 DEF LossInv, GivenUp, EmptyCache

LEMMA LossInit == Init => LossInv
PROOF
  <1> SUFFICES ASSUME Init PROVE LossInv
    OBVIOUS
  <1>1. Loaded(disk).skipped = [t \in Topics |-> {}]
    <2>1. CASE disk = NewFile
      BY <2>1 DEF Loaded, NewFile, EmptyCache
    <2>2. ASSUME NEW s \in TokenLists, disk = LegacyFile(s)
          PROVE  Loaded(disk).skipped = [t \in Topics |-> {}]
      <3> DEFINE c == disk.cache
      <3>1. disk.version = 1
        BY <2>2 DEF LegacyFile
      <3>2. Loaded(disk) = [EmptyCache EXCEPT !.tokens = c.tokens]
        BY <3>1 DEF Loaded
      <3> HIDE DEF c
      <3> QED BY <3>2 DEF EmptyCache
    <2> QED BY <2>1, <2>2 DEF Init
  <1>2. mem.skipped = [t \in Topics |-> {}] /\ pc = "off"
    BY DEF Init, EmptyCache
  <1> QED BY <1>1, <1>2 DEF LossInv, StartedAt, GivenUp

\* What a step does to the watermarks.
MarksHold ==
  (pc # "off" /\ pc' # "off") =>
     \A t \in Topics : mem'.mark[t] = mem.mark[t] \/ mem'.mark[t] > mem.mark[t] - Margin

LEMMA SameMarksHold ==
  ASSUME mem'.mark = mem.mark
  PROVE  MarksHold
BY DEF MarksHold

LEMMA LossStep == IInv /\ LossInv /\ [Next]_vars => LossInv' /\ MarksHold
PROOF
  <1> SUFFICES ASSUME IInv, LossInv, [Next]_vars PROVE LossInv' /\ MarksHold
    OBVIOUS
  <1>0. /\ mem \in CacheType /\ Loaded(disk) \in CacheType /\ head \in Nat /\ cur \in Nat
        /\ cur <= head /\ scan \in ScanType
    <2>1. /\ mem \in CacheType /\ disk \in [version : {1, 2}, cache : CacheType]
          /\ head \in StartBlock..MaxBlock /\ cur \in 0..MaxBlock
          /\ scan \in ScanType /\ cur <= head
      BY DEF IInv, TypeOK
    <2>2. Loaded(disk) \in CacheType
      BY <2>1, LoadedType
    <2> QED BY <2>1, <2>2, ConfigAssumption DEF ConfigAssumption
  <1>1. CASE Grow
    <2>1. head' = head + 1 /\ UNCHANGED <<pc, cur, scan, mem, disk>>
      BY <1>1 DEF Grow
    <2>2. GivenUp(mem, head + 1) /\ GivenUp(Loaded(disk), head + 1)
      BY <1>0, GivenUpGrows DEF LossInv
    <2> QED BY <2>1, <2>2, SameMarksHold DEF LossInv, StartedAt, GivenUp
  <1>2. CASE Reorg \/ UNCHANGED vars
    BY <1>2, SameMarksHold DEF Reorg, vars, LossInv, StartedAt, GivenUp
  <1>3. CASE BeginCycle
    <2>1. StartedAt'
      BY <1>3 DEF BeginCycle, StartScan, StartedAt
    <2> QED BY <1>3, <2>1, SameMarksHold DEF BeginCycle, LossInv, GivenUp
  <1>4. CASE PageOk
    <2>1. UNCHANGED <<head, mem, disk, cur>> /\ pc = "fetch"
      BY <1>4 DEF PageOk
    <2>2. PICK v, s : \/ EndChunk(cur, scan.batch \o s)
                      \/ /\ scan' = [scan EXCEPT !.cursor = PageEnd + 1, !.batch = @ \o s]
                         /\ UNCHANGED pc
      BY <1>4 DEF PageOk
    <2>3. CASE EndChunk(cur, scan.batch \o s)
      BY <2>1, <2>3, EndChunkKeepsStart, SameMarksHold DEF LossInv, GivenUp
    <2>4. CASE scan' = [scan EXCEPT !.cursor = PageEnd + 1, !.batch = @ \o s] /\ UNCHANGED pc
      <3>1. scan'.from = scan.from /\ scan'.topic = scan.topic
        BY <1>0, <2>4 DEF ScanType
      <3> QED BY <2>1, <2>4, <3>1, SameMarksHold DEF LossInv, StartedAt, GivenUp
    <2> QED BY <2>2, <2>3, <2>4
  <1>5. CASE PageRefused
    <2>1. UNCHANGED <<head, mem, disk, cur>> /\ pc = "fetch"
          /\ EndChunk(scan.cursor - 1, scan.batch)
      BY <1>5 DEF PageRefused
    <2> QED BY <2>1, EndChunkKeepsStart, SameMarksHold DEF LossInv, GivenUp
  <1>6. CASE ScanRaised
    <2>1. UNCHANGED <<head, mem, disk>> /\ AfterTopic(mem, scan.topic)
      BY <1>6 DEF ScanRaised
    <2> QED BY <2>1, NextTopicStarts, SameMarksHold DEF LossInv, GivenUp
  <1>7. CASE ApplyEvent
    <2>1. /\ pc = "apply" /\ scan.batch # <<>> /\ mem' = Apply(mem, Head(scan.batch))
          /\ scan' = [scan EXCEPT !.batch = Tail(@)] /\ UNCHANGED <<head, pc, cur, disk>>
      BY <1>7 DEF ApplyEvent
    <2>2. Head(scan.batch) \in Keys
      BY <1>0, <2>1 DEF ScanType
    <2>3. mem'.mark = mem.mark /\ mem'.skipped = mem.skipped
      BY <2>1, <2>2, ApplyLosesNothing
    <2>4. scan'.from = scan.from /\ scan'.topic = scan.topic
      BY <1>0, <2>1 DEF ScanType
    <2>5. StartedAt'
      BY <2>1, <2>3, <2>4, FromBlockByMark DEF LossInv, StartedAt
    <2>6. GivenUp(mem', head) /\ GivenUp(Loaded(disk), head)
      BY <2>3 DEF LossInv, GivenUp
    <2> QED BY <2>1, <2>3, <2>5, <2>6, SameMarksHold DEF LossInv, GivenUp
  <1>8. CASE AdvanceMark
    <2> DEFINE m == Advanced(mem, scan.topic, scan.from, scan.reach)
    <2>1. /\ pc = "apply" /\ mem' = m /\ AfterTopic(m, scan.topic)
          /\ UNCHANGED <<head, disk>>
      BY <1>8 DEF AdvanceMark
    <2>2. /\ scan.topic \in Topics /\ scan.reach \in Int
          /\ scan.from = FromBlock(mem, scan.topic, cur)
      BY <1>0, <2>1 DEF ScanType, LossInv, StartedAt
    <2>3. /\ GivenUp(m, head)
          /\ \A u \in Topics : m.mark[u] = mem.mark[u] \/ m.mark[u] > mem.mark[u] - Margin
      BY <1>0, <2>2, AdvanceLoses DEF LossInv
    <2> HIDE DEF m
    <2>4. StartedAt'
      BY <2>1, NextTopicStarts
    <2> QED BY <2>1, <2>3, <2>4 DEF LossInv, MarksHold, GivenUp
  <1>9. CASE Close
    <2>1. pc' = "off" /\ mem' = EmptyCache /\ disk' = Saved(mem) /\ head' = head
      BY <1>9 DEF Close
    <2>2. GivenUp(EmptyCache, head) /\ GivenUp(Loaded(Saved(mem)), head)
      BY FilesGiveUpNothing
    <2> QED BY <2>1, <2>2 DEF LossInv, StartedAt, MarksHold, GivenUp
  <1>10. CASE Crash
    <2>1. pc' = "off" /\ mem' = EmptyCache /\ UNCHANGED <<disk, head>>
      BY <1>10 DEF Crash
    <2>2. GivenUp(EmptyCache, head)
      BY FilesGiveUpNothing
    <2> QED BY <2>1, <2>2 DEF LossInv, StartedAt, MarksHold, GivenUp
  <1>11. CASE Restart
    <2>1. pc = "off" /\ pc' = "idle" /\ mem' = Loaded(disk) /\ UNCHANGED <<disk, head>>
      BY <1>11 DEF Restart
    <2> QED BY <2>1 DEF LossInv, StartedAt, MarksHold, GivenUp
  <1> QED BY <1>1, <1>2, <1>3, <1>4, <1>5, <1>6, <1>7, <1>8, <1>9, <1>10, <1>11 DEF Next

\* Blocks are given up only beyond the look-backs: the start of a scan passes
\* over no other block, whatever was refused, closed, killed or migrated.
THEOREM OnlyTheOldIsSkipped == Spec => []SkippedOnlyBeyondLookback
PROOF
  <1>1. LossInv => SkippedOnlyBeyondLookback
    BY DEF LossInv, GivenUp, SkippedOnlyBeyondLookback
  <1> QED BY <1>1, LossInit, LossStep, IInvariant, PTL DEF Spec

\* While the process runs a watermark falls back by less than the margin, as a
\* scan starts less than the margin behind it.
THEOREM RegressIsBounded == Spec => BoundedRegress
PROOF
  <1>1. IInv /\ LossInv /\ [Next]_vars => MarksHold
    BY LossStep
  <1>2. Spec => []LossInv
    BY LossInit, LossStep, IInvariant, PTL DEF Spec
  <1>3. MarksHold =>
          [(pc # "off" /\ pc' # "off") =>
             \A t \in Topics : \/ mem'.mark[t] = mem.mark[t]
                               \/ mem'.mark[t] > mem.mark[t] - Margin]_vars
    BY DEF MarksHold
  <1> QED BY <1>1, <1>2, <1>3, IInvariant, PTL DEF Spec, BoundedRegress

-----------------------------------------------------------------------------
(***************************************************************************)
(* No event is counted twice, where the ring reaches far enough: the keys  *)
(* it has dropped can be delivered no more.  For a page that is read moves *)
(* a scan by more than the margin, so a watermark falls back only as far   *)
(* as the head that was read, and that is at most HeadLag blocks.          *)
(***************************************************************************)
Scanning == pc \in {"fetch", "apply"}

\* The keys out of reach of every later scan, and of the one under way.
Gone(m) ==
  {k \in Keys : /\ k[2] + Margin <= m.mark[TopicOf[k[1]]]
                /\ k[2] + Margin + HeadLag <= head}
GoneNow == {k \in Gone(mem) : Scanning => k[2] + Margin <= cur}

\* What is left of a ring when it takes a key, or is saved.
Kept == Smaller(RingSize - 1, PersistSize)

\* The keys the ring in memory may drop next are out of reach.
RingReaches ==
  \A i \in DOMAIN mem.ring : i <= Len(mem.ring) - Kept => mem.ring[i] \in GoneNow

\* It is below both sizes.
LEMMA KeptIs ==
  /\ RingSize \in Nat /\ PersistSize \in Nat
  /\ Kept \in Int /\ Kept <= RingSize - 1 /\ Kept <= PersistSize
PROOF
  <1>1. RingSize \in Nat /\ PersistSize \in Nat
    BY ConfigAssumption DEF ConfigAssumption
  <1>2. CASE RingSize - 1 <= PersistSize
    BY <1>1, <1>2 DEF Kept, Smaller
  <1>3. CASE ~(RingSize - 1 <= PersistSize)
    BY <1>1, <1>3 DEF Kept, Smaller
  <1> QED BY <1>1, <1>2, <1>3

\* No key is counted twice, and those counted are in the ring or far away.
Held(m, far) ==
  \A k \in Keys : /\ m.counted[k] <= 1
                  /\ m.counted[k] > 0 => k \in Members(m.ring) \/ k \in far

\* What a scan has read lies behind its start, and it stops in front of the
\* first page, at the end, or a page or more behind its start.
PagesInv ==
  Scanning =>
    /\ scan.from = FromBlock(mem, scan.topic, cur)
    /\ \A k \in Members(scan.batch) : scan.from <= k[2]
    /\ \/ scan.reach = cur \/ scan.reach < scan.from
       \/ scan.reach >= scan.from + PageSize - 1
    /\ pc = "fetch" => scan.cursor = scan.from \/ scan.cursor >= scan.from + PageSize

OnceInv ==
  /\ Held(mem, GoneNow) /\ Held(Loaded(disk), Gone(Loaded(disk)))
  /\ PagesInv

\* What is true with fewer keys far away is true with more.
LEMMA HeldMore ==
  ASSUME NEW m, NEW n, NEW far, NEW wide, Held(m, far), far \subseteq wide,
         n.counted = m.counted, n.ring = m.ring
  PROVE  Held(n, wide)
BY DEF Held

\* Nothing is held of a cache that has counted nothing.
LEMMA EmptyHeld ==
  ASSUME NEW far
  PROVE  Held(EmptyCache, far) /\ \A s : Held([EmptyCache EXCEPT !.tokens = s], far)
PROOF
  <1>1. EmptyCache.counted = [k \in Keys |-> 0]
    BY DEF EmptyCache
  <1>2. ASSUME NEW s PROVE [EmptyCache EXCEPT !.tokens = s].counted = [k \in Keys |-> 0]
    BY DEF EmptyCache
  <1> QED BY <1>1, <1>2 DEF Held

\* The last n of a sequence are kept.
LEMMA LastOfKeeps ==
  ASSUME NEW S, NEW s \in Seq(S), NEW n \in Nat, NEW i \in DOMAIN s, i > Len(s) - n
  PROVE  s[i] \in Members(LastOf(s, n))
PROOF
  <1> DEFINE a == Larger(1, Len(s) - n + 1)
             j == i - a + 1
  <1>1. /\ Len(s) \in Nat /\ DOMAIN s = 1..Len(s)
        /\ \A h \in 1..Len(s) : s[h] \in S
    BY LenProperties, ElementOfSeq
  <1>2. a \in Int /\ a >= 1 /\ a <= i
    BY <1>1 DEF Larger
  <1>3. \A h \in a..Len(s) : s[h] \in S
    BY <1>1, <1>2
  <1>4. i \in Int /\ i <= Len(s) /\ a + j - 1 = i /\ j \in 1..(Len(s) - a + 1)
    BY <1>1, <1>2
  <1>5. LastOf(s, n) = SubSeq(s, a, Len(s))
    BY DEF LastOf
  <1> HIDE DEF a
  <1>6. /\ SubSeq(s, a, Len(s)) \in Seq(S)
        /\ Len(SubSeq(s, a, Len(s))) = IF a <= Len(s) THEN Len(s) - a + 1 ELSE 0
        /\ \A h \in 1..(Len(s) - a + 1) : SubSeq(s, a, Len(s))[h] = s[a + h - 1]
    BY <1>1, <1>2, <1>3, SubSeqProperties
  <1> HIDE DEF j
  <1>7. /\ SubSeq(s, a, Len(s))[j] = s[a + j - 1]
        /\ j \in DOMAIN SubSeq(s, a, Len(s))
    BY <1>1, <1>2, <1>4, <1>6, LenProperties
  <1> QED BY <1>4, <1>5, <1>7 DEF Members

\* A key is counted if the ring does not hold it; where it is not far away,
\* that is the first time.
LEMMA ApplyHeld ==
  ASSUME NEW m \in CacheType, NEW far, Held(m, far), RingSize > 0,
         NEW k \in Keys, k \notin far,
         \A i \in DOMAIN m.ring : i <= Len(m.ring) - (RingSize - 1) => m.ring[i] \in far
  PROVE  Held(Apply(m, k), far)
PROOF
  <1> DEFINE a == TokenOf[k[1]]
             p == IF TopicOf[k[1]] = "Launched" THEN RegisterToken(m, a) ELSE m
  <1>1. a \in Tokens /\ RingSize \in Nat
    BY ConfigAssumption DEF ConfigAssumption, Keys
  <1>2. p \in CacheType /\ p.ring = m.ring /\ p.counted = m.counted
    BY <1>1, RegisterTokenLemma
  <1>3. Apply(m, k) = CountOnce(p, k)
    BY DEF Apply
  <1> HIDE DEF p
  <1>4. Held(p, far)
    BY <1>2, HeldMore
  <1>5. CASE k \in Members(p.ring)
    BY <1>3, <1>4, <1>5 DEF CountOnce
  <1>6. CASE k \notin Members(p.ring)
    <2> DEFINE q == Append(p.ring, k)
               r == LastOf(q, RingSize)
               f == [p.counted EXCEPT ![k] = Bump(p.counted[k])]
    <2>1. p.ring \in Seq(Keys) /\ p.counted \in [Keys -> 0..CountCap]
      BY <1>2 DEF CacheType
    <2>2. /\ q \in Seq(Keys) /\ Len(q) = Len(p.ring) + 1 /\ Len(p.ring) \in Nat
          /\ DOMAIN q = 1..(Len(p.ring) + 1) /\ DOMAIN p.ring = 1..Len(p.ring)
          /\ q[Len(p.ring) + 1] = k /\ \A i \in DOMAIN p.ring : q[i] = p.ring[i]
      BY <2>1, AppendProperties, LenProperties
    <2>3. CountOnce(p, k) = [p EXCEPT !.ring = r, !.counted = f]
      BY <1>2, <1>6 DEF CountOnce, CacheType
    <2> HIDE DEF r, f, q
    <2>4. CountOnce(p, k).ring = r /\ CountOnce(p, k).counted = f
      BY <1>2, <2>3 DEF CacheType
    <2>5. p.counted[k] = 0
      BY <1>4, <1>6, <2>1 DEF Held, CountCap
    <2>6. f = [p.counted EXCEPT ![k] = 1]
      BY <2>5 DEF f, Bump, CountCap
    <2>7. \A i \in DOMAIN q : i > Len(q) - RingSize => q[i] \in Members(r)
      BY <1>1, <2>2, LastOfKeeps DEF r
    <2>8. k \in Members(r)
      BY <1>1, <2>2, <2>7
    <2>9. ASSUME NEW j \in Members(p.ring) PROVE j \in Members(r) \/ j \in far
      <3>1. PICK i \in DOMAIN p.ring : j = p.ring[i]
        BY DEF Members
      <3>2. CASE i > Len(q) - RingSize
        BY <2>2, <2>7, <3>1, <3>2
      <3>3. CASE ~(i > Len(q) - RingSize)
        BY <1>1, <1>2, <2>2, <3>1, <3>3
      <3> QED BY <3>2, <3>3
    <2>10. ASSUME NEW j \in Keys
           PROVE  f[j] <= 1 /\ (f[j] > 0 => j \in Members(r) \/ j \in far)
      BY <1>4, <2>1, <2>6, <2>8, <2>9 DEF Held
    <2> QED BY <1>3, <2>4, <2>10 DEF Held
  <1> QED BY <1>5, <1>6

\* A file lacks only keys that are far away.
LEMMA SavedHeld ==
  ASSUME NEW m \in CacheType, NEW far, Held(m, far),
         \A i \in DOMAIN m.ring : i <= Len(m.ring) - PersistSize => m.ring[i] \in far
  PROVE  Held(Loaded(Saved(m)), far) /\ Loaded(Saved(m)).mark = m.mark
PROOF
  <1> DEFINE r == LastOf(m.ring, PersistSize)
             n == [m EXCEPT !.ring = r]
  <1>1. /\ m.ring \in Seq(Keys) /\ PersistSize \in Nat /\ Len(m.ring) \in Nat
        /\ DOMAIN m.ring = 1..Len(m.ring)
    BY LenProperties, ConfigAssumption DEF ConfigAssumption, CacheType
  <1>2. \A i \in DOMAIN m.ring : i > Len(m.ring) - PersistSize => m.ring[i] \in Members(r)
    BY <1>1, LastOfKeeps
  <1> HIDE DEF r
  <1>3. n.ring = r /\ n.counted = m.counted /\ n.mark = m.mark
    BY DEF CacheType
  <1>4. Saved(m) = [version |-> 2, cache |-> n]
    BY DEF Saved, r
  <1> HIDE DEF n
  <1>5. Loaded(Saved(m)) = n
    BY <1>4 DEF Loaded
  <1>6. \A j \in Members(m.ring) : j \in Members(r) \/ j \in far
    BY <1>1, <1>2 DEF Members
  <1> QED BY <1>3, <1>5, <1>6 DEF Held

\* A scan begins with nothing read, at its own start and with the end to reach.
LEMMA StartsPages ==
  ASSUME NEW m, NEW t, AfterTopic(m, t) \/ StartScan(m, t, cur'), mem'.mark = m.mark
  PROVE  PagesInv'
PROOF
  <1>1. ASSUME NEW u, StartScan(m, u, cur') PROVE PagesInv'
    <2>1. /\ scan'.from = FromBlock(m, u, cur') /\ scan'.cursor = scan'.from
          /\ scan'.reach = cur' /\ scan'.batch = <<>> /\ scan'.topic = u
      BY <1>1 DEF StartScan
    <2>2. FromBlock(mem', u, cur') = FromBlock(m, u, cur')
      BY FromBlockByMark
    <2>3. Members(scan'.batch) = {}
      BY <2>1, MembersOfSeq
    <2> QED BY <2>1, <2>2, <2>3 DEF PagesInv
  <1>2. CASE EndCycle
    BY <1>2 DEF EndCycle, PagesInv, Scanning
  <1> QED BY <1>1, <1>2 DEF AfterTopic

\* A request ends in front of its first page, or a page or more behind it.
LEMMA EndChunkPages ==
  ASSUME IInv, PagesInv, pc = "fetch", NEW reached \in Int, NEW batch,
         \A k \in Members(batch) : scan.from <= k[2],
         reached = cur \/ reached < scan.from \/ reached >= scan.from + PageSize - 1,
         EndChunk(reached, batch), UNCHANGED <<mem, cur>>
  PROVE  PagesInv'
PROOF
  <1> DEFINE r == Smaller(scan.reach, reached)
  <1>1. /\ scan \in ScanType /\ scan.reach \in Int /\ scan.from \in Nat /\ PageSize \in Nat
        /\ cur \in Nat
    BY ConfigAssumption DEF IInv, TypeOK, ScanType, ConfigAssumption
  <1>2. /\ scan'.from = scan.from /\ scan'.topic = scan.topic /\ scan'.reach = r
        /\ scan'.batch = batch /\ pc' \in {"fetch", "apply"}
        /\ pc' = "fetch" => scan'.cursor = scan.from
    BY <1>1 DEF EndChunk, ScanType
  <1>3. scan.reach = cur \/ scan.reach < scan.from \/ scan.reach >= scan.from + PageSize - 1
    BY DEF PagesInv, Scanning
  <1>4. r = cur \/ r < scan.from \/ r >= scan.from + PageSize - 1
    BY <1>1, <1>3 DEF Smaller
  <1> HIDE DEF r
  <1>5. scan.from = FromBlock(mem, scan.topic, cur)
    BY DEF PagesInv, Scanning
  <1> QED BY <1>2, <1>4, <1>5 DEF PagesInv

\* A page lies between where the scan is and its end.
LEMMA PageOkPages ==
  ASSUME IInv, PagesInv, PageOk
  PROVE  PagesInv'
PROOF
  <1>1. pc = "fetch" /\ UNCHANGED <<mem, cur>>
    BY DEF PageOk
  <1>2. PICK v \in (head - LogLag)..head : \E z \in BlockOrders(PageKeys(v)) :
          \/ PageEnd = cur /\ EndChunk(cur, scan.batch \o z)
          \/ /\ PageEnd < cur
             /\ scan' = [scan EXCEPT !.cursor = PageEnd + 1, !.batch = @ \o z]
             /\ UNCHANGED pc
    BY DEF PageOk
  <1>3. PICK s \in BlockOrders(PageKeys(v)) :
          \/ PageEnd = cur /\ EndChunk(cur, scan.batch \o s)
          \/ /\ PageEnd < cur
             /\ scan' = [scan EXCEPT !.cursor = PageEnd + 1, !.batch = @ \o s]
             /\ UNCHANGED pc
    BY <1>2
  <1>4. s \in Seq(Keys) /\ Members(s) = PageKeys(v)
    BY <1>1, PageLemma
  <1>5. /\ scan \in ScanType /\ scan.batch \in Seq(Keys) /\ scan.from \in Nat
        /\ scan.cursor \in Nat /\ cur \in Nat /\ PageSize \in Nat \ {0}
    BY ConfigAssumption DEF IInv, TypeOK, ScanType, ConfigAssumption
  <1>6. /\ scan.from = FromBlock(mem, scan.topic, cur)
        /\ \A k \in Members(scan.batch) : scan.from <= k[2]
        /\ \/ scan.reach = cur \/ scan.reach < scan.from
           \/ scan.reach >= scan.from + PageSize - 1
        /\ scan.cursor = scan.from \/ scan.cursor >= scan.from + PageSize
    BY <1>1 DEF PagesInv, Scanning
  <1>7. \A k \in Members(s) : scan.from <= k[2]
    <2> SUFFICES ASSUME NEW l \in Logs, minedAt[l] \in Blocks, minedAt[l] >= scan.cursor
                 PROVE  scan.from <= minedAt[l]
      BY <1>4 DEF PageKeys
    <2>1. minedAt[l] \in Nat
      BY DEF Blocks
    <2> QED BY <1>5, <1>6, <2>1
  <1>8. \A k \in Members(scan.batch \o s) : scan.from <= k[2]
    BY <1>4, <1>5, <1>6, <1>7, MembersOfSeq
  <1>9. CASE PageEnd = cur /\ EndChunk(cur, scan.batch \o s)
    BY <1>1, <1>5, <1>8, <1>9, EndChunkPages
  <1>10. CASE /\ PageEnd < cur
              /\ scan' = [scan EXCEPT !.cursor = PageEnd + 1, !.batch = @ \o s]
              /\ UNCHANGED pc
    <2>1. PageEnd + 1 = scan.cursor + PageSize
      BY <1>5, <1>10 DEF PageEnd, Smaller
    <2>2. /\ scan'.from = scan.from /\ scan'.topic = scan.topic /\ scan'.reach = scan.reach
          /\ scan'.batch = scan.batch \o s /\ scan'.cursor = scan.cursor + PageSize
      BY <1>5, <1>10, <2>1 DEF ScanType
    <2>3. scan'.cursor >= scan'.from + PageSize
      BY <1>5, <1>6, <2>2
    <2> QED BY <1>1, <1>6, <1>8, <2>2, <2>3 DEF PagesInv
  <1> QED BY <1>3, <1>9, <1>10

\* A refused page ends the request in front of it.
LEMMA PageRefusedPages ==
  ASSUME IInv, PagesInv, PageRefused
  PROVE  PagesInv'
PROOF
  <1>1. pc = "fetch" /\ EndChunk(scan.cursor - 1, scan.batch) /\ UNCHANGED <<mem, cur>>
    BY DEF PageRefused
  <1>2. scan.from \in Nat /\ scan.cursor \in Nat /\ PageSize \in Nat
    BY ConfigAssumption DEF IInv, TypeOK, ScanType, ConfigAssumption
  <1>3. /\ \A k \in Members(scan.batch) : scan.from <= k[2]
        /\ scan.cursor = scan.from \/ scan.cursor >= scan.from + PageSize
    BY <1>1 DEF PagesInv, Scanning
  <1>4. /\ scan.cursor - 1 \in Int
        /\ scan.cursor - 1 < scan.from \/ scan.cursor - 1 >= scan.from + PageSize - 1
    BY <1>2, <1>3
  <1> QED BY <1>1, <1>3, <1>4, EndChunkPages

\* A scan starts behind the keys that are gone.
LEMMA StartsBehindGone ==
  ASSUME IInv, PagesInv, Scanning, NEW k \in GoneNow, TopicOf[k[1]] = scan.topic
  PROVE  /\ mem.mark[scan.topic] \in Nat /\ k[2] \in Nat /\ Margin \in Nat
         /\ scan.from >= mem.mark[scan.topic] + 1 - Margin
         /\ k[2] + Margin <= mem.mark[scan.topic] /\ k[2] + Margin <= cur
PROOF
  <1>1. scan.topic \in Topics /\ mem.mark \in [Topics -> 0..MaxBlock] /\ cur \in Nat
    BY ConfigAssumption DEF IInv, TypeOK, ScanType, CacheType, ConfigAssumption
  <1>2. mem.mark[scan.topic] \in Nat /\ Margin \in Nat /\ Lookback \in Nat
    BY <1>1, ConfigAssumption DEF ConfigAssumption
  <1>3. k \in Keys /\ k[2] + Margin <= mem.mark[scan.topic] /\ k[2] + Margin <= cur
    BY DEF GoneNow, Gone
  <1>4. k[2] \in Nat /\ k[2] > 0
    BY <1>3 DEF Keys, Blocks
  <1>5. mem.mark[scan.topic] # 0
    BY <1>2, <1>3, <1>4
  <1>6. scan.from =
          Larger(0, Larger(mem.mark[scan.topic] + 1 - Margin, cur - Lookback))
    BY <1>5 DEF PagesInv, FromBlock
  <1>7. scan.from >= mem.mark[scan.topic] + 1 - Margin
    BY <1>1, <1>2, <1>6 DEF Larger
  <1> QED BY <1>2, <1>3, <1>4, <1>7

\* A head that does not fall and the same watermarks leave gone what is gone.
LEMMA StaysGone ==
  ASSUME IInv, head' \in Nat, head' >= head, NEW m, NEW n, n.mark = m.mark
  PROVE  Gone(m) \subseteq Gone(n)'
PROOF
  <1>1. head \in Nat /\ Margin \in Nat /\ HeadLag \in Nat
    BY ConfigAssumption DEF IInv, TypeOK, ConfigAssumption
  <1>2. \A k \in Keys : k[2] \in Nat
    BY DEF Keys, Blocks
  <1> QED BY <1>1, <1>2 DEF Gone

\* A key is applied that is not gone.
LEMMA ApplyOnce ==
  ASSUME IInv, RingReaches, RingSize > 0, OnceInv, ApplyEvent
  PROVE  OnceInv'
PROOF
  <1> DEFINE k == Head(scan.batch)
  <1>1. /\ pc = "apply" /\ scan.batch # <<>> /\ mem' = Apply(mem, k)
        /\ scan' = [scan EXCEPT !.batch = Tail(@)] /\ UNCHANGED <<head, pc, cur, disk>>
    BY DEF ApplyEvent
  <1>2. mem \in CacheType /\ scan \in ScanType /\ scan.batch \in Seq(Keys)
    BY DEF IInv, TypeOK, ScanType
  <1>3. /\ k \in Keys /\ Tail(scan.batch) \in Seq(Keys)
        /\ Members(scan.batch) = {k} \cup Members(Tail(scan.batch))
    BY <1>1, <1>2, MembersOfTail
  <1>4. TopicOf[k[1]] = scan.topic /\ scan.from <= k[2]
    BY <1>1, <1>3 DEF IInv, OnceInv, PagesInv, Scanning
  <1> HIDE DEF k
  <1>5. k \notin GoneNow
    <2> SUFFICES ASSUME k \in GoneNow PROVE FALSE
      OBVIOUS
    <2>1. /\ mem.mark[scan.topic] \in Nat /\ k[2] \in Nat /\ Margin \in Nat
          /\ scan.from >= mem.mark[scan.topic] + 1 - Margin
          /\ k[2] + Margin <= mem.mark[scan.topic]
      BY <1>1, <1>4, StartsBehindGone DEF OnceInv, Scanning
    <2>2. scan.from \in Nat
      BY <1>2 DEF ScanType
    <2> QED BY <1>4, <2>1, <2>2
  <1>6. \A i \in DOMAIN mem.ring :
           i <= Len(mem.ring) - (RingSize - 1) => mem.ring[i] \in GoneNow
    <2>1. Len(mem.ring) \in Nat /\ DOMAIN mem.ring = 1..Len(mem.ring)
      BY <1>2, LenProperties DEF CacheType
    <2> QED BY <2>1, KeptIs DEF RingReaches
  <1>7. Held(mem', GoneNow)
    BY <1>1, <1>2, <1>3, <1>5, <1>6, ApplyHeld DEF OnceInv
  <1>8. mem'.mark = mem.mark
    BY <1>1, <1>2, <1>3, ApplyLosesNothing
  <1>9. GoneNow' = GoneNow /\ Gone(Loaded(disk))' = Gone(Loaded(disk))
    BY <1>1, <1>8 DEF GoneNow, Gone, Scanning
  <1>10. PagesInv'
    <2>1. /\ scan'.from = scan.from /\ scan'.topic = scan.topic /\ scan'.reach = scan.reach
          /\ Members(scan'.batch) \subseteq Members(scan.batch)
      BY <1>1, <1>2, <1>3 DEF ScanType
    <2>2. FromBlock(mem', scan.topic, cur) = FromBlock(mem, scan.topic, cur)
      BY <1>8, FromBlockByMark
    <2> QED BY <1>1, <2>1, <2>2 DEF OnceInv, PagesInv, Scanning
  <1> QED BY <1>1, <1>7, <1>9, <1>10 DEF OnceInv

\* A watermark falls back no further than to the head that was read.
LEMMA AdvanceOnce ==
  ASSUME IInv, OnceInv, Margin <= PageSize, AdvanceMark
  PROVE  OnceInv'
PROOF
  <1> DEFINE t == scan.topic
             m == Advanced(mem, t, scan.from, scan.reach)
  <1>1. /\ pc = "apply" /\ mem' = m /\ AfterTopic(m, t) /\ UNCHANGED <<head, disk>>
    BY DEF AdvanceMark
  <1>2. /\ mem \in CacheType /\ scan \in ScanType /\ t \in Topics
        /\ mem.mark \in [Topics -> 0..MaxBlock]
        /\ scan.from \in Nat /\ scan.reach \in Int /\ cur \in Nat
        /\ PageSize \in Nat /\ Margin \in Nat
    BY ConfigAssumption DEF IInv, TypeOK, ScanType, CacheType, ConfigAssumption
  <1>3. /\ m.counted = mem.counted /\ m.ring = mem.ring
        /\ \A u \in Topics : \/ m.mark[u] = mem.mark[u]
                             \/ u = t /\ m.mark[u] = scan.reach /\ scan.reach >= scan.from
    <2>1. CASE scan.reach < scan.from
      BY <2>1 DEF Advanced
    <2>2. CASE ~(scan.reach < scan.from)
      <3> DEFINE gap == {b \in Blocks : b < scan.from /\ b > mem.mark[t] - Margin}
      <3>1. m = [mem EXCEPT !.mark[t] = scan.reach, !.skipped[t] = @ \cup gap]
        BY <2>2 DEF Advanced
      <3> HIDE DEF gap
      <3>2. /\ m.mark = [mem.mark EXCEPT ![t] = scan.reach]
            /\ m.counted = mem.counted /\ m.ring = mem.ring
        BY <1>2, <3>1 DEF CacheType
      <3> HIDE DEF m
      <3> QED BY <1>2, <2>2, <3>2
    <2> QED BY <2>1, <2>2
  <1> HIDE DEF m
  <1>4. \A k \in GoneNow : k[2] + Margin <= m.mark[TopicOf[k[1]]]
    <2> SUFFICES ASSUME NEW k \in GoneNow PROVE k[2] + Margin <= m.mark[TopicOf[k[1]]]
      OBVIOUS
    <2>1. k \in Keys /\ k[2] + Margin <= mem.mark[TopicOf[k[1]]] /\ TopicOf[k[1]] \in Topics
      BY ConfigAssumption DEF GoneNow, Gone, Keys, ConfigAssumption
    <2>2. CASE m.mark[TopicOf[k[1]]] = mem.mark[TopicOf[k[1]]]
      BY <2>1, <2>2
    <2>3. CASE TopicOf[k[1]] = t /\ m.mark[t] = scan.reach /\ scan.reach >= scan.from
      <3>1. /\ mem.mark[t] \in Nat /\ k[2] \in Nat
            /\ scan.from >= mem.mark[t] + 1 - Margin
            /\ k[2] + Margin <= mem.mark[t] /\ k[2] + Margin <= cur
        BY <1>1, <2>3, StartsBehindGone DEF OnceInv, Scanning
      <3>2. scan.reach = cur \/ scan.reach >= scan.from + PageSize - 1
        BY <1>1, <1>2, <2>3 DEF OnceInv, PagesInv, Scanning
      <3> QED BY <1>2, <2>3, <3>1, <3>2
    <2> QED BY <1>3, <2>1, <2>2, <2>3
  <1>5. GoneNow \subseteq GoneNow'
    <2>1. cur' = cur \/ ~Scanning'
      BY <1>1 DEF AfterTopic, EndCycle, Scanning
    <2> QED BY <1>1, <1>4, <2>1 DEF GoneNow, Gone, Scanning
  <1>6. Gone(Loaded(disk))' = Gone(Loaded(disk))
    BY <1>1 DEF Gone
  <1>7. PagesInv'
    BY <1>1, StartsPages
  <1>8. Held(mem', GoneNow')
    BY <1>1, <1>3, <1>5, HeldMore DEF OnceInv
  <1> QED BY <1>1, <1>6, <1>7, <1>8 DEF OnceInv

\* The steps that change neither cache.
LEMMA QuietOnce ==
  ASSUME IInv, OnceInv, UNCHANGED <<mem, disk>>, head' \in Nat, head' >= head,
         PagesInv',
         Scanning' => \/ Scanning /\ cur' = cur
                      \/ cur' \in Nat /\ cur' >= head' - HeadLag
  PROVE  OnceInv'
PROOF
  <1>1. Gone(mem) \subseteq Gone(mem)' /\ Gone(Loaded(disk)) \subseteq Gone(Loaded(disk))'
    BY StaysGone
  <1>2. GoneNow \subseteq GoneNow'
    <2> SUFFICES ASSUME NEW k \in GoneNow, Scanning' PROVE k[2] + Margin <= cur'
      BY <1>1 DEF GoneNow
    <2>1. k \in Keys /\ k[2] + Margin + HeadLag <= head /\ (Scanning => k[2] + Margin <= cur)
      BY DEF GoneNow, Gone
    <2>2. head \in Nat /\ HeadLag \in Nat /\ Margin \in Nat /\ k[2] \in Nat
      BY <2>1, ConfigAssumption DEF IInv, TypeOK, ConfigAssumption, Keys, Blocks
    <2> QED BY <2>1, <2>2
  <1> QED BY <1>1, <1>2, HeldMore DEF OnceInv

\* Nothing is counted at the start, whatever file is found.
LEMMA OnceInit == Init => OnceInv
PROOF
  <1> SUFFICES ASSUME Init PROVE OnceInv
    OBVIOUS
  <1>1. mem = EmptyCache /\ ~Scanning
    BY DEF Init, Scanning
  <1>2. Held(mem, GoneNow) /\ PagesInv
    BY <1>1, EmptyHeld DEF PagesInv
  <1>3. CASE disk = NewFile
    BY <1>2, <1>3, EmptyHeld DEF OnceInv, Loaded, NewFile
  <1>4. ASSUME NEW s \in TokenLists, disk = LegacyFile(s) PROVE OnceInv
    <2> DEFINE c == disk.cache
    <2>1. disk.version = 1
      BY <1>4 DEF LegacyFile
    <2>2. Loaded(disk) = [EmptyCache EXCEPT !.tokens = c.tokens]
      BY <2>1 DEF Loaded
    <2> HIDE DEF c
    <2> QED BY <1>2, <2>2, EmptyHeld DEF OnceInv
  <1> QED BY <1>3, <1>4 DEF Init

\* Every step keeps it, where the ring reaches far enough.
LEMMA OnceStep ==
  ASSUME IInv, RingReaches, OnceInv, Margin <= PageSize, RingSize > 0, [Next]_vars
  PROVE  OnceInv'
PROOF
  <1>0. /\ mem \in CacheType /\ head \in Nat /\ MaxBlock \in Nat /\ cur \in Nat
        /\ HeadLag \in Nat
    BY ConfigAssumption DEF IInv, TypeOK, ConfigAssumption
  <1>1. CASE Grow \/ Reorg
    <2>1. /\ head' \in Nat /\ head' >= head
          /\ UNCHANGED <<pc, cur, scan, mem, disk>>
      BY <1>0, <1>1 DEF Grow, Reorg
    <2>2. PagesInv'
      <3>1. FromBlock(mem', scan.topic, cur) = FromBlock(mem, scan.topic, cur)
        BY <2>1, FromBlockByMark
      <3> QED BY <2>1, <3>1 DEF OnceInv, PagesInv, Scanning
    <2>3. Scanning' => Scanning
      BY <2>1 DEF Scanning
    <2> QED BY <2>1, <2>2, <2>3, QuietOnce
  <1>2. CASE BeginCycle
    <2>1. /\ cur' \in Blocks /\ cur' >= head - HeadLag /\ UNCHANGED <<head, mem, disk>>
          /\ StartScan(mem, "Launched", cur')
      BY <1>2 DEF BeginCycle
    <2>2. PagesInv' /\ cur' \in Nat
      BY <2>1, StartsPages DEF Blocks
    <2> QED BY <1>0, <2>1, <2>2, QuietOnce
  <1>3. CASE PageOk \/ PageRefused
    <2>1. pc = "fetch" /\ UNCHANGED <<head, cur, mem, disk>>
      BY <1>3 DEF PageOk, PageRefused
    <2>2. PagesInv'
      BY <1>3, PageOkPages, PageRefusedPages DEF OnceInv
    <2> QED BY <1>0, <2>1, <2>2, QuietOnce DEF Scanning
  <1>4. CASE ScanRaised
    <2>1. pc = "fetch" /\ AfterTopic(mem, scan.topic) /\ UNCHANGED <<head, mem, disk>>
      BY <1>4 DEF ScanRaised
    <2>2. cur' = cur \/ ~Scanning'
      BY <2>1 DEF AfterTopic, EndCycle, Scanning
    <2>3. PagesInv'
      BY <2>1, StartsPages
    <2> QED BY <1>0, <2>1, <2>2, <2>3, QuietOnce DEF Scanning
  <1>5. CASE ApplyEvent
    BY <1>5, ApplyOnce
  <1>6. CASE AdvanceMark
    BY <1>6, AdvanceOnce
  <1>7. CASE Close
    <2>1. /\ disk' = Saved(mem) /\ mem' = EmptyCache /\ head' = head /\ ~Scanning'
      BY <1>7 DEF Close, Scanning
    <2>2. \A i \in DOMAIN mem.ring : i <= Len(mem.ring) - PersistSize => mem.ring[i] \in GoneNow
      <3>1. Len(mem.ring) \in Nat /\ DOMAIN mem.ring = 1..Len(mem.ring)
        BY <1>0, LenProperties DEF CacheType
      <3> QED BY <3>1, KeptIs DEF RingReaches
    <2>3. Held(Loaded(Saved(mem)), GoneNow) /\ Loaded(Saved(mem)).mark = mem.mark
      BY <1>0, <2>2, SavedHeld DEF OnceInv
    <2>4. GoneNow \subseteq Gone(Loaded(disk))'
      BY <2>1, <2>3 DEF GoneNow, Gone
    <2>5. Held(Loaded(disk)', Gone(Loaded(disk))')
      BY <2>1, <2>3, <2>4, HeldMore
    <2> QED BY <2>1, <2>5, EmptyHeld DEF OnceInv, PagesInv
  <1>8. CASE Crash
    <2>1. disk' = disk /\ mem' = EmptyCache /\ head' = head /\ ~Scanning'
      BY <1>8 DEF Crash, Scanning
    <2>2. Gone(Loaded(disk))' = Gone(Loaded(disk))
      BY <2>1 DEF Gone
    <2> QED BY <2>1, <2>2, EmptyHeld DEF OnceInv, PagesInv
  <1>9. CASE Restart
    <2>1. disk' = disk /\ mem' = Loaded(disk) /\ head' = head /\ ~Scanning'
      BY <1>9 DEF Restart, Scanning
    <2>2. /\ Gone(Loaded(disk))' = Gone(Loaded(disk))
          /\ GoneNow' = Gone(Loaded(disk))
      BY <2>1 DEF GoneNow, Gone
    <2> QED BY <2>1, <2>2 DEF OnceInv, PagesInv
  <1>10. CASE UNCHANGED vars
    <2>1. UNCHANGED <<head, pc, cur, scan, mem, disk>>
      BY <1>10 DEF vars
    <2>2. GoneNow' = GoneNow /\ Gone(Loaded(disk))' = Gone(Loaded(disk))
      BY <2>1 DEF GoneNow, Gone, Scanning
    <2>3. PagesInv'
      BY <2>1 DEF OnceInv, PagesInv, Scanning
    <2> QED BY <2>1, <2>2, <2>3 DEF OnceInv
  <1> QED BY <1>1, <1>2, <1>3, <1>4, <1>5, <1>6, <1>7, <1>8, <1>9, <1>10 DEF Next

\* No sighting of an event is counted twice, in memory or in what the file
\* restores, although every scan delivers the margin again: across refused
\* pages, lagging nodes, restarts, kills and the migration of an old file, as
\* long as the ring, or its saved tail, drops only keys out of reach.  A page
\* is to be no shorter than the margin, 10,000 blocks to 12 in the code.
THEOREM NoneCountedTwice ==
  ASSUME Margin <= PageSize, RingSize > 0
  PROVE  Spec /\ []RingReaches => []CountedAtMostOnce
PROOF
  <1>1. Init => OnceInv
    BY OnceInit
  <1>2. IInv /\ RingReaches /\ OnceInv /\ [Next]_vars => OnceInv'
    BY OnceStep
  <1>3. OnceInv => CountedAtMostOnce
    BY DEF OnceInv, Held, CountedAtMostOnce
  <1> QED BY <1>1, <1>2, <1>3, IInvariant, PTL DEF Spec

-----------------------------------------------------------------------------
(***************************************************************************)
(* What the totals are worth: the three results together, said of the      *)
(* chain and the watermarks alone.                                         *)
(***************************************************************************)
\* An event the totals of m answer for: behind the watermark by the margin,
\* within both look-backs, and a buyback only from after its token was known.
Due(m, l) ==
  LET t == TopicOf[l]
      b == minedAt[l]
  IN  /\ b \in Blocks
      /\ b <= m.mark[t] - Margin
      /\ b >= Larger(DeployBlock, head - FirstLookback)
      /\ b >= head - Lookback
      /\ t = "Bought" => /\ TokenOf[l] \in Members(m.tokens)
                         /\ b > m.since[TokenOf[l]] - Margin

TotalsAreExact ==
  \A l \in Logs :
    /\ Due(mem, l) => mem.counted[<<l, minedAt[l]>>] = 1
    /\ Due(Loaded(disk), l) => Loaded(disk).counted[<<l, minedAt[l]>>] = 1

\* A block that is due was not given up, so its events have been promised.
LEMMA DueIsPromised ==
  ASSUME IInv, NEW m, GivenUp(m, head), NEW l \in Logs, Due(m, l)
  PROVE  Promised(m, minedAt, l)
PROOF
  <1> DEFINE t == TopicOf[l]
             b == minedAt[l]
  <1>1. /\ head \in Nat /\ b \in Nat /\ t \in Topics
        /\ DeployBlock \in Nat /\ FirstLookback \in Nat /\ Lookback \in Nat
    BY ConfigAssumption DEF IInv, TypeOK
  <1>2. b >= Larger(DeployBlock, head - FirstLookback) /\ b >= head - Lookback
    BY DEF Due
  <1>3. Larger(DeployBlock, head - FirstLookback) \in Int
    BY <1>1 DEF Larger
  <1>4. b \notin m.skipped[t]
    BY <1>1, <1>2, <1>3 DEF GivenUp
  <1> QED BY <1>4 DEF Due, Promised

LEMMA OnceEach ==
  ASSUME IInv, NEW m \in CacheType, NEW l \in Logs, GivenUp(m, head),
         CoveredIn(m, minedAt), \A k \in Keys : m.counted[k] <= 1, Due(m, l)
  PROVE  m.counted[<<l, minedAt[l]>>] = 1
PROOF
  <1>1. m.counted[<<l, minedAt[l]>>] > 0
    BY DueIsPromised DEF CoveredIn
  <1>2. <<l, minedAt[l]>> \in Keys
    BY DEF Due, Keys
  <1>3. m.counted[<<l, minedAt[l]>>] \in 0..CountCap
    BY <1>2 DEF CacheType
  <1> QED BY <1>1, <1>2, <1>3 DEF CountCap

\* An event within the look-backs that the watermark has left behind by the
\* margin is counted exactly once, in memory and in what the file restores:
\* none is missing and none is there twice, whatever pages were refused, nodes
\* lagged, blocks were replaced and processes died (ttt_manager.py, the scans;
\* ttt_cache.py, mark_event_seen).
THEOREM TotalsCountOnce ==
  ASSUME Margin <= PageSize, RingSize > 0
  PROVE  Spec /\ []RingReaches => []TotalsAreExact
PROOF
  <1>1. IInv /\ LossInv /\ CountedAtMostOnce => TotalsAreExact
    <2> SUFFICES ASSUME IInv, LossInv, CountedAtMostOnce PROVE TotalsAreExact
      OBVIOUS
    <2>1. mem \in CacheType /\ Loaded(disk) \in CacheType
      BY LoadedType DEF IInv, TypeOK
    <2>2. CoveredIn(mem, minedAt) /\ CoveredIn(Loaded(disk), minedAt)
      BY DEF IInv, EventsCovered
    <2>3. GivenUp(mem, head) /\ GivenUp(Loaded(disk), head)
      BY DEF LossInv
    <2> QED BY <2>1, <2>2, <2>3, OnceEach DEF TotalsAreExact, CountedAtMostOnce
  <1>2. Spec => []LossInv
    BY LossInit, LossStep, IInvariant, PTL DEF Spec
  <1> QED BY <1>1, <1>2, IInvariant, NoneCountedTwice, PTL

=============================================================================
