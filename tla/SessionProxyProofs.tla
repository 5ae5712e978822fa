------------------------- MODULE SessionProxyProofs -------------------------
(* Theorems about the session proxy: about StreamProxy for any stream within *)
(* half the range of its offsets, any records and any number of packets, and *)
(* about ProxyRequests for any targets and any number of requests.           *)
EXTENDS StreamProxy, ProxyRequests, FiniteSetTheorems, NaturalsInduction, TLAPS

-----------------------------------------------------------------------------
(* StreamProxy: translators one after the other.                             *)

(* Each translator in its turn: what both translations compute.              *)
Moved(way, x, t) ==
  IF way = "out" THEN TranslateOutbound(x, t) ELSE TranslateInbound(x, t)

IsRun(way, x, s, n, f) ==
  f = [k \in 0 .. n |-> IF k = 0 THEN x ELSE Moved(way, f[k - 1], s[k])]

(* f is what the moves give, one after the other.                           *)
Follows(way, x, s, n, f) ==
  f[0] = x /\ \A k \in 1 .. n : f[k] = Moved(way, f[k - 1], s[k])

SameMoves(s, d, q, n) == \A k \in 1 .. n : s[d + k] = q[k]

(* Of natural numbers one is least.                                          *)
LEMMA LeastNumber ==
  ASSUME NEW B \in SUBSET Nat, B # {}
  PROVE  \E k \in B : \A m \in B : k <= m
<1>1. PICK k \in B : \A m \in B : <<m, k>> \notin OpToRel(<, Nat)
  BY NatLessThanWellFounded, WFMin
<1>2. \A m \in B : m \in Nat /\ k \in Nat /\ ~(m < k)
  BY <1>1 DEF OpToRel
<1> QED BY <1>2

(* One translator after the other (StreamTranslator, in their order).        *)
LEMMA RunFollows ==
  ASSUME NEW way, NEW x, NEW s, NEW n \in Nat, NEW f, IsRun(way, x, s, n, f)
  PROVE  Follows(way, x, s, n, f)
<1>1. \A k \in 0 .. n : f[k] = IF k = 0 THEN x ELSE Moved(way, f[k - 1], s[k])
  BY DEF IsRun
<1> QED BY <1>1 DEF Follows

(* What makes these moves one by one is that run.                            *)
LEMMA FollowsRuns ==
  ASSUME NEW way, NEW x, NEW s, NEW n \in Nat, NEW f,
         f = [k \in 0 .. n |-> f[k]], Follows(way, x, s, n, f)
  PROVE  IsRun(way, x, s, n, f)
<1> DEFINE g == [k \in 0 .. n |-> IF k = 0 THEN x ELSE Moved(way, f[k - 1], s[k])]
<1>1. \A k \in 0 .. n : f[k] = g[k]
  BY DEF Follows
<1>2. g = [k \in 0 .. n |-> g[k]]
  OBVIOUS
<1> HIDE DEF g
<1>3. f = g
  BY <1>1, <1>2
<1> QED BY <1>3 DEF IsRun, g

(* There is a run over any translators.                                      *)
LEMMA RunsExist ==
  ASSUME NEW way, NEW x, NEW s, NEW n \in Nat
  PROVE  \E f : IsRun(way, x, s, n, f)
<1> DEFINE B == {m \in Nat : ~\E f : IsRun(way, x, s, m, f)}
<1>1. ASSUME B # {}
      PROVE  FALSE
  <2>1. PICK m \in B : \A l \in B : m <= l
    <3>1. B \in SUBSET Nat
      OBVIOUS
    <3> HIDE DEF B
    <3> QED BY <1>1, <3>1, LeastNumber
  <2>2. m \in Nat /\ ~\E f : IsRun(way, x, s, m, f)
    BY <2>1
  <2>3. m # 0
    <3> DEFINE f == [k \in 0 .. 0 |-> x]
    <3>1. f = [k \in 0 .. 0 |-> f[k]] /\ Follows(way, x, s, 0, f)
      BY DEF Follows
    <3> HIDE DEF f
    <3>2. IsRun(way, x, s, 0, f)
      BY <3>1, FollowsRuns
    <3> QED BY <2>2, <3>2
  <2>4. m - 1 \in Nat /\ m - 1 \notin B
    BY <2>1, <2>2, <2>3
  <2>5. PICK g : IsRun(way, x, s, m - 1, g)
    BY <2>4
  <2> HIDE DEF B
  <2> DEFINE f == [k \in 0 .. m |-> IF k < m THEN g[k] ELSE Moved(way, g[m - 1], s[m])]
  <2>6. g[0] = x /\ \A k \in 1 .. m - 1 : g[k] = Moved(way, g[k - 1], s[k])
    <3>1. Follows(way, x, s, m - 1, g)
      BY <2>4, <2>5, RunFollows
    <3> QED BY <3>1 DEF Follows
  <2>7. IsRun(way, x, s, m, f)
    <3>1. f[0] = x
      BY <2>2, <2>3, <2>6
    <3>2. \A k \in 1 .. m : f[k] = Moved(way, f[k - 1], s[k])
      <4> SUFFICES ASSUME NEW k \in 1 .. m PROVE f[k] = Moved(way, f[k - 1], s[k])
        OBVIOUS
      <4>1. f[k - 1] = g[k - 1]
        BY <2>2
      <4>2. CASE k = m
        BY <2>2, <4>1, <4>2
      <4>3. CASE k # m
        BY <2>2, <2>6, <4>1, <4>3
      <4> QED BY <4>2, <4>3
    <3>3. f = [k \in 0 .. m |-> f[k]]
      OBVIOUS
    <3> HIDE DEF f
    <3>4. Follows(way, x, s, m, f)
      BY <3>1, <3>2 DEF Follows
    <3> QED BY <2>2, <3>3, <3>4, FollowsRuns
  <2> QED BY <2>2, <2>7
<1> QED BY <1>1

(* Two runs that meet and then make the same moves stay together.            *)
LEMMA RunsMeet ==
  ASSUME NEW way, NEW x, NEW s, NEW m \in Nat, NEW f, Follows(way, x, s, m, f),
         NEW y, NEW q, NEW n \in Nat, NEW g, Follows(way, y, q, n, g),
         NEW d \in Nat, d + n <= m, f[d] = y, SameMoves(s, d, q, n)
  PROVE  f[d + n] = g[n]
<1> DEFINE B == {k \in Nat : k <= n /\ f[d + k] # g[k]}
<1>1. ASSUME B # {}
      PROVE  FALSE
  <2>1. PICK k \in B : \A l \in B : k <= l
    <3>1. B \in SUBSET Nat
      OBVIOUS
    <3> HIDE DEF B
    <3> QED BY <1>1, <3>1, LeastNumber
  <2>2. k \in Nat /\ k <= n /\ f[d + k] # g[k]
    BY <2>1
  <2>3. g[0] = y /\ \A i \in 1 .. n : g[i] = Moved(way, g[i - 1], q[i])
    BY DEF Follows
  <2>4. \A i \in 1 .. m : f[i] = Moved(way, f[i - 1], s[i])
    BY DEF Follows
  <2>5. k # 0
    BY <2>2, <2>3
  <2>6. k - 1 \in Nat /\ k - 1 <= n /\ k - 1 \notin B
    BY <2>1, <2>2, <2>5
  <2>7. f[d + (k - 1)] = g[k - 1]
    BY <2>6
  <2> HIDE DEF B
  <2>8. k \in 1 .. n /\ d + k \in 1 .. m /\ (d + k) - 1 = d + (k - 1)
    BY <2>2, <2>5
  <2>9. g[k] = Moved(way, g[k - 1], q[k])
    BY <2>3, <2>8
  <2>10. f[d + k] = Moved(way, f[(d + k) - 1], s[d + k])
    BY <2>4, <2>8
  <2>11. s[d + k] = q[k]
    BY <2>8 DEF SameMoves
  <2> QED BY <2>2, <2>7, <2>8, <2>9, <2>10, <2>11
<1>2. n \notin B
  BY <1>1
<1> QED BY <1>2

(* A translation is such a run, over the translators or their reverse.       *)
LEMMA SenderRuns ==
  ASSUME NEW ts, NEW x, Len(ts) \in Nat
  PROVE  \E f : Follows("out", x, ts, Len(ts), f) /\ SenderVia(ts, x) = f[Len(ts)]
<1> DEFINE P(f) == f = [k \in 0 .. Len(ts) |->
                         IF k = 0 THEN x ELSE TranslateOutbound(f[k - 1], ts[k])]
           h == CHOOSE f : P(f)
<1>1. \A f : IsRun("out", x, ts, Len(ts), f) <=> P(f)
  BY DEF IsRun, Moved
<1>2. \E f : P(f)
  <2> HIDE DEF P
  <2> QED BY <1>1, RunsExist
<1>3. P(h)
  <2> HIDE DEF P
  <2> QED BY <1>2
<1>4. SenderVia(ts, x) = h[Len(ts)]
  BY DEF SenderVia
<1> HIDE DEF P, h
<1>5. IsRun("out", x, ts, Len(ts), h)
  BY <1>1, <1>3
<1> QED BY <1>4, <1>5, RunFollows

(* The same for what comes in, the newest translator first.                  *)
LEMMA LocalRuns ==
  ASSUME NEW ts, NEW x, Len(ts) \in Nat
  PROVE  \E f : Follows("in", x, Reverse(ts), Len(ts), f) /\ LocalVia(ts, x) = f[Len(ts)]
<1> DEFINE P(f) == f = [k \in 0 .. Len(ts) |->
                         IF k = 0 THEN x ELSE TranslateInbound(f[k - 1], Reverse(ts)[k])]
           h == CHOOSE f : P(f)
<1>1. \A f : IsRun("in", x, Reverse(ts), Len(ts), f) <=> P(f)
  BY DEF IsRun, Moved
<1>2. \E f : P(f)
  <2> HIDE DEF P
  <2> QED BY <1>1, RunsExist
<1>3. P(h)
  <2> HIDE DEF P
  <2> QED BY <1>2
<1>4. LocalVia(ts, x) = h[Len(ts)]
  BY DEF LocalVia
<1> HIDE DEF P, h
<1>5. IsRun("in", x, Reverse(ts), Len(ts), h)
  BY <1>1, <1>3
<1> QED BY <1>4, <1>5, RunFollows

(* Without an insertion nothing is moved, and one more insertion moves the   *)
(* outcome once more on the way out and is undone first on the way in.       *)
LEMMA NoTranslation ==
  ASSUME NEW x
  PROVE  SenderVia(<<>>, x) = x /\ LocalVia(<<>>, x) = x
<1>1. Len(<<>>) = 0 /\ Len(<<>>) \in Nat
  OBVIOUS
<1>2. PICK f : Follows("out", x, <<>>, Len(<<>>), f) /\ SenderVia(<<>>, x) = f[Len(<<>>)]
  BY <1>1, SenderRuns
<1>3. PICK g : Follows("in", x, Reverse(<<>>), Len(<<>>), g) /\ LocalVia(<<>>, x) = g[Len(<<>>)]
  BY <1>1, LocalRuns
<1> QED BY <1>1, <1>2, <1>3 DEF Follows

(* One more insertion moves the outcome once more on the way out and is      *)
(* undone first on the way in.                                               *)
LEMMA OneMoreTranslation ==
  ASSUME NEW T, NEW ts \in Seq(T), NEW t \in T, NEW x
  PROVE  /\ SenderVia(Append(ts, t), x) = TranslateOutbound(SenderVia(ts, x), t)
         /\ LocalVia(Append(ts, t), x) = LocalVia(ts, TranslateInbound(x, t))
<1> DEFINE n == Len(ts)
           us == Append(ts, t)
<1>1. n \in Nat /\ Len(us) = n + 1 /\ n + 1 \in Nat /\ us[n + 1] = t
      /\ (\A k \in 1 .. n : us[k] = ts[k])
  OBVIOUS
<1>2. \A k \in 1 .. n : Reverse(us)[1 + k] = Reverse(ts)[k]
  BY <1>1 DEF Reverse
<1>3. Reverse(us)[1] = t
  BY <1>1 DEF Reverse
<1> HIDE DEF n, us
<1>4. SenderVia(us, x) = TranslateOutbound(SenderVia(ts, x), t)
  <2>1. PICK f : Follows("out", x, us, n + 1, f) /\ SenderVia(us, x) = f[n + 1]
    BY <1>1, SenderRuns
  <2>2. PICK g : Follows("out", x, ts, n, g) /\ SenderVia(ts, x) = g[n]
    BY <1>1, SenderRuns DEF n
  <2>3. f[0] = x /\ f[n + 1] = TranslateOutbound(f[n], t)
    <3>1. n + 1 \in 1 .. n + 1 /\ (n + 1) - 1 = n
      BY <1>1
    <3> QED BY <1>1, <2>1, <3>1 DEF Follows, Moved
  <2>4. SameMoves(us, 0, ts, n)
    BY <1>1 DEF SameMoves
  <2>5. 0 \in Nat /\ 0 + n <= n + 1 /\ 0 + n = n
    BY <1>1
  <2>6. f[0 + n] = g[n]
    BY ONLY <1>1, <2>1, <2>2, <2>3, <2>4, <2>5, RunsMeet
  <2> QED BY <2>1, <2>2, <2>3, <2>5, <2>6
<1>5. LocalVia(us, x) = LocalVia(ts, TranslateInbound(x, t))
  <2> DEFINE y == TranslateInbound(x, t)
             r == Reverse(us)
             q == Reverse(ts)
  <2>1. PICK f : Follows("in", x, r, n + 1, f) /\ LocalVia(us, x) = f[n + 1]
    BY <1>1, LocalRuns
  <2> HIDE DEF y
  <2>2. PICK g : Follows("in", y, q, n, g) /\ LocalVia(ts, y) = g[n]
    BY <1>1, LocalRuns DEF n
  <2>3. f[1] = y
    <3>1. 1 \in 1 .. n + 1 /\ 1 - 1 = 0
      BY <1>1
    <3> QED BY <1>3, <2>1, <3>1 DEF Follows, Moved, y
  <2>4. SameMoves(r, 1, q, n)
    BY <1>2 DEF SameMoves
  <2>5. 1 \in Nat /\ 1 + n <= n + 1 /\ 1 + n = n + 1
    BY <1>1
  <2> HIDE DEF r, q
  <2>6. f[1 + n] = g[n]
    BY ONLY <1>1, <2>1, <2>2, <2>3, <2>4, <2>5, RunsMeet
  <2> QED BY <2>1, <2>2, <2>5, <2>6 DEF y
<1> QED BY <1>4, <1>5 DEF us
-----------------------------------------------------------------------------
(* The stream as the worker has mapped it.                                   *)

Parts == {"game", "proxy"} \X Nat \X Nat

Offsets == 0 .. Modulus - 1

Translators == [offset : Offsets, length : Nat \ {0}]

NameOf(u) == <<u.owner, u.number, u.part>>

\* What is on its way to the host, or cached to be sent again.
Underway == flight \union UNION {carriers[c] : c \in DOMAIN carriers}

StreamTypes ==
  /\ written \in Nat /\ acked \in Nat /\ heard \in 0 .. MaxHeard
  /\ lastSerial \in Nat /\ lastSynthetic \in Nat
  /\ log \in Seq(Parts) /\ received \in Seq(Units) /\ translators \in Seq(Translators)
  /\ request \in [stage : {"none", "armed", "injected"}, length : Nat]
  /\ request.stage = "armed" => request.length # 0
  /\ translating \in BOOLEAN /\ acks \subseteq Offsets
  /\ Underway \subseteq Packets /\ \A c \in DOMAIN carriers : c.body = <<>>

\* The streams the promises are about.
Covered == WithinHalf /\ disturbed \intersect {"untranslated", "ended"} = {}

\* Within half the range of the offsets, the game's offset x has a place.
Reach(x) == x < written \/ Len(log) + (x - written) < Half

\* The sender's offset of a written command is its place in the stream, new
\* ones come at the end, and an acknowledgement covers a command for the game
\* exactly when it covers the command's place.
Mapped ==
  /\ written <= Len(log)
  /\ ~translating => translators = <<>>
  /\ \A x \in 0 .. written - 1 :
       /\ SenderOffset(x) \in 0 .. Len(log) - 1
       /\ log[SenderOffset(x) + 1] = <<"game", x + 1, 1>>
  /\ \A x \in written .. Half - 1 :
       Reach(x) => SenderOffset(x) = Len(log) + (x - written)
  /\ \A n \in 0 .. Half - 1 :
       /\ LocalAck(n) \in Nat
       /\ \A x \in 0 .. Half - 1 :
            Reach(x) => (x < LocalAck(n) <=> SenderOffset(x) < n)

\* A packet holds what the stream has at its place.
InPlace(p) ==
  /\ p.offset \in Nat /\ p.offset + Len(p.body) <= Len(log)
  /\ \A i \in 1 .. Len(p.body) : NameOf(p.body[i]) = log[p.offset + i]

PacketsInPlace == \A p \in Underway : InPlace(p)

ReceivedInPlace ==
  /\ Len(received) <= Len(log)
  /\ \A j \in 1 .. Len(received) : NameOf(received[j]) = log[j]
  /\ \A a \in acks : a <= Len(received)

\* What the game has for acknowledged has its place in what the host received.
AcksMapped ==
  "raised" \notin disturbed =>
    /\ acked <= written
    /\ \A x \in 0 .. acked - 1 : SenderOffset(x) < Len(received)

\* How many commands begin in the first q places.
Firsts(s, q) == Cardinality({k \in 1 .. q : s[k][3] = 1})

Commands(q) == Firsts(log, q)

SerialsInPlace(p) ==
  \A i \in 1 .. Len(p.body) :
    p.body[i].part = 1 => p.body[i].serial = Commands(p.offset + i)

SerialsMapped ==
  "resent" \notin disturbed =>
    /\ written + Count = Commands(Len(log))
    /\ translating => lastSerial = written
    /\ lastSynthetic <= written + Count
    /\ \A p \in Underway : SerialsInPlace(p)
    /\ \A j \in 1 .. Len(received) :
         received[j].part = 1 => received[j].serial = Commands(j)

StreamInv ==
  /\ StreamTypes
  /\ Covered => Mapped /\ PacketsInPlace /\ ReceivedInPlace /\ AcksMapped /\ SerialsMapped

-----------------------------------------------------------------------------
(* Arithmetic of the offsets (forward_distance_uint24, is_at_or_after_uint24 *)
(* and the two translations at one insertion).                               *)
LEMMA HalfFacts ==
  /\ Modulus \in Nat /\ Modulus > 1 /\ Half \in Nat /\ Half >= 1 /\ 2 * Half <= Modulus
  /\ \A n \in 0 .. Modulus - 1 : n % Modulus = n
  /\ \A n \in Int : n % Modulus \in Offsets
BY StreamAssumption DEF Half, Offsets

(* Within half the range, the distance tells early from late                 *)
(* (forward_distance_uint24).                                                *)
LEMMA DistanceFacts ==
  ASSUME NEW v \in 0 .. Half, NEW o \in 0 .. Half
  PROVE  /\ o <= v => Distance(v, o) = v - o
         /\ v < o => Distance(v, o) >= Half
<1>1. CASE o <= v
  BY <1>1, HalfFacts DEF Distance
<1>2. CASE v < o
  <2>1. v - o \in Int /\ v - o < 0 /\ v - o >= -Modulus
    BY <1>2, HalfFacts
  <2>2. (v - o) % Modulus = Modulus + (v - o)
    <3> HIDE DEF Half
    <3> QED BY <2>1, StreamAssumption
  <2> QED BY <1>2, <2>2, HalfFacts DEF Distance
<1> QED BY <1>1, <1>2

(* Moving an offset at an insertion (translate_outbound).                    *)
LEMMA OutboundAt ==
  ASSUME NEW t, NEW o \in Nat, NEW l \in Nat \ {0}, t.offset = o, t.length = l, o < Half,
         NEW x \in 0 .. Half - 1
  PROVE  /\ x < o => TranslateOutbound(x, t) = x
         /\ o <= x /\ x + l < Half => TranslateOutbound(x, t) = x + l
<1>1. Half \in Nat /\ Modulus \in Nat /\ 2 * Half <= Modulus
  BY HalfFacts
<1>2. o \in 0 .. Half /\ x \in 0 .. Half
  BY <1>1
<1>3. (o <= x => Distance(x, o) = x - o) /\ (x < o => Distance(x, o) >= Half)
  BY ONLY <1>2, DistanceFacts
<1>4. Distance(x, o) \in Int
  BY <1>1, <1>2, StreamAssumption DEF Distance
<1>5. x + l < Half => (x + l) % Modulus = x + l
  <2>1. x + l < Half => x + l \in 0 .. Modulus - 1
    BY ONLY <1>1, x \in 0 .. Half - 1, l \in Nat
  <2> QED BY ONLY <2>1, HalfFacts
<1>6. TranslateOutbound(x, t) = IF Distance(x, o) < Half THEN (x + l) % Modulus ELSE x
  BY DEF TranslateOutbound, IsAtOrAfter
<1> QED BY ONLY <1>1, <1>3, <1>4, <1>5, <1>6, x \in 0 .. Half - 1, o \in Nat

(* Moving an acknowledgement back at an insertion (translate_inbound).       *)
LEMMA InboundAt ==
  ASSUME NEW t, NEW o \in Nat, NEW l \in Nat \ {0}, t.offset = o, t.length = l, o < Half,
         NEW n \in 0 .. Half - 1
  PROVE  /\ n <= o => TranslateInbound(n, t) = n
         /\ o < n /\ n < o + l => TranslateInbound(n, t) = o
         /\ o + l <= n => TranslateInbound(n, t) = n - l
<1>1. Half \in Nat /\ Modulus \in Nat /\ 2 * Half <= Modulus
  BY HalfFacts
<1>2. o \in 0 .. Half /\ n \in 0 .. Half
  BY <1>1
<1>3. (o <= n => Distance(n, o) = n - o) /\ (n < o => Distance(n, o) >= Half)
  BY ONLY <1>2, DistanceFacts
<1>4. Distance(n, o) \in Int
  BY <1>1, <1>2, StreamAssumption DEF Distance
<1>5. o + l <= n => (n - l) % Modulus = n - l
  <2>1. o + l <= n => n - l \in 0 .. Modulus - 1
    BY ONLY <1>1, n \in 0 .. Half - 1, l \in Nat, o \in Nat
  <2> QED BY ONLY <2>1, HalfFacts
<1>6. TranslateInbound(n, t) =
        IF Distance(n, o) = 0 \/ Distance(n, o) >= Half THEN n
        ELSE IF Distance(n, o) < l THEN o ELSE (n - l) % Modulus
  BY DEF TranslateInbound
<1> QED BY ONLY <1>1, <1>3, <1>4, <1>5, <1>6, n \in 0 .. Half - 1, o \in Nat, l \in Nat \ {0}

(* Translations stay in the range of the offsets.                            *)
LEMMA RunStays ==
  ASSUME NEW way, NEW x \in Offsets, NEW s, NEW n \in Nat, NEW f, Follows(way, x, s, n, f),
         \A k \in 1 .. n : s[k] \in Translators
  PROVE  f[n] \in Offsets
<1> DEFINE B == {k \in Nat : k <= n /\ f[k] \notin Offsets}
<1>1. ASSUME B # {}
      PROVE  FALSE
  <2>1. PICK k \in B : \A l \in B : k <= l
    <3>1. B \in SUBSET Nat
      OBVIOUS
    <3> HIDE DEF B
    <3> QED BY <1>1, <3>1, LeastNumber
  <2>2. k \in Nat /\ k <= n /\ f[k] \notin Offsets
    BY <2>1
  <2>3. k # 0
    BY <2>2 DEF Follows
  <2>4. k - 1 \in Nat /\ k - 1 <= n /\ k - 1 \notin B
    BY <2>1, <2>2, <2>3
  <2>5. f[k - 1] \in Offsets
    BY <2>4
  <2> HIDE DEF B
  <2>6. k \in 1 .. n /\ f[k] = Moved(way, f[k - 1], s[k]) /\ s[k] \in Translators
    BY <2>2, <2>3 DEF Follows
  <2>7. \A y \in Offsets, t \in Translators : Moved(way, y, t) \in Offsets
    <3> SUFFICES ASSUME NEW y \in Offsets, NEW t \in Translators
                 PROVE  Moved(way, y, t) \in Offsets
      OBVIOUS
    <3>1. y \in Int /\ t.length \in Int /\ t.offset \in Offsets
      BY HalfFacts DEF Offsets, Translators
    <3>2. (y + t.length) % Modulus \in Offsets /\ (y - t.length) % Modulus \in Offsets
      BY <3>1, HalfFacts
    <3> QED BY <3>1, <3>2 DEF Moved, TranslateOutbound, TranslateInbound
  <2> QED BY <2>2, <2>5, <2>6, <2>7
<1>2. n \notin B
  BY <1>1
<1> QED BY <1>2

(* Both translations stay in the range of the offsets.                       *)
LEMMA TranslationsStay ==
  ASSUME NEW ts \in Seq(Translators), NEW x \in Offsets
  PROVE  SenderVia(ts, x) \in Offsets /\ LocalVia(ts, x) \in Offsets
<1>1. Len(ts) \in Nat /\ \A k \in 1 .. Len(ts) : ts[k] \in Translators
  OBVIOUS
<1>2. \A k \in 1 .. Len(ts) : Reverse(ts)[k] \in Translators
  BY <1>1 DEF Reverse
<1>3. PICK f : Follows("out", x, ts, Len(ts), f) /\ SenderVia(ts, x) = f[Len(ts)]
  BY <1>1, SenderRuns
<1>4. PICK g : Follows("in", x, Reverse(ts), Len(ts), g) /\ LocalVia(ts, x) = g[Len(ts)]
  BY <1>1, LocalRuns
<1>5. f[Len(ts)] \in Offsets
  BY <1>1, <1>3, RunStays
<1>6. g[Len(ts)] \in Offsets
  BY <1>1, <1>2, <1>4, RunStays
<1> QED BY <1>3, <1>4, <1>5, <1>6

-----------------------------------------------------------------------------
(* The mapping of the offsets across the steps that change the stream.       *)

\* The stream has grown, or not, at its end only.
Longer ==
  /\ Len(log) \in Nat /\ Len(log') \in Nat /\ Len(log) <= Len(log')
  /\ \A k \in 1 .. Len(log) : log'[k] = log[k]

(* A command written at the end of the stream is given the place L.          *)
LEMMA MappedWrite ==
  ASSUME StreamTypes, WithinHalf, WithinHalf', Mapped, written' = written + 1,
         translators' = translators, translating' = translating,
         log' = Append(log, <<"game", written + 1, 1>>)
  PROVE  Mapped'
<1> DEFINE L == Len(log)
           w == written
<1>1. /\ L \in Nat /\ w \in Nat /\ Half \in Nat /\ w <= L /\ L < Half /\ L + 1 < Half
      /\ Len(log') = L + 1
  BY HalfFacts DEF StreamTypes, Mapped, WithinHalf
<1>2. \A x : SenderOffset(x)' = SenderOffset(x) /\ LocalAck(x)' = LocalAck(x)
  BY DEF SenderOffset, LocalAck
<1>3. (\A k \in 1 .. L : log'[k] = log[k]) /\ log'[L + 1] = <<"game", w + 1, 1>>
  BY <1>1 DEF StreamTypes
<1> HIDE DEF L
<1>4. SenderOffset(w) = L
  <2>1. w \in w .. Half - 1 /\ Reach(w) /\ L + (w - w) = L
    BY <1>1 DEF Reach, L
  <2> QED BY <2>1 DEF Mapped, L
<1>5. \A x \in 0 .. Half - 1 : Reach(x)' => Reach(x)
  BY <1>1 DEF Reach, L
<1>6. \A x \in 0 .. w : /\ SenderOffset(x) \in 0 .. L
                        /\ log'[SenderOffset(x) + 1] = <<"game", x + 1, 1>>
  <2> SUFFICES ASSUME NEW x \in 0 .. w
               PROVE  /\ SenderOffset(x) \in 0 .. L
                      /\ log'[SenderOffset(x) + 1] = <<"game", x + 1, 1>>
    OBVIOUS
  <2>1. CASE x = w
    BY <1>1, <1>3, <1>4, <2>1
  <2>2. CASE x # w
    <3>1. x \in 0 .. w - 1
      BY <1>1, <2>2
    <3>2. SenderOffset(x) \in 0 .. L - 1 /\ log[SenderOffset(x) + 1] = <<"game", x + 1, 1>>
      BY <3>1 DEF Mapped, L
    <3> QED BY <1>1, <1>3, <3>2
  <2> QED BY <2>1, <2>2
<1>7. \A x \in w + 1 .. Half - 1 : Reach(x)' => SenderOffset(x) = (L + 1) + (x - (w + 1))
  <2> SUFFICES ASSUME NEW x \in w + 1 .. Half - 1, Reach(x)'
               PROVE  SenderOffset(x) = (L + 1) + (x - (w + 1))
    OBVIOUS
  <2>1. x \in w .. Half - 1 /\ x \in 0 .. Half - 1
    BY <1>1
  <2>2. SenderOffset(x) = L + (x - w)
    BY <1>5, <2>1 DEF Mapped, L
  <2> QED BY <1>1, <2>2
<1>8. \A n \in 0 .. Half - 1 :
        /\ LocalAck(n) \in Nat
        /\ \A x \in 0 .. Half - 1 : Reach(x)' => (x < LocalAck(n) <=> SenderOffset(x) < n)
  BY <1>5 DEF Mapped
<1>9. Half' = Half /\ Len(log') = L + 1 /\ written' = w + 1 /\ w + 1 <= L + 1
  BY <1>1 DEF Half, L
<1>10. ~translating' => translators' = <<>>
  BY DEF Mapped
<1>11. (w + 1) - 1 = w /\ (L + 1) - 1 = L
  BY <1>1
<1> QED BY <1>2, <1>6, <1>7, <1>8, <1>9, <1>10, <1>11 DEF Mapped

(* A record inserted at the end of the stream moves what is written later    *)
(* and nothing that was written before.                                      *)
LEMMA MappedInject ==
  ASSUME StreamTypes, WithinHalf, WithinHalf', Mapped, written' = written,
         NEW l \in Nat \ {0}, NEW t \in Translators, t.offset = Len(log), t.length = l,
         translators' = Append(translators, t), translating',
         Longer, Len(log') = Len(log) + l
  PROVE  Mapped' /\ \A x \in 0 .. written - 1 : SenderOffset(x)' = SenderOffset(x)
<1> DEFINE L == Len(log)
           w == written
<1>1. /\ L \in Nat /\ w \in Nat /\ Half \in Nat /\ w <= L /\ L < Half /\ L + l < Half
      /\ Len(log') = L + l
  BY HalfFacts DEF StreamTypes, Mapped, WithinHalf
<1>2. \A x : /\ SenderOffset(x)' = TranslateOutbound(SenderOffset(x), t)
             /\ LocalAck(x)' = LocalAck(TranslateInbound(x, t))
  BY OneMoreTranslation DEF SenderOffset, LocalAck, StreamTypes
<1>3. \A k \in 1 .. L : log'[k] = log[k]
  BY DEF Longer
<1> HIDE DEF L
<1>4. \A x \in 0 .. w - 1 :
        /\ SenderOffset(x) \in 0 .. L - 1 /\ SenderOffset(x)' = SenderOffset(x)
        /\ log'[SenderOffset(x) + 1] = <<"game", x + 1, 1>>
  <2> SUFFICES ASSUME NEW x \in 0 .. w - 1
               PROVE  /\ SenderOffset(x) \in 0 .. L - 1 /\ SenderOffset(x)' = SenderOffset(x)
                      /\ log'[SenderOffset(x) + 1] = <<"game", x + 1, 1>>
    OBVIOUS
  <2>1. SenderOffset(x) \in 0 .. L - 1 /\ log[SenderOffset(x) + 1] = <<"game", x + 1, 1>>
    BY DEF Mapped, L
  <2>2. SenderOffset(x) \in 0 .. Half - 1 /\ SenderOffset(x) < L
    BY <1>1, <2>1
  <2>3. TranslateOutbound(SenderOffset(x), t) = SenderOffset(x)
    BY ONLY <1>1, <2>2, t.offset = Len(log), t.length = l, l \in Nat \ {0}, OutboundAt DEF L
  <2> QED BY <1>1, <1>2, <1>3, <2>1, <2>3
<1>5. \A x \in 0 .. Half - 1 : Reach(x)' => Reach(x)
  BY <1>1 DEF Reach, L
<1>6. \A x \in w .. Half - 1 : Reach(x)' =>
        SenderOffset(x) = L + (x - w) /\ SenderOffset(x)' = (L + l) + (x - w)
  <2> SUFFICES ASSUME NEW x \in w .. Half - 1, Reach(x)'
               PROVE  SenderOffset(x) = L + (x - w) /\ SenderOffset(x)' = (L + l) + (x - w)
    OBVIOUS
  <2>1. x \in 0 .. Half - 1
    BY <1>1
  <2>2. SenderOffset(x) = L + (x - w)
    BY <1>5, <2>1 DEF Mapped, L
  <2>3. (L + l) + (x - w) < Half
    BY <1>1 DEF Reach
  <2>4. SenderOffset(x) \in 0 .. Half - 1 /\ L <= SenderOffset(x) /\ SenderOffset(x) + l < Half
    BY <1>1, <2>2, <2>3
  <2>5. TranslateOutbound(SenderOffset(x), t) = SenderOffset(x) + l
    BY ONLY <1>1, <2>4, t.offset = Len(log), t.length = l, l \in Nat \ {0}, OutboundAt DEF L
  <2> QED BY <1>1, <1>2, <2>2, <2>5
<1>7. \A n \in 0 .. Half - 1 :
        /\ LocalAck(n)' \in Nat
        /\ \A x \in 0 .. Half - 1 : Reach(x)' => (x < LocalAck(n)' <=> SenderOffset(x)' < n)
  <2> SUFFICES ASSUME NEW n \in 0 .. Half - 1
               PROVE  /\ LocalAck(n)' \in Nat
                      /\ \A x \in 0 .. Half - 1 :
                           Reach(x)' => (x < LocalAck(n)' <=> SenderOffset(x)' < n)
    OBVIOUS
  <2> DEFINE m == TranslateInbound(n, t)
  <2>1. /\ n <= L => m = n
        /\ L < n /\ n < L + l => m = L
        /\ L + l <= n => m = n - l
    BY ONLY <1>1, n \in 0 .. Half - 1, t.offset = Len(log), t.length = l, l \in Nat \ {0},
            InboundAt DEF L
  <2> HIDE DEF m
  <2>2. m \in 0 .. Half - 1
    BY <1>1, <2>1
  <2>3. LocalAck(n)' = LocalAck(m)
    BY <1>2 DEF m
  <2>4. /\ LocalAck(m) \in Nat
        /\ \A x \in 0 .. Half - 1 : Reach(x) => (x < LocalAck(m) <=> SenderOffset(x) < m)
    BY <2>2 DEF Mapped
  <2>5. ASSUME NEW x \in 0 .. Half - 1, Reach(x)'
        PROVE  SenderOffset(x) < m <=> SenderOffset(x)' < n
    <3>1. CASE x < w
      <4>1. x \in 0 .. w - 1
        BY <1>1, <3>1
      <4>2. SenderOffset(x) \in 0 .. L - 1 /\ SenderOffset(x)' = SenderOffset(x)
        BY <1>4, <4>1
      <4> QED BY ONLY <1>1, <2>1, <4>2, n \in 0 .. Half - 1, l \in Nat
    <3>2. CASE w <= x
      <4>1. x \in w .. Half - 1
        BY <1>1, <3>2
      <4>2. SenderOffset(x) = L + (x - w) /\ SenderOffset(x)' = (L + l) + (x - w)
        BY <1>6, <2>5, <4>1
      <4> QED BY ONLY <1>1, <2>1, <4>1, <4>2, n \in 0 .. Half - 1, l \in Nat
    <3> QED BY <1>1, <3>1, <3>2
  <2> QED BY <1>5, <2>3, <2>4, <2>5
<1>8. Half' = Half /\ Len(log') = L + l /\ written' = w /\ w <= L + l
  BY <1>1 DEF Half, L
<1>9. \A x \in 0 .. w - 1 : SenderOffset(x)' \in 0 .. (L + l) - 1
  BY <1>1, <1>4
<1>10. \A x \in 0 .. w - 1 : log'[SenderOffset(x)' + 1] = <<"game", x + 1, 1>>
  BY <1>4
<1>11. \A x \in w .. Half - 1 : Reach(x)' => SenderOffset(x)' = (L + l) + (x - w)
  BY <1>6
<1>12. Mapped'
  BY <1>7, <1>8, <1>9, <1>10, <1>11 DEF Mapped
<1> QED BY <1>4, <1>12

(* What stays leaves the mapping as it is.                                   *)
LEMMA MappedStays ==
  ASSUME Mapped, UNCHANGED <<written, translators, log>>, ~translating' => translators = <<>>
  PROVE  Mapped' /\ \A x : SenderOffset(x)' = SenderOffset(x)
<1>1. \A x : SenderOffset(x)' = SenderOffset(x) /\ LocalAck(x)' = LocalAck(x)
  BY DEF SenderOffset, LocalAck
<1>2. Half' = Half /\ \A x : Reach(x)' <=> Reach(x)
  BY DEF Half, Reach
<1> QED BY <1>1, <1>2 DEF Mapped

-----------------------------------------------------------------------------
(* What the packets hold.                                                    *)

(* How the number of commands grows with the stream.                         *)
LEMMA FirstsFacts ==
  ASSUME NEW s, NEW q \in Nat
  PROVE  /\ Firsts(s, 0) = 0 /\ Firsts(s, q) \in Nat
         /\ Firsts(s, q + 1) = IF s[q + 1][3] = 1 THEN Firsts(s, q) + 1 ELSE Firsts(s, q)
         /\ \A l \in Nat : s[q + 1][3] = 1 /\ (\A j \in 2 .. l : s[q + j][3] # 1) =>
              \A j \in 1 .. l : Firsts(s, q + j) = Firsts(s, q) + 1
<1> DEFINE F(n) == {k \in 1 .. n : s[k][3] = 1}
<1>1. \A n \in Nat : /\ IsFiniteSet(F(n)) /\ Cardinality(F(n)) \in Nat
                    /\ Firsts(s, n) = Cardinality(F(n))
  <2> TAKE n \in Nat
  <2>1. IsFiniteSet(1 .. n) /\ F(n) \subseteq 1 .. n
    BY FS_Interval, n \in Int, 1 \in Int
  <2>2. IsFiniteSet(F(n))
    BY <2>1, FS_Subset
  <2> QED BY <2>2, FS_CardinalityType DEF Firsts
<1>2. Firsts(s, 0) = 0
  <2>1. F(0) = {}
    OBVIOUS
  <2> QED BY <1>1, <2>1, FS_EmptySet
<1>3. ASSUME NEW n \in Nat, n > q, s[q + 1][3] = 1, \A k \in q + 2 .. n : s[k][3] # 1
      PROVE  Firsts(s, n) = Firsts(s, q) + 1
  <2>1. F(n) = F(q) \union {q + 1} /\ q + 1 \notin F(q)
    BY <1>3
  <2> HIDE DEF F
  <2>2. Cardinality(F(q) \union {q + 1}) = Cardinality(F(q)) + 1
    BY <1>1, <2>1, FS_AddElement
  <2> QED BY <1>1, <2>1, <2>2
<1>4. Firsts(s, q + 1) = IF s[q + 1][3] = 1 THEN Firsts(s, q) + 1 ELSE Firsts(s, q)
  <2>1. CASE s[q + 1][3] = 1
    <3>1. q + 1 \in Nat /\ q + 1 > q /\ \A k \in q + 2 .. q + 1 : s[k][3] # 1
      OBVIOUS
    <3>2. Firsts(s, q + 1) = Firsts(s, q) + 1
      BY ONLY <1>3, <2>1, <3>1
    <3> QED BY <2>1, <3>2
  <2>2. CASE s[q + 1][3] # 1
    <3>1. F(q + 1) = F(q) /\ q + 1 \in Nat
      BY <2>2
    <3> HIDE DEF F
    <3>2. Firsts(s, q + 1) = Firsts(s, q)
      BY <1>1, <3>1
    <3> QED BY <2>2, <3>2
  <2> QED BY <2>1, <2>2
<1>5. ASSUME NEW l \in Nat, s[q + 1][3] = 1, \A j \in 2 .. l : s[q + j][3] # 1, NEW j \in 1 .. l
      PROVE  Firsts(s, q + j) = Firsts(s, q) + 1
  <2>1. q + j \in Nat /\ q + j > q
    OBVIOUS
  <2>2. \A k \in q + 2 .. q + j : s[k][3] # 1
    <3> SUFFICES ASSUME NEW k \in q + 2 .. q + j PROVE s[k][3] # 1
      OBVIOUS
    <3>1. k - q \in 2 .. l /\ q + (k - q) = k
      OBVIOUS
    <3> QED BY <1>5, <3>1
  <2> QED BY ONLY <1>3, <1>5, <2>1, <2>2
<1> QED BY <1>1, <1>2, <1>4, <1>5

(* What is written later changes no earlier number.                          *)
LEMMA CommandsStay ==
  ASSUME Longer
  PROVE  \A q \in 0 .. Len(log) : Commands(q)' = Commands(q)
<1> SUFFICES ASSUME NEW q \in 0 .. Len(log)
             PROVE  {k \in 1 .. q : log'[k][3] = 1} = {k \in 1 .. q : log[k][3] = 1}
  BY DEF Commands, Firsts
<1> QED BY DEF Longer

(* What was in its place stays there.                                        *)
LEMMA InPlaceStays ==
  ASSUME Longer
  PROVE  /\ \A p : p.body \in Seq(Units) /\ InPlace(p) => InPlace(p)'
         /\ \A p : p.body \in Seq(Units) /\ InPlace(p) /\ SerialsInPlace(p) => SerialsInPlace(p)'
<1>1. ASSUME NEW p, p.body \in Seq(Units), InPlace(p)
      PROVE  InPlace(p)' /\ \A i \in 1 .. Len(p.body) : p.offset + i \in 1 .. Len(log)
  <2>1. p.offset \in Nat /\ Len(p.body) \in Nat /\ p.offset + Len(p.body) <= Len(log)
    BY <1>1 DEF InPlace
  <2>2. \A i \in 1 .. Len(p.body) : p.offset + i \in 1 .. Len(log)
    BY <2>1
  <2>3. p.offset + Len(p.body) <= Len(log')
    BY <2>1 DEF Longer
  <2> QED BY <1>1, <2>1, <2>2, <2>3 DEF InPlace, Longer
<1>2. ASSUME NEW p, p.body \in Seq(Units), InPlace(p), SerialsInPlace(p)
      PROVE  SerialsInPlace(p)'
  <2>1. \A i \in 1 .. Len(p.body) : p.offset + i \in 0 .. Len(log)
    BY <1>1, <1>2
  <2>2. \A i \in 1 .. Len(p.body) : Commands(p.offset + i)' = Commands(p.offset + i)
    BY <2>1, CommandsStay
  <2> QED BY <1>2, <2>2 DEF SerialsInPlace
<1> QED BY <1>1, <1>2

\* What the worker sends on for the game's command i.
Sent(i) == IF translating THEN Translated(DataPacket(i)) ELSE DataPacket(i)

(* What the worker sends on names the command and shifts its serial.         *)
LEMMA SentTyped ==
  ASSUME StreamTypes, NEW i \in Nat \ {0}
  PROVE  /\ Sent(i) \in Packets /\ Len(Sent(i).body) = 1
         /\ NameOf(Sent(i).body[1]) = <<"game", i, 1>>
         /\ Sent(i).body[1].part = 1
         /\ Sent(i).body[1].serial = IF translating THEN i + Count ELSE i
<1> DEFINE p == DataPacket(i)
<1>1. p.offset \in Offsets /\ p.offset = (i - 1) % Modulus /\ p.ack = heard
      /\ p.body = <<GameUnit(i)>>
  BY HalfFacts DEF DataPacket
<1>2. /\ GameUnit(i) \in Units
      /\ GameUnit(i) = [owner |-> "game", number |-> i, part |-> 1, serial |-> i]
  BY DEF GameUnit, Units
<1>3. p \in Packets
  BY <1>1, <1>2 DEF Packets, DataPacket, StreamTypes, Offsets
<1>4. Count \in Nat
  BY DEF Count, StreamTypes
<1> DEFINE b == ShiftSerials(p.body)
<1>5. b \in Seq(Units) /\ Len(b) = 1 /\ b[1] = [GameUnit(i) EXCEPT !.serial = i + Count]
  BY <1>1, <1>2, <1>4 DEF ShiftSerials, Units
<1>6. Translated(p) = [offset |-> SenderOffset(p.offset), ack |-> heard, body |-> b]
  BY DEF Translated, DataPacket
<1>7. SenderOffset(p.offset) \in Offsets
  BY <1>1, TranslationsStay DEF SenderOffset, StreamTypes
<1>8. Translated(p) \in Packets
  <2> HIDE DEF b
  <2> QED BY <1>5, <1>6, <1>7 DEF Packets, Offsets, StreamTypes
<1>9. CASE translating
  <2>1. Sent(i) = Translated(p) /\ Sent(i).body = b
    BY <1>6, <1>9 DEF Sent
  <2> HIDE DEF b, p
  <2> QED BY <1>2, <1>5, <1>8, <1>9, <2>1 DEF NameOf
<1>10. CASE ~translating
  <2>1. Sent(i) = p
    BY <1>10 DEF Sent
  <2>2. Len(p.body) = 1 /\ p.body[1] = GameUnit(i)
    BY <1>1
  <2> HIDE DEF p
  <2> QED BY <1>2, <1>3, <1>10, <2>1, <2>2 DEF NameOf
<1> QED BY <1>9, <1>10 DEF StreamTypes

(* And has the offset of the command, as the translators move it.            *)
LEMMA SentOffset ==
  ASSUME StreamTypes, WithinHalf, Mapped, NEW i \in 1 .. written + 1
  PROVE  Sent(i).offset = SenderOffset(i - 1)
<1>1. i - 1 \in 0 .. Modulus - 1
  <2>1. written \in Nat /\ Len(log) \in Nat /\ written <= Len(log) /\ Len(log) < Half
    BY DEF StreamTypes, WithinHalf, Mapped
  <2>2. Half \in Nat /\ Modulus \in Nat /\ 2 * Half <= Modulus
    BY ONLY HalfFacts
  <2> QED BY <2>1, <2>2
<1>2. (i - 1) % Modulus = i - 1
  BY <1>1, HalfFacts
<1>3. CASE translating
  BY <1>2, <1>3 DEF Sent, Translated, DataPacket
<1>4. CASE ~translating
  BY <1>2, <1>4, NoTranslation DEF Sent, DataPacket, Mapped, SenderOffset
<1> QED BY <1>3, <1>4

(* The parts of the record of the armed request.                             *)
LEMMA RecordTyped ==
  ASSUME StreamTypes
  PROVE  /\ NextActorSerial \in Nat /\ Count \in Nat /\ request.length \in Nat
         /\ RequestUnits \in Seq(Units) /\ Len(RequestUnits) = request.length
         /\ \A j \in 1 .. request.length :
              /\ NameOf(RequestUnits[j]) = <<"proxy", Count + 1, j>>
              /\ RequestUnits[j].part = j /\ RequestUnits[j].serial = NextActorSerial
         /\ Names(RequestUnits) \in Seq(Parts) /\ Len(Names(RequestUnits)) = request.length
         /\ \A j \in 1 .. request.length :
              Names(RequestUnits)[j] = <<"proxy", Count + 1, j>>
<1> DEFINE l == request.length
           u == RequestUnits
<1>1. Count \in Nat /\ l \in Nat
  BY DEF StreamTypes, Count
<1>2. NextActorSerial \in Nat
  BY <1>1 DEF NextActorSerial, StreamTypes
<1> HIDE DEF l
<1>3. u = [j \in 1 .. l |-> [owner |-> "proxy", number |-> Count + 1, part |-> j,
                             serial |-> NextActorSerial]]
  BY DEF RequestUnits, l
<1>4. \A j \in 1 .. l : [owner |-> "proxy", number |-> Count + 1, part |-> j,
                         serial |-> NextActorSerial] \in Units
  BY <1>1, <1>2 DEF Units
<1> HIDE DEF u
<1>5. u \in Seq(Units) /\ Len(u) = l /\ DOMAIN u = 1 .. l
  BY <1>1, <1>3, <1>4
<1>6. \A j \in 1 .. l : u[j] = [owner |-> "proxy", number |-> Count + 1, part |-> j,
                                serial |-> NextActorSerial]
  BY <1>3
<1>7. \A j \in 1 .. l : NameOf(u[j]) = <<"proxy", Count + 1, j>>
                        /\ u[j].part = j /\ u[j].serial = NextActorSerial
  <2> TAKE j \in 1 .. l
  <2>1. /\ u[j].owner = "proxy" /\ u[j].number = Count + 1
        /\ u[j].part = j /\ u[j].serial = NextActorSerial
    <3>1. u[j] = [owner |-> "proxy", number |-> Count + 1, part |-> j,
                  serial |-> NextActorSerial]
      BY <1>6
    <3> QED BY <3>1
  <2> QED BY <2>1 DEF NameOf
<1> DEFINE m == Names(u)
<1>8. m = [j \in 1 .. l |-> <<"proxy", Count + 1, j>>]
  <2>1. m = [j \in 1 .. l |-> <<u[j].owner, u[j].number, u[j].part>>]
    BY <1>5 DEF Names
  <2>2. \A j \in 1 .. l : <<u[j].owner, u[j].number, u[j].part>> = <<"proxy", Count + 1, j>>
    BY <1>7 DEF NameOf
  <2> QED BY <2>1, <2>2
<1>9. \A j \in 1 .. l : <<"proxy", Count + 1, j>> \in Parts
  BY <1>1 DEF Parts
<1> HIDE DEF m
<1>10. m \in Seq(Parts) /\ Len(m) = l /\ \A j \in 1 .. l : m[j] = <<"proxy", Count + 1, j>>
  BY <1>1, <1>8, <1>9
<1> QED BY <1>1, <1>2, <1>5, <1>7, <1>10 DEF l, u, m

(* Each fragment is a piece of the record at the place of that piece.        *)
LEMMA FragmentFacts ==
  ASSUME StreamTypes, NEW p \in Packets, NEW q \in Fragments(p)
  PROVE  /\ q \in Packets
         /\ \E s \in 0 .. request.length - 1 :
              /\ q.offset = (SenderOffset(p.offset) + s) % Modulus
              /\ s + Len(q.body) <= request.length
              /\ \A i \in 1 .. Len(q.body) : q.body[i] = RequestUnits[s + i]
<1> DEFINE l == request.length
           u == RequestUnits
<1>1. /\ l \in Nat /\ u \in Seq(Units) /\ Len(u) = l
  BY RecordTyped
<1>2. PICK s \in {n \in 0 .. l - 1 : n % Capacity = 0} :
        q = [offset |-> (SenderOffset(p.offset) + s) % Modulus, ack |-> p.ack,
             body |-> SubSeq(u, s + 1, IF s + Capacity < l THEN s + Capacity ELSE l)]
  BY DEF Fragments
<1> HIDE DEF l, u
<1> DEFINE e == IF s + Capacity < l THEN s + Capacity ELSE l
<1>3. s \in 0 .. l - 1 /\ e \in Nat /\ e <= l /\ s + 1 <= e
  BY <1>1, <1>2, StreamAssumption
<1> HIDE DEF e
<1>4. q = [offset |-> (SenderOffset(p.offset) + s) % Modulus, ack |-> p.ack,
           body |-> SubSeq(u, s + 1, e)]
  BY <1>2 DEF e
<1>5. q.body = SubSeq(u, s + 1, e)
  BY <1>4
<1>6. /\ q.body \in Seq(Units) /\ Len(q.body) = e - s
      /\ \A i \in 1 .. e - s : q.body[i] = u[s + i]
  BY <1>1, <1>3, <1>5
<1>7. (SenderOffset(p.offset) + s) % Modulus \in Offsets
  <2>1. p.offset \in Offsets
    BY DEF Packets, Offsets
  <2>2. SenderOffset(p.offset) \in Offsets
    BY <2>1, TranslationsStay DEF SenderOffset, StreamTypes
  <2>3. SenderOffset(p.offset) + s \in Int
    BY <1>1, <1>3, <2>2, HalfFacts DEF Offsets
  <2> QED BY <2>3, HalfFacts
<1>8. q \in Packets
  BY <1>4, <1>5, <1>6, <1>7 DEF Packets, Offsets
<1>9. /\ q.offset = (SenderOffset(p.offset) + s) % Modulus
      /\ s + Len(q.body) <= l /\ s \in 0 .. l - 1
      /\ \A i \in 1 .. Len(q.body) : q.body[i] = u[s + i]
  BY <1>1, <1>3, <1>4, <1>6
<1> QED BY <1>8, <1>9 DEF l, u

-----------------------------------------------------------------------------
(* What the actions do.                                                      *)

(* The packet that may carry a record has no bytes itself.                   *)
LEMMA PureAckTyped ==
  ASSUME StreamTypes
  PROVE  PureAck \in Packets /\ PureAck.offset = written % Modulus /\ PureAck.body = <<>>
<1>1. written % Modulus \in Offsets /\ heard \in 0 .. MaxHeard /\ <<>> \in Seq(Units)
  <2>1. written \in Int /\ heard \in 0 .. MaxHeard
    BY DEF StreamTypes
  <2>2. written % Modulus \in Offsets
    BY ONLY <2>1, HalfFacts
  <2> QED BY <2>1, <2>2
<1> QED BY <1>1 DEF PureAck, Packets, Offsets

(* What writing a command changes.                                           *)
LEMMA WriteFacts ==
  ASSUME StreamTypes, Write
  PROVE  /\ written' = written + 1 /\ flight' = flight \union {Sent(written + 1)}
         /\ lastSerial' = IF translating THEN written + 1 ELSE lastSerial
         /\ log' = Append(log, <<"game", written + 1, 1>>)
         /\ Underway' = Underway \union {Sent(written + 1)}
         /\ UNCHANGED <<acked, heard, acks, lost, received, proxyVars, translating, disturbed>>
<1>1. flight' = flight \union {Sent(written + 1)}
      /\ lastSerial' = IF translating THEN written + 1 ELSE lastSerial
  BY DEF Write, Sent
<1>2. UNCHANGED <<acked, heard, acks, lost, received, proxyVars, translating, disturbed>>
  BY DEF Write
<1>3. Underway' = Underway \union {Sent(written + 1)}
  BY <1>1, <1>2 DEF Underway, proxyVars
<1> QED BY <1>1, <1>2, <1>3 DEF Write

(* What sending a command again changes.                                     *)
LEMMA ResendFacts ==
  ASSUME StreamTypes, NEW i, Retransmit(i)
  PROVE  /\ i \in 1 .. written /\ i \in Nat \ {0}
         /\ flight' = flight \union {Sent(i)}
         /\ lastSerial' = IF translating THEN i ELSE lastSerial
         /\ Underway' = Underway \union {Sent(i)}
         /\ disturbed \subseteq disturbed'
         /\ "resent" \notin disturbed' => i = written /\ Count = 0
         /\ disturbed' \subseteq disturbed \union {"resent"}
         /\ UNCHANGED <<gameVars, acks, lost, received, proxyVars, translating, log>>
<1> DEFINE p == DataPacket(i)
<1>1. i \in 1 .. written /\ i \in Nat \ {0}
  BY DEF Retransmit, StreamTypes
<1>2. /\ p.body = <<GameUnit(i)>> /\ p.body # <<>> /\ p.body[1].serial = i
      /\ Len(p.body) = 1
  BY DEF DataPacket, GameUnit
<1>3. Len(Sent(i).body) = 1 /\ Sent(i).body # <<>>
  <2>1. Len(Sent(i).body) = 1
    BY <1>1, SentTyped
  <2> QED BY <2>1
<1>4. p \notin DOMAIN carriers
  BY <1>2 DEF StreamTypes
<1>5. Outbound(p)
  BY DEF Retransmit
<1> HIDE DEF p
<1>6. /\ \/ ~translating /\ Forward(p)
         \/ translating /\ Forward(Translated(p))
      /\ lastSerial' = IF translating THEN i ELSE lastSerial
  BY <1>2, <1>4, <1>5 DEF Outbound, IsCarrier, Injectable, StreamTypes
<1>7. flight' = flight \union {Sent(i)} /\ UNCHANGED <<proxyVars, log>>
  BY <1>2, <1>3, <1>6 DEF Forward, Sent, p
<1>8. UNCHANGED <<gameVars, acks, lost, received, proxyVars, translating, log>>
  BY <1>7 DEF Retransmit
<1>9. Underway' = Underway \union {Sent(i)}
  BY <1>7 DEF Underway, proxyVars
<1>10. /\ disturbed \subseteq disturbed' /\ disturbed' \subseteq disturbed \union {"resent"}
       /\ "resent" \notin disturbed' => i = written /\ Count = 0
  <2>1. Count \in Nat
    BY RecordTyped
  <2> QED BY <1>1, <2>1 DEF Retransmit, StreamTypes
<1> QED BY <1>1, <1>6, <1>7, <1>8, <1>9, <1>10

(* What a command that is forwarded as it was changes.                       *)
LEMMA RaisedFacts ==
  ASSUME StreamTypes, NEW i \in Nat \ {0}, ForwardRaised(DataPacket(i))
  PROVE  /\ DataPacket(i) \in Packets /\ lastSerial' = i
         /\ Underway' = Underway \union {DataPacket(i)}
<1>1. /\ GameUnit(i) \in Units /\ GameUnit(i).serial = i
  BY DEF GameUnit, Units
<1>2. heard \in 0 .. MaxHeard /\ (i - 1) % Modulus \in Offsets
  <2>1. i - 1 \in Int
    OBVIOUS
  <2>2. (i - 1) % Modulus \in Offsets
    BY ONLY <2>1, HalfFacts
  <2> QED BY <2>2 DEF StreamTypes
<1>3. DataPacket(i) \in Packets /\ DataPacket(i).body = <<GameUnit(i)>>
  BY <1>1, <1>2 DEF DataPacket, Packets, Offsets
<1>4. DataPacket(i).body[1].serial = i
  BY <1>1, <1>3
<1> HIDE DEF DataPacket
<1> QED BY <1>3, <1>4 DEF ForwardRaised, Underway, proxyVars

\* The step that puts the armed request's record into the stream.
Injects ==
  /\ KeepAlive /\ translating /\ request.stage = "armed"
  /\ PureAck \notin DOMAIN carriers /\ InjectRecord(PureAck)

(* What inserting a record changes.                                          *)
LEMMA InjectFacts ==
  ASSUME StreamTypes, Injects
  PROVE  /\ Underway' = Underway \union Fragments(PureAck)
         /\ DOMAIN carriers' = DOMAIN carriers \union {PureAck}
         /\ log' = log \o Names(RequestUnits)
         /\ translators' = Append(translators, [offset |-> SenderOffset(PureAck.offset),
                                                length |-> request.length])
         /\ lastSynthetic' = NextActorSerial /\ lastSerial' = lastSerial
         /\ request' = [request EXCEPT !.stage = "injected"]
         /\ UNCHANGED <<gameVars, acks, lost, received, translating, disturbed>>
<1>1. /\ flight' = flight \union Fragments(PureAck)
      /\ carriers' = [c \in DOMAIN carriers \union {PureAck} |->
                        IF c = PureAck THEN Fragments(PureAck) ELSE carriers[c]]
  BY DEF Injects, InjectRecord
<1>2. /\ DOMAIN carriers' = DOMAIN carriers \union {PureAck}
      /\ \A c \in DOMAIN carriers : carriers'[c] = carriers[c]
      /\ carriers'[PureAck] = Fragments(PureAck)
  <2>1. PureAck \notin DOMAIN carriers
    BY DEF Injects
  <2> QED BY <1>1, <2>1
<1>3. UNION {carriers'[c] : c \in DOMAIN carriers'}
        = Fragments(PureAck) \union UNION {carriers[c] : c \in DOMAIN carriers}
  <2> DEFINE D == DOMAIN carriers
             a == PureAck
             F == Fragments(PureAck)
  <2>1. a \notin D
    BY DEF Injects
  <2>2. DOMAIN carriers' = D \union {a} /\ carriers'[a] = F
    BY <1>2
  <2>3. \A c \in D : carriers'[c] = carriers[c]
    BY <1>2
  <2> HIDE DEF D, a, F
  <2>4. \A x : x \in UNION {carriers'[c] : c \in D \union {a}} <=>
                x \in F \/ \E c \in D : x \in carriers'[c]
    BY <2>2
  <2>5. \A x : x \in UNION {carriers[c] : c \in D} <=> \E c \in D : x \in carriers[c]
    OBVIOUS
  <2>6. UNION {carriers'[c] : c \in D \union {a}} = F \union UNION {carriers[c] : c \in D}
    <3>1. \A x : x \in UNION {carriers'[c] : c \in D \union {a}} <=>
                  x \in F \/ \E c \in D : x \in carriers[c]
      BY <2>3, <2>4
    <3> DEFINE A == UNION {carriers'[c] : c \in D \union {a}}
               C == UNION {carriers[c] : c \in D}
    <3>2. \A x : x \in A <=> x \in F \/ x \in C
      BY <2>5, <3>1
    <3> HIDE DEF A, C
    <3>3. A = F \union C
      BY <3>2
    <3> QED BY <3>3 DEF A, C
  <2> QED BY <2>2, <2>6 DEF D, F
<1>4. Underway' = Underway \union Fragments(PureAck)
  <2>1. Underway' = flight' \union UNION {carriers'[c] : c \in DOMAIN carriers'}
    BY DEF Underway
  <2> QED BY <1>1, <1>3, <2>1 DEF Underway
<1>5. lastSerial' = lastSerial
  BY PureAckTyped DEF Injects, KeepAlive, Outbound
<1> QED BY <1>2, <1>4, <1>5 DEF Injects, InjectRecord, KeepAlive

\* A step that puts nothing new on its way.
Quiet ==
  /\ Underway' \subseteq Underway
  /\ DOMAIN carriers' \subseteq DOMAIN carriers
  /\ UNCHANGED <<written, translators, log, received, acked, lastSerial, lastSynthetic>>
  /\ disturbed \subseteq disturbed'

(* An acknowledgement of the game either carries a record or brings nothing  *)
(* new.                                                                      *)
LEMMA KeepAliveFacts ==
  ASSUME StreamTypes, KeepAlive
  PROVE  \/ Injects
         \/ Quiet /\ UNCHANGED <<gameVars, acks, lost, received, translating, disturbed, request>>
<1> DEFINE p == PureAck
<1>1. p.body = <<>> /\ Outbound(p)
  BY PureAckTyped DEF KeepAlive
<1>2. UNCHANGED <<gameVars, acks, lost, received, translating, armedSoFar, disturbed>>
  BY DEF KeepAlive
<1> HIDE DEF p
<1>3. lastSerial' = lastSerial
  BY <1>1 DEF Outbound
<1>4. ASSUME Forward(p) \/ Forward(Translated(p)) PROVE Quiet /\ UNCHANGED request
  <2>1. Translated(p).body = <<>>
    <3>1. ShiftSerials(p.body) = <<>>
      BY <1>1 DEF ShiftSerials
    <3> QED BY <3>1 DEF Translated
  <2>2. flight' = flight /\ UNCHANGED <<proxyVars, log>>
    BY <1>1, <1>4, <2>1 DEF Forward
  <2> QED BY <1>2, <1>3, <2>2 DEF Quiet, Underway, proxyVars, gameVars
<1>5. ASSUME IsCarrier(p), Replay(p) PROVE Quiet /\ UNCHANGED request
  <2>1. carriers[p] \subseteq UNION {carriers[c] : c \in DOMAIN carriers}
    BY <1>5 DEF IsCarrier
  <2>2. flight' = flight \union carriers[p] /\ UNCHANGED <<proxyVars, log>>
    BY <1>5 DEF Replay
  <2>3. Underway' \subseteq Underway
    BY <2>1, <2>2 DEF Underway, proxyVars
  <2> QED BY <1>2, <1>3, <2>2, <2>3 DEF Quiet, proxyVars, gameVars
<1>6. ASSUME translating, ~IsCarrier(p), Injectable(p), InjectRecord(p) PROVE Injects
  BY <1>6 DEF Injects, IsCarrier, Injectable, p
<1> QED BY <1>1, <1>2, <1>4, <1>5, <1>6 DEF Outbound, StreamTypes

(* Where sending a record raises, nothing new is on its way, or parts of a   *)
(* record that nobody knows of.                                              *)
LEMMA KeepAliveRaisedFacts ==
  ASSUME StreamTypes, KeepAliveRaised
  PROVE  /\ Quiet \/ "untranslated" \in disturbed'
         /\ disturbed \subseteq disturbed' /\ Underway' \subseteq Packets
         /\ UNCHANGED <<gameVars, acks, lost, received, proxyVars, lastSerial, translating, log>>
<1> DEFINE p == PureAck
<1>1. UNCHANGED <<gameVars, acks, lost, received, proxyVars, lastSerial, translating, log>>
  BY DEF KeepAliveRaised
<1>2. PICK new : /\ flight' = flight \union new
                 /\ \/ /\ new \subseteq UNION {carriers[c] : c \in DOMAIN carriers}
                       /\ disturbed' = disturbed
                    \/ new \subseteq Fragments(p) /\ request.stage = "armed"
                       /\ disturbed' = IF new = {} THEN disturbed
                                       ELSE disturbed \union {"untranslated"}
  <2>1. CASE ReplayRaised(p)
    <3>1. PICK g \in carriers[p] : flight' = flight \union SentBefore(g, carriers[p])
      BY <2>1 DEF ReplayRaised
    <3>2. SentBefore(g, carriers[p]) \subseteq carriers[p] /\ p \in DOMAIN carriers
      BY <2>1 DEF SentBefore, ReplayRaised, IsCarrier
    <3>3. disturbed' = disturbed
      BY <2>1 DEF ReplayRaised
    <3> QED BY <3>1, <3>2, <3>3
  <2>2. CASE InjectRaised(p)
    <3>1. PICK g \in Fragments(p) :
            /\ flight' = flight \union SentBefore(g, Fragments(p))
            /\ disturbed' = IF SentBefore(g, Fragments(p)) = {} THEN disturbed
                            ELSE disturbed \union {"untranslated"}
      BY <2>2 DEF InjectRaised
    <3>2. SentBefore(g, Fragments(p)) \subseteq Fragments(p) /\ request.stage = "armed"
      BY <2>2 DEF SentBefore, InjectRaised, Injectable
    <3> QED BY <3>1, <3>2
  <2> QED BY <2>1, <2>2 DEF KeepAliveRaised
<1> HIDE DEF p
<1>3. Underway' = Underway \union new
  BY <1>1, <1>2 DEF Underway, proxyVars
<1>4. request.stage = "armed" => Fragments(p) \subseteq Packets
  BY PureAckTyped, FragmentFacts DEF p
<1>5. new \subseteq Underway \/ new \subseteq Packets
  BY <1>2, <1>4 DEF Underway
<1>6. Underway' \subseteq Packets
  BY <1>3, <1>5 DEF StreamTypes
<1>7. Underway' \subseteq Underway \/ "untranslated" \in disturbed'
  BY <1>2, <1>3 DEF Underway
<1>8. disturbed \subseteq disturbed'
  BY <1>2
<1> QED BY <1>1, <1>6, <1>7, <1>8 DEF Quiet, gameVars, proxyVars

-----------------------------------------------------------------------------
(* Every state is well typed.                                                *)

(* What the game takes for acknowledged is a number.                         *)
LEMMA HearTyped ==
  ASSUME StreamTypes, NEW n \in Offsets, Hear(n)
  PROVE  acked' \in Nat
<1>1. n - acked \in Int
  BY HalfFacts DEF StreamTypes, Offsets
<1>2. Distance(n, acked) \in Offsets
  BY ONLY <1>1, HalfFacts DEF Distance
<1>3. \A d \in Offsets : d \in Nat
  BY HalfFacts DEF Offsets
<1> QED BY <1>2, <1>3 DEF Hear, StreamTypes

(* The types hold at the start.                                              *)
LEMMA StreamTypesInit == ASSUME StreamInit PROVE StreamTypes
<1>1. Underway = {}
  BY DEF StreamInit, Underway
<1>2. 0 \in 0 .. MaxHeard /\ <<>> \in Seq(Parts) /\ <<>> \in Seq(Units) /\ <<>> \in Seq(Translators)
  BY StreamAssumption
<1> QED BY <1>1, <1>2 DEF StreamInit, StreamTypes, Idle

(* The types hold after every step.                                          *)
LEMMA StreamTypesStep == ASSUME StreamTypes, [StreamNext]_streamVars PROVE StreamTypes'
<1>0. Parts' = Parts /\ Units' = Units /\ Translators' = Translators /\ Packets' = Packets
      /\ Offsets' = Offsets
  BY DEF Parts, Units, Translators, Packets, Offsets
<1>1. CASE Write
  <2>1. written + 1 \in Nat \ {0} /\ <<"game", written + 1, 1>> \in Parts
    BY DEF StreamTypes, Parts
  <2>2. Sent(written + 1) \in Packets
    BY <2>1, SentTyped
  <2>3. Underway' \subseteq Packets
    BY <1>1, <2>2, WriteFacts DEF StreamTypes
  <2>4. log' \in Seq(Parts)
    <3> DEFINE e == <<"game", written + 1, 1>>
    <3>1. log' = Append(log, e) /\ log \in Seq(Parts)
      BY <1>1, WriteFacts DEF StreamTypes
    <3> HIDE DEF e
    <3> QED BY <2>1, <3>1 DEF e
  <2>5. UNCHANGED <<acked, heard, acks, received, request, translators, carriers, lastSynthetic,
                    translating>>
        /\ written' \in Nat /\ lastSerial' \in Nat
    BY <1>1, <2>1, WriteFacts DEF StreamTypes, proxyVars
  <2> QED BY <1>0, <2>3, <2>4, <2>5 DEF StreamTypes
<1>2. ASSUME NEW i \in 1 .. MaxCommands, Retransmit(i) PROVE StreamTypes'
  <2>1. Sent(i) \in Packets /\ i \in Nat
    BY <1>2, ResendFacts, SentTyped
  <2>2. Underway' \subseteq Packets
    BY <1>2, <2>1, ResendFacts DEF StreamTypes
  <2> QED BY <1>0, <1>2, <2>1, <2>2, ResendFacts DEF StreamTypes, proxyVars, gameVars
<1>3. CASE KeepAlive
  <2>1. CASE Injects
    <3>1. Fragments(PureAck) \subseteq Packets
      BY PureAckTyped, FragmentFacts
    <3>2. Underway' \subseteq Packets
      BY <2>1, <3>1, InjectFacts DEF StreamTypes
    <3>3. \A c \in DOMAIN carriers' : c.body = <<>>
      BY <2>1, InjectFacts, PureAckTyped DEF StreamTypes
    <3>4. PureAck.offset \in Offsets
      BY PureAckTyped DEF Packets, Offsets
    <3>5. SenderOffset(PureAck.offset) \in Offsets
      BY <3>4, TranslationsStay DEF SenderOffset, StreamTypes
    <3>6. request.length \in Nat \ {0}
      BY <2>1 DEF Injects, StreamTypes
    <3>7. translators' \in Seq(Translators)
      <4> DEFINE t == [offset |-> SenderOffset(PureAck.offset), length |-> request.length]
      <4>1. t \in Translators
        BY <3>5, <3>6 DEF Translators
      <4>2. translators' = Append(translators, t) /\ translators \in Seq(Translators)
        BY <2>1, InjectFacts DEF StreamTypes
      <4> HIDE DEF t
      <4> QED BY <4>1, <4>2
    <3>8. log' \in Seq(Parts)
      <4> DEFINE r == Names(RequestUnits)
      <4>1. log' = log \o r /\ log \in Seq(Parts) /\ r \in Seq(Parts)
        BY <2>1, InjectFacts, RecordTyped DEF StreamTypes
      <4> HIDE DEF r
      <4> QED BY <4>1
    <3>9. /\ request' \in [stage : {"none", "armed", "injected"}, length : Nat]
          /\ request'.stage # "armed"
      BY <2>1, InjectFacts DEF StreamTypes
    <3>10. lastSerial' \in Nat /\ lastSynthetic' \in Nat
      BY <2>1, InjectFacts, RecordTyped DEF StreamTypes
    <3>11. UNCHANGED <<gameVars, acks, received, translating>>
      BY <2>1, InjectFacts
    <3> QED BY <3>2, <3>3, <3>7, <3>8, <3>9, <3>10, <3>11 DEF StreamTypes, gameVars
  <2>2. CASE Quiet /\ UNCHANGED <<gameVars, acks, lost, received, translating, disturbed, request>>
    BY <1>0, <2>2 DEF StreamTypes, Quiet, gameVars
  <2> QED BY <1>3, <2>1, <2>2, KeepAliveFacts
<1>4. CASE HearHost
  <2>1. heard' \in 0 .. MaxHeard
    BY <1>4, StreamAssumption DEF HearHost, StreamTypes
  <2>2. Underway' = Underway
    BY <1>4 DEF HearHost, Underway, netVars, proxyVars
  <2> QED BY <1>0, <1>4, <2>1, <2>2 DEF HearHost, StreamTypes, netVars, proxyVars
<1>5. ASSUME NEW n \in Offsets, Hear(n) PROVE StreamTypes'
  <2>1. Underway' = Underway
    BY <1>5 DEF Hear, Underway, netVars, proxyVars
  <2>2. acked' \in Nat
    BY <1>5, HearTyped
  <2> QED BY <1>0, <1>5, <2>1, <2>2 DEF Hear, StreamTypes, netVars, proxyVars
<1>6. ASSUME NEW a \in acks, HearAck(a) PROVE StreamTypes'
  <2>1. a \in Offsets
    BY DEF StreamTypes
  <2>2. LocalAck(a) \in Offsets
    BY <2>1, TranslationsStay DEF LocalAck, StreamTypes
  <2> QED BY <1>5, <1>6, <2>1, <2>2 DEF HearAck
<1>7. ASSUME NEW a \in acks, HearAckRaised(a) PROVE StreamTypes'
  BY <1>5, <1>7 DEF HearAckRaised, StreamTypes
<1>8. ASSUME NEW p \in flight, HostReceive(p) PROVE StreamTypes'
  <2>1. Underway' = Underway
    BY <1>8 DEF HostReceive, Underway, netVars, proxyVars
  <2>2. p.body \in Seq(Units)
    BY DEF StreamTypes, Underway, Packets
  <2>3. received' \in Seq(Units)
    BY <1>8, <2>2 DEF HostReceive, StreamTypes
  <2>4. Len(received') % Modulus \in Offsets
    BY <2>3, HalfFacts
  <2> QED BY <1>0, <1>8, <2>1, <2>3, <2>4 DEF HostReceive, StreamTypes, gameVars, proxyVars
<1>9. CASE HostRepeatsAck
  <2>1. Underway' = Underway
    BY <1>9 DEF HostRepeatsAck, Underway, netVars, proxyVars
  <2>2. Len(received) % Modulus \in Offsets
    BY HalfFacts DEF StreamTypes
  <2> QED BY <1>0, <1>9, <2>1, <2>2 DEF HostRepeatsAck, StreamTypes, gameVars, proxyVars
<1>10. CASE Lose
  <2>1. Underway' \subseteq Underway /\ acks' \subseteq acks
    BY <1>10 DEF Lose, Underway, proxyVars
  <2> QED BY <1>0, <1>10, <2>1 DEF Lose, StreamTypes, gameVars, proxyVars
<1>11. CASE Arm
  <2>1. Underway' = Underway
    BY <1>11 DEF Arm, Underway, netVars
  <2>2. /\ request' \in [stage : {"none", "armed", "injected"}, length : Nat]
        /\ request'.length # 0
    BY <1>11, StreamAssumption DEF Arm
  <2> QED BY <1>0, <1>11, <2>1, <2>2 DEF Arm, StreamTypes, gameVars, netVars
<1>12. CASE FinishRequest
  <2>1. Underway' = Underway
    BY <1>12 DEF FinishRequest, Underway, netVars
  <2> QED BY <1>0, <1>12, <2>1 DEF FinishRequest, StreamTypes, gameVars, netVars, Idle
<1>13. CASE SessionEnds
  <2>1. Underway' = Underway
    BY <1>13 DEF SessionEnds, Underway, netVars, proxyVars
  <2> QED BY <1>0, <1>13, <2>1 DEF SessionEnds, StreamTypes, gameVars, netVars, proxyVars
<1>14. CASE UNCHANGED streamVars
  BY <1>0, <1>14 DEF StreamTypes, Underway, streamVars, gameVars, netVars, proxyVars
<1>15. CASE WriteRaised
  <2>1. written + 1 \in Nat \ {0} /\ <<"game", written + 1, 1>> \in Parts
    BY DEF StreamTypes, Parts
  <2>2. ForwardRaised(DataPacket(written + 1))
    BY <1>15 DEF WriteRaised
  <2>3. Underway' \subseteq Packets /\ lastSerial' \in Nat
    BY <2>1, <2>2, RaisedFacts DEF StreamTypes
  <2>4. log' \in Seq(Parts)
    <3> DEFINE e == <<"game", written + 1, 1>>
    <3>1. log' = Append(log, e) /\ log \in Seq(Parts)
      BY <1>15 DEF WriteRaised, StreamTypes
    <3> HIDE DEF e
    <3> QED BY <2>1, <3>1 DEF e
  <2>5. UNCHANGED <<acked, heard, acks, received, request, translators, carriers, lastSynthetic,
                    translating>>
        /\ written' \in Nat
    BY <1>15, <2>1, <2>2 DEF WriteRaised, ForwardRaised, proxyVars
  <2> QED BY <1>0, <2>3, <2>4, <2>5 DEF StreamTypes
<1>16. ASSUME NEW i \in 1 .. MaxCommands, RetransmitRaised(i) PROVE StreamTypes'
  <2>1. i \in Nat \ {0} /\ ForwardRaised(DataPacket(i))
    BY <1>16 DEF RetransmitRaised
  <2>2. Underway' \subseteq Packets /\ lastSerial' \in Nat
    BY <2>1, RaisedFacts DEF StreamTypes
  <2>3. UNCHANGED <<gameVars, acks, received, proxyVars, translating, log>>
    BY <1>16, <2>1 DEF RetransmitRaised, ForwardRaised
  <2> QED BY <1>0, <2>2, <2>3 DEF StreamTypes, gameVars, proxyVars
<1>17. CASE KeepAliveRaised
  BY <1>0, <1>17, KeepAliveRaisedFacts DEF StreamTypes, gameVars, proxyVars
<1> QED
  BY <1>1, <1>2, <1>3, <1>4, <1>6, <1>7, <1>8, <1>9, <1>10, <1>11, <1>12, <1>13, <1>14,
     <1>15, <1>16, <1>17 DEF StreamNext

-----------------------------------------------------------------------------
(* The mapping, and what rests on it, across every step.                     *)

StreamParts ==
  Mapped /\ PacketsInPlace /\ ReceivedInPlace /\ AcksMapped /\ SerialsMapped

(* The stream only grows, and what is covered was covered before.            *)
LEMMA CoveredBefore ==
  ASSUME StreamTypes, [StreamNext]_streamVars
  PROVE  Longer /\ (Covered' => Covered)
<1>1. Longer /\ disturbed \subseteq disturbed'
  <2>1. ASSUME UNCHANGED log PROVE Longer
    BY <2>1 DEF Longer, StreamTypes
  <2>2. CASE Write
    <3>1. log' = Append(log, <<"game", written + 1, 1>>) /\ disturbed' = disturbed
      BY <2>2 DEF Write
    <3> QED BY <3>1 DEF Longer, StreamTypes
  <2>3. ASSUME NEW i \in 1 .. MaxCommands, Retransmit(i)
        PROVE  Longer /\ disturbed \subseteq disturbed'
    BY <2>1, <2>3, ResendFacts
  <2>4. CASE KeepAlive
    <3>1. CASE Injects
      <4> DEFINE r == Names(RequestUnits)
      <4>1. log' = log \o r /\ log \in Seq(Parts) /\ r \in Seq(Parts) /\ disturbed' = disturbed
        BY <3>1, InjectFacts, RecordTyped DEF StreamTypes
      <4> HIDE DEF r
      <4> QED BY <4>1 DEF Longer
    <3>2. CASE Quiet
      BY <2>1, <3>2 DEF Quiet
    <3> QED BY <2>4, <3>1, <3>2, KeepAliveFacts
  <2>5. ASSUME NEW a \in acks, HearAck(a) \/ HearAckRaised(a)
        PROVE  Longer /\ disturbed \subseteq disturbed'
    BY <2>1, <2>5 DEF HearAck, HearAckRaised, Hear
  <2>6. ASSUME NEW p \in flight, HostReceive(p) PROVE Longer /\ disturbed \subseteq disturbed'
    BY <2>1, <2>6 DEF HostReceive
  <2>7. ASSUME HearHost \/ HostRepeatsAck \/ Lose \/ Arm \/ FinishRequest \/ SessionEnds
        PROVE  Longer /\ disturbed \subseteq disturbed'
    BY <2>1, <2>7 DEF HearHost, HostRepeatsAck, Lose, Arm, FinishRequest, SessionEnds
  <2>8. CASE UNCHANGED streamVars
    BY <2>1, <2>8 DEF streamVars
  <2>9. CASE WriteRaised
    <3>1. log' = Append(log, <<"game", written + 1, 1>>) /\ disturbed \subseteq disturbed'
      BY <2>9 DEF WriteRaised
    <3> QED BY <3>1 DEF Longer, StreamTypes
  <2>10. ASSUME NEW i \in 1 .. MaxCommands, RetransmitRaised(i)
         PROVE  Longer /\ disturbed \subseteq disturbed'
    BY <2>1, <2>10 DEF RetransmitRaised
  <2>11. CASE KeepAliveRaised
    BY <2>1, <2>11, KeepAliveRaisedFacts
  <2> QED BY <2>2, <2>3, <2>4, <2>5, <2>6, <2>7, <2>8, <2>9, <2>10, <2>11 DEF StreamNext
<1>2. WithinHalf' => WithinHalf
  BY <1>1, HalfFacts DEF WithinHalf, Longer, Half
<1> QED BY <1>1, <1>2 DEF Covered

(* Every place of a covered stream is an offset.                             *)
LEMMA Lengths ==
  ASSUME StreamTypes, Covered, Mapped, ReceivedInPlace
  PROVE  /\ Half \in Nat /\ Modulus \in Nat /\ 2 * Half <= Modulus
         /\ written \in Nat /\ Len(received) \in Nat /\ Len(log) \in Nat
         /\ written <= Len(log) /\ Len(received) <= Len(log) /\ Len(log) < Half
         /\ \A n \in 0 .. Len(log) : n % Modulus = n
<1>1. /\ Half \in Nat /\ Modulus \in Nat /\ 2 * Half <= Modulus
      /\ written \in Nat /\ Len(received) \in Nat /\ Len(log) \in Nat
  <2>1. Half \in Nat /\ Modulus \in Nat /\ 2 * Half <= Modulus
    BY ONLY HalfFacts
  <2>2. written \in Nat /\ Len(received) \in Nat /\ Len(log) \in Nat
    BY DEF StreamTypes
  <2> QED BY <2>1, <2>2
<1>2. written <= Len(log) /\ Len(received) <= Len(log) /\ Len(log) < Half
  BY DEF Covered, WithinHalf, Mapped, ReceivedInPlace
<1>3. \A n \in 0 .. Len(log) : n \in 0 .. Modulus - 1
  BY ONLY <1>1, <1>2
<1>4. \A n \in 0 .. Len(log) : n % Modulus = n
  BY ONLY <1>3, HalfFacts
<1> QED BY <1>1, <1>2, <1>4

(* Packets under way are packets.                                            *)
LEMMA UnderwayBodies ==
  ASSUME StreamTypes, NEW p \in Underway
  PROVE  p \in Packets /\ p.body \in Seq(Units) /\ p.offset \in Offsets
BY DEF StreamTypes, Packets, Offsets

(* Packets that were under way keep their places and serials.                *)
LEMMA OldPackets ==
  ASSUME StreamTypes, Longer, PacketsInPlace
  PROVE  /\ \A p \in Underway : InPlace(p)'
         /\ (\A p \in Underway : SerialsInPlace(p)) => \A p \in Underway : SerialsInPlace(p)'
<1>1. ASSUME NEW p \in Underway PROVE InPlace(p)' /\ (SerialsInPlace(p) => SerialsInPlace(p)')
  BY UnderwayBodies, InPlaceStays DEF PacketsInPlace
<1> QED BY <1>1

(* A step that puts nothing new on its way keeps every part of the mapping.  *)
LEMMA QuietKept ==
  ASSUME StreamTypes, Covered, StreamParts, Quiet,
         acks' \subseteq acks \union {Len(received) % Modulus}, ~translating' => translators = <<>>,
         translating' => translating, translating \in BOOLEAN
  PROVE  StreamParts'
<1>1. Longer /\ Half' = Half
  BY DEF Quiet, Longer, StreamTypes, Half
<1>2. Mapped' /\ \A x : SenderOffset(x)' = SenderOffset(x)
  BY MappedStays DEF Quiet, StreamParts
<1>3. PacketsInPlace'
  BY <1>1, OldPackets DEF PacketsInPlace, StreamParts, Quiet
<1>4. ReceivedInPlace'
  <2>1. Len(received) \in 0 .. Len(log)
    BY Lengths DEF StreamParts
  <2>2. Len(received) % Modulus = Len(received)
    BY <2>1, Lengths DEF StreamParts
  <2> QED BY <2>1, <2>2 DEF Quiet, ReceivedInPlace, StreamParts
<1>5. AcksMapped'
  BY <1>2 DEF AcksMapped, Quiet, StreamParts
<1>6. SerialsMapped'
  <2> SUFFICES ASSUME "resent" \notin disturbed' PROVE SerialsMapped'
    BY DEF SerialsMapped
  <2>1. "resent" \notin disturbed
    BY DEF Quiet
  <2>2. \A p \in Underway' : SerialsInPlace(p)'
    BY <1>1, <2>1, OldPackets DEF SerialsMapped, StreamParts, Quiet
  <2>3. \A q : Commands(q)' = Commands(q)
    BY DEF Commands, Quiet
  <2> QED BY <2>1, <2>2, <2>3 DEF SerialsMapped, StreamParts, Quiet, Count
<1> QED BY <1>2, <1>3, <1>4, <1>5, <1>6 DEF StreamParts

(* An acknowledgement of the host, mapped, covers no command of the game     *)
(* that the host does not have (translate_inbound).                          *)
LEMMA LocalSound ==
  ASSUME StreamTypes, Covered, StreamParts, NEW a \in acks,
         NEW n, n = IF translating THEN LocalAck(a) ELSE a
  PROVE  n \in 0 .. written /\ \A x \in 0 .. n - 1 : SenderOffset(x) < Len(received)
<1>1. /\ Half \in Nat /\ Len(log) \in Nat /\ Len(log) < Half /\ written \in Nat
      /\ written <= Len(log) /\ Len(received) \in Nat /\ Len(received) <= Len(log)
  BY Lengths DEF StreamParts
<1>2. a \in Nat /\ a <= Len(received)
  BY HalfFacts DEF StreamTypes, Offsets, StreamParts, ReceivedInPlace
<1>3. n = LocalAck(a)
  BY NoTranslation DEF StreamParts, Mapped, LocalAck
<1>4. a \in 0 .. Half - 1
  BY <1>1, <1>2
<1>5. n \in Nat /\ \A x \in 0 .. Half - 1 : Reach(x) => (x < n <=> SenderOffset(x) < a)
  BY <1>3, <1>4 DEF StreamParts, Mapped
<1>6. Reach(written) /\ written \in 0 .. Half - 1 /\ written \in written .. Half - 1
      /\ Len(log) + (written - written) = Len(log)
  BY <1>1 DEF Reach
<1>7. SenderOffset(written) = Len(log)
  BY <1>6 DEF StreamParts, Mapped
<1>8. ~(written < n)
  BY <1>1, <1>2, <1>5, <1>6, <1>7
<1>9. ASSUME NEW x \in 0 .. n - 1 PROVE SenderOffset(x) < Len(received)
  <2>1. x < written /\ x \in 0 .. written - 1 /\ x \in 0 .. Half - 1 /\ x < n
    BY <1>1, <1>5, <1>8
  <2>2. SenderOffset(x) \in Nat
    BY <1>1, <2>1 DEF StreamParts, Mapped
  <2>3. SenderOffset(x) < a
    BY <1>5, <2>1 DEF Reach
  <2> QED BY <1>1, <1>2, <2>2, <2>3
<1> QED BY <1>1, <1>5, <1>8, <1>9

(* The game takes an acknowledgement: the only step that moves its own       *)
(* count.                                                                    *)
LEMMA HearKept ==
  ASSUME StreamTypes, Covered, StreamParts, NEW n, Hear(n), disturbed \subseteq disturbed',
         "raised" \notin disturbed' =>
           n \in 0 .. written /\ \A x \in 0 .. n - 1 : SenderOffset(x) < Len(received)
  PROVE  StreamParts'
<1>1. /\ UNCHANGED <<written, translators, log, received, lastSerial, lastSynthetic, translating,
                     acks, carriers>>
      /\ Underway' = Underway /\ Half' = Half
  BY DEF Hear, netVars, proxyVars, Underway, Half
<1>2. Longer
  BY <1>1 DEF Longer, StreamTypes
<1>3. Mapped' /\ \A x : SenderOffset(x)' = SenderOffset(x)
  BY <1>1, MappedStays DEF StreamParts, Mapped
<1>4. PacketsInPlace'
  BY <1>1, <1>2, OldPackets DEF PacketsInPlace, StreamParts
<1>5. ReceivedInPlace'
  BY <1>1 DEF ReceivedInPlace, StreamParts
<1>6. AcksMapped'
  <2> SUFFICES ASSUME "raised" \notin disturbed' PROVE AcksMapped'
    BY DEF AcksMapped
  <2>1. /\ acked \in Nat /\ acked <= written
        /\ \A x \in 0 .. acked - 1 : SenderOffset(x) < Len(received)
    BY DEF AcksMapped, StreamParts, StreamTypes
  <2>2. n \in 0 .. written /\ \A x \in 0 .. n - 1 : SenderOffset(x) < Len(received)
    OBVIOUS
  <2>3. n \in 0 .. Half /\ acked \in 0 .. Half
    <3>1. written \in Nat /\ Half \in Nat /\ written < Half
      BY Lengths DEF StreamParts
    <3> QED BY <2>1, <2>2, <3>1
  <2>4. acked' \in {n, acked}
    <3>1. CASE acked <= n
      <4>1. Distance(n, acked) = n - acked
        BY ONLY <2>3, <3>1, DistanceFacts
      <4> QED BY <2>3, <4>1, HalfFacts DEF Hear
    <3>2. CASE n < acked
      <4>1. Distance(n, acked) >= Half
        BY ONLY <2>3, <3>2, DistanceFacts
      <4>2. n - acked \in Int
        BY ONLY <2>3, HalfFacts
      <4>3. Distance(n, acked) \in Offsets
        BY ONLY <4>2, HalfFacts DEF Distance
      <4>4. ~(Distance(n, acked) < Half)
        <5>1. \A d \in Offsets : d >= Half => ~(d < Half)
          BY HalfFacts DEF Offsets
        <5> QED BY <4>1, <4>3, <5>1
      <4> QED BY <4>4 DEF Hear
    <3> QED BY <2>3, <3>1, <3>2, HalfFacts
  <2>5. acked' <= written /\ \A x \in 0 .. acked' - 1 : SenderOffset(x) < Len(received)
    <3>1. n <= written
      BY <2>2, Lengths DEF StreamParts
    <3>2. CASE acked' = n
      BY <2>2, <3>1, <3>2
    <3>3. CASE acked' = acked
      BY <2>1, <3>3
    <3> QED BY <2>4, <3>2, <3>3
  <2> QED BY <1>1, <1>3, <2>5 DEF AcksMapped
<1>7. SerialsMapped'
  <2> SUFFICES ASSUME "resent" \notin disturbed' PROVE SerialsMapped'
    BY DEF SerialsMapped
  <2>1. "resent" \notin disturbed
    OBVIOUS
  <2>2. \A p \in Underway' : SerialsInPlace(p)'
    BY <1>1, <1>2, <2>1, OldPackets DEF SerialsMapped, StreamParts
  <2>3. \A q : Commands(q)' = Commands(q)
    BY <1>1 DEF Commands
  <2> QED BY <1>1, <2>1, <2>2, <2>3 DEF SerialsMapped, StreamParts, Count
<1> QED BY <1>3, <1>4, <1>5, <1>6, <1>7 DEF StreamParts

(* The host takes the packet that fits, at its place.                        *)
LEMMA ReceiveKept ==
  ASSUME StreamTypes, Covered, StreamParts, NEW p \in flight, HostReceive(p)
  PROVE  StreamParts'
<1> DEFINE R == Len(received)
           b == p.body
<1>1. /\ UNCHANGED <<written, acked, translators, log, lastSerial, lastSynthetic, translating,
                     carriers, disturbed>>
      /\ Underway' = Underway /\ Half' = Half
  BY DEF HostReceive, gameVars, proxyVars, Underway, Half
<1>2. Longer
  BY <1>1 DEF Longer, StreamTypes
<1>3. Mapped' /\ \A x : SenderOffset(x)' = SenderOffset(x)
  BY <1>1, MappedStays DEF StreamParts, Mapped
<1>4. PacketsInPlace'
  BY <1>1, <1>2, OldPackets DEF PacketsInPlace, StreamParts
<1>5. p \in Underway /\ b \in Seq(Units)
  <2>1. p \in Underway
    BY DEF Underway
  <2> QED BY <2>1, UnderwayBodies
<1>6. /\ R \in Nat /\ Len(log) \in Nat /\ R <= Len(log) /\ Len(log) \in 0 .. Modulus - 1
  <2>1. /\ R \in Nat /\ Len(log) \in Nat /\ R <= Len(log) /\ Len(log) < Half
        /\ Half \in Nat /\ Modulus \in Nat /\ 2 * Half <= Modulus
    BY Lengths DEF StreamParts
  <2> QED BY <2>1
<1>7. p.offset = R
  <2>1. R \in 0 .. Modulus - 1
    BY <1>6, HalfFacts
  <2> QED BY <2>1, HalfFacts DEF HostReceive
<1>8. /\ R + Len(b) <= Len(log) /\ \A i \in 1 .. Len(b) : NameOf(b[i]) = log[R + i]
  BY <1>5, <1>7 DEF StreamParts, PacketsInPlace, InPlace
<1>9. /\ received' = received \o b /\ received \in Seq(Units)
      /\ acks' = acks \union {Len(received') % Modulus}
  BY DEF HostReceive, StreamTypes
<1> HIDE DEF b
<1>10. Len(received') = R + Len(b) /\ Len(b) \in Nat
  BY <1>5, <1>9
<1>11. /\ \A j \in 1 .. R : received'[j] = received[j]
       /\ \A i \in 1 .. Len(b) : received'[R + i] = b[i]
  BY <1>5, <1>9
<1>12. \A j \in R + 1 .. R + Len(b) : j - R \in 1 .. Len(b) /\ received'[j] = b[j - R]
                                      /\ R + (j - R) = j
  <2> TAKE j \in R + 1 .. R + Len(b)
  <2>1. j - R \in 1 .. Len(b) /\ R + (j - R) = j
    BY <1>6, <1>10
  <2> QED BY <1>11, <2>1
<1> HIDE DEF R
<1>13. ReceivedInPlace'
  <2>1. \A j \in 1 .. R : NameOf(received[j]) = log[j]
    BY DEF StreamParts, ReceivedInPlace, R
  <2>2. \A j \in 1 .. R : NameOf(received'[j]) = log[j]
    BY <1>11, <2>1
  <2>3. \A j \in R + 1 .. R + Len(b) : NameOf(received'[j]) = log[j]
    BY <1>8, <1>12
  <2>4. \A j \in 1 .. R + Len(b) : j \in 1 .. R \/ j \in R + 1 .. R + Len(b)
    BY <1>6, <1>10
  <2>5. \A j \in 1 .. R + Len(b) : NameOf(received'[j]) = log[j]
    BY <2>2, <2>3, <2>4
  <2>6. R + Len(b) \in 0 .. Modulus - 1
    BY <1>6, <1>8, <1>10, StreamAssumption
  <2>7. Len(received') % Modulus = R + Len(b)
    BY <1>10, <2>6, HalfFacts
  <2>8. \A a \in acks : a \in Nat /\ a <= R
    BY HalfFacts DEF StreamParts, ReceivedInPlace, StreamTypes, Offsets, R
  <2>9. \A a \in acks' : a <= R + Len(b)
    BY <1>6, <1>9, <1>10, <2>6, <2>7, <2>8
  <2> QED BY <1>1, <1>8, <1>10, <2>5, <2>9 DEF ReceivedInPlace
<1>14. AcksMapped'
  <2> SUFFICES ASSUME "raised" \notin disturbed PROVE AcksMapped'
    BY <1>1 DEF AcksMapped
  <2>1. /\ acked <= written
        /\ \A x \in 0 .. acked - 1 : SenderOffset(x) \in Nat /\ SenderOffset(x) < R
    BY DEF AcksMapped, StreamParts, Mapped, StreamTypes, R
  <2>2. \A x \in 0 .. acked - 1 : SenderOffset(x) < R + Len(b)
    BY <1>6, <1>10, <2>1
  <2> QED BY <1>1, <1>3, <1>10, <2>1, <2>2 DEF AcksMapped
<1>15. SerialsMapped'
  <2> SUFFICES ASSUME "resent" \notin disturbed PROVE SerialsMapped'
    BY <1>1 DEF SerialsMapped
  <2>1. \A q \in Underway' : SerialsInPlace(q)'
    BY <1>1, <1>2, OldPackets DEF SerialsMapped, StreamParts
  <2>2. \A q : Commands(q)' = Commands(q)
    BY <1>1 DEF Commands
  <2>3. \A j \in 1 .. R : received'[j].part = 1 => received'[j].serial = Commands(j)
    BY <1>11 DEF SerialsMapped, StreamParts, R
  <2>4. \A j \in R + 1 .. R + Len(b) : received'[j].part = 1 => received'[j].serial = Commands(j)
    <3>1. SerialsInPlace(p)
      BY <1>5 DEF SerialsMapped, StreamParts
    <3>2. \A i \in 1 .. Len(b) : b[i].part = 1 => b[i].serial = Commands(R + i)
      BY <1>7, <3>1 DEF SerialsInPlace, b
    <3> QED BY <1>12, <3>2
  <2>5. \A j \in 1 .. R + Len(b) : j \in 1 .. R \/ j \in R + 1 .. R + Len(b)
    BY <1>6, <1>10
  <2>6. \A j \in 1 .. Len(received') : received'[j].part = 1 => received'[j].serial = Commands(j)
    BY <1>10, <2>3, <2>4, <2>5
  <2> QED BY <1>1, <2>1, <2>2, <2>6 DEF SerialsMapped, StreamParts, Count
<1> QED BY <1>3, <1>4, <1>13, <1>14, <1>15 DEF StreamParts

(* What the host has keeps its place when the stream grows.                  *)
LEMMA ReceivedStays ==
  ASSUME StreamTypes, Covered, StreamParts, Longer
  PROVE  /\ Len(received) <= Len(log')
         /\ \A j \in 1 .. Len(received) : j \in 1 .. Len(log) /\ log'[j] = log[j]
<1>1. /\ Len(received) \in Nat /\ Len(log) \in Nat /\ Len(received) <= Len(log)
  BY Lengths DEF StreamParts
<1>2. /\ Len(log') \in Nat /\ Len(log) <= Len(log')
      /\ \A k \in 1 .. Len(log) : log'[k] = log[k]
  BY DEF Longer
<1> QED BY ONLY <1>1, <1>2

(* A command of the game on its way leaves the rest in its place.            *)
LEMMA GameStep ==
  ASSUME StreamTypes, Covered, StreamParts, Longer, NEW q, Underway' = Underway \union {q},
         Mapped', \A x \in 0 .. written - 1 : SenderOffset(x)' = SenderOffset(x),
         written <= written', written' \in Nat, InPlace(q)', UNCHANGED <<received, acks, acked>>,
         disturbed \subseteq disturbed'
  PROVE  PacketsInPlace' /\ ReceivedInPlace' /\ AcksMapped'
<1>1. PacketsInPlace'
  BY OldPackets DEF PacketsInPlace, StreamParts
<1>2. ReceivedInPlace'
  <2>1. /\ Len(received) <= Len(log')
        /\ \A j \in 1 .. Len(received) : j \in 1 .. Len(log) /\ log'[j] = log[j]
    BY ReceivedStays
  <2>2. ReceivedInPlace
    BY DEF StreamParts
  <2> QED BY <2>1, <2>2 DEF ReceivedInPlace
<1>3. AcksMapped'
  <2> SUFFICES ASSUME "raised" \notin disturbed PROVE AcksMapped'
    BY DEF AcksMapped
  <2>1. acked <= written /\ \A x \in 0 .. acked - 1 : SenderOffset(x) < Len(received)
    BY DEF AcksMapped, StreamParts
  <2>2. \A x \in 0 .. acked - 1 : x \in 0 .. written - 1
    BY <2>1 DEF StreamTypes
  <2>3. acked <= written'
    BY <2>1 DEF StreamTypes
  <2> QED BY <2>1, <2>2, <2>3 DEF AcksMapped
<1> QED BY <1>1, <1>2, <1>3

(* A command of the game goes out with the place and the serial it has.      *)
LEMMA WriteKept ==
  ASSUME StreamTypes, Covered, Covered', StreamParts, Longer, Write
  PROVE  StreamParts'
<1>a. PICK L : L = Len(log)
  OBVIOUS
<1>b. PICK q : q = Sent(written + 1)
  OBVIOUS
<1>1. L \in Nat /\ written \in Nat /\ L < Half /\ Half \in Nat /\ written <= L
  BY <1>a, Lengths DEF StreamParts
<1>2. /\ written' = written + 1 /\ log' = Append(log, <<"game", written + 1, 1>>)
      /\ Underway' = Underway \union {q}
      /\ lastSerial' = IF translating THEN written + 1 ELSE lastSerial
      /\ UNCHANGED <<acked, acks, received, translators, lastSynthetic, translating, disturbed>>
  BY <1>b, WriteFacts DEF proxyVars
<1>3. Mapped'
  BY <1>2, MappedWrite DEF Covered, StreamParts
<1>4. \A x : SenderOffset(x)' = SenderOffset(x)
  BY <1>2 DEF SenderOffset
<1>5. Len(log') = L + 1 /\ log'[L + 1] = <<"game", written + 1, 1>>
  BY <1>a, <1>1, <1>2 DEF StreamTypes
<1>6. q.offset = L
  <2>1. written + 1 \in 1 .. written + 1 /\ (written + 1) - 1 = written
    BY <1>1
  <2>2. q.offset = SenderOffset(written)
    BY <1>b, <2>1, SentOffset DEF Covered, StreamParts
  <2>3. written \in written .. Half - 1 /\ Reach(written) /\ L + (written - written) = L
    BY <1>a, <1>1 DEF Reach
  <2>4. SenderOffset(written) = L
    BY <1>a, <2>3 DEF Mapped, StreamParts
  <2> QED BY <2>2, <2>4
<1>7. /\ Len(q.body) = 1 /\ NameOf(q.body[1]) = <<"game", written + 1, 1>>
      /\ q.body[1].part = 1
      /\ q.body[1].serial = IF translating THEN (written + 1) + Count ELSE written + 1
  <2>1. written + 1 \in Nat \ {0}
    BY <1>1
  <2> QED BY <1>b, <2>1, SentTyped
<1>8. InPlace(q)'
  <2>1. \A i \in 1 .. Len(q.body) : i = 1
    BY <1>7
  <2>2. Len(q.body) = 1 /\ NameOf(q.body[1]) = log'[q.offset + 1]
    BY <1>5, <1>6, <1>7
  <2>3. q.offset \in Nat /\ q.offset + Len(q.body) <= Len(log')
    BY <1>1, <1>5, <1>6, <2>2
  <2> QED BY <2>1, <2>2, <2>3 DEF InPlace
<1>9. PacketsInPlace' /\ ReceivedInPlace' /\ AcksMapped'
  <2>1. written <= written' /\ written' \in Nat
    BY <1>1, <1>2
  <2> QED BY <1>2, <1>3, <1>4, <1>8, <2>1, GameStep
<1>10. SerialsMapped'
  <2> SUFFICES ASSUME "resent" \notin disturbed PROVE SerialsMapped'
    BY <1>2 DEF SerialsMapped
  <2>1. Count' = Count /\ Count \in Nat /\ written + Count = Commands(L)
    BY <1>a, <1>2, RecordTyped DEF SerialsMapped, StreamParts, Count
  <2>2. L \in 0 .. Len(log) /\ Commands(L)' = Commands(L)
    BY <1>a, <1>1, CommandsStay
  <2>3. Firsts(log', L + 1) = Firsts(log', L) + 1
    <3>1. log'[L + 1][3] = 1
      BY <1>5
    <3> QED BY <1>1, <3>1, FirstsFacts
  <2>4. Commands(L + 1)' = (written + 1) + Count
    BY <1>1, <2>1, <2>2, <2>3 DEF Commands
  <2>5. q.body[1].serial = (written + 1) + Count
    <3>1. ~translating => Count = 0
      BY DEF StreamParts, Mapped, Count
    <3> QED BY <1>1, <1>7, <3>1
  <2>6. SerialsInPlace(q)'
    <3>1. \A i \in 1 .. Len(q.body) : i = 1
      BY <1>7
    <3> QED BY <1>6, <2>4, <2>5, <3>1 DEF SerialsInPlace
  <2>7. \A p \in Underway' : SerialsInPlace(p)'
    BY <1>2, <2>6, OldPackets DEF SerialsMapped, StreamParts
  <2>8. \A j \in 1 .. Len(received) : Commands(j)' = Commands(j)
    BY Lengths, CommandsStay DEF StreamParts
  <2>9. \A j \in 1 .. Len(received') :
          received'[j].part = 1 => received'[j].serial = Commands(j)'
    BY <1>2, <2>8 DEF SerialsMapped, StreamParts
  <2>10. (translating' => lastSerial' = written') /\ lastSynthetic' <= written' + Count'
    <3>1. lastSynthetic <= written + Count /\ lastSynthetic \in Nat
      BY DEF SerialsMapped, StreamParts, StreamTypes
    <3>2. translating' => lastSerial' = written'
      BY <1>2
    <3>3. written' = written + 1 /\ Count' = Count /\ lastSynthetic' = lastSynthetic
      BY <1>2, <2>1
    <3> QED BY <1>1, <2>1, <3>1, <3>2, <3>3
  <2>11. written' + Count' = Commands(Len(log))'
    <3>1. written' = written + 1 /\ Len(log') = L + 1 /\ Count' = Count
      BY <1>2, <1>5, <2>1
    <3>2. Commands(Len(log))' = Firsts(log', Len(log'))
      BY DEF Commands
    <3> QED BY <2>4, <3>1, <3>2 DEF Commands
  <2> QED BY <2>7, <2>9, <2>10, <2>11 DEF SerialsMapped
<1> QED BY <1>3, <1>9, <1>10 DEF StreamParts

(* A command sent again goes to the place it has.                            *)
LEMMA ResendKept ==
  ASSUME StreamTypes, Covered, Covered', StreamParts, Longer, NEW i, Retransmit(i)
  PROVE  StreamParts'
<1>b. PICK q : q = Sent(i)
  OBVIOUS
<1>1. /\ i \in 1 .. written /\ i \in Nat \ {0} /\ Underway' = Underway \union {q}
      /\ lastSerial' = IF translating THEN i ELSE lastSerial
      /\ UNCHANGED <<written, acked, acks, received, translators, lastSynthetic, translating, log>>
      /\ disturbed \subseteq disturbed'
      /\ "resent" \notin disturbed' => i = written /\ Count = 0
  BY <1>b, ResendFacts DEF proxyVars, gameVars
<1>2. Mapped' /\ \A x : SenderOffset(x)' = SenderOffset(x)
  BY <1>1, MappedStays DEF StreamParts, Mapped
<1>3. /\ Len(q.body) = 1 /\ NameOf(q.body[1]) = <<"game", i, 1>> /\ q.body[1].part = 1
      /\ q.body[1].serial = IF translating THEN i + Count ELSE i
  BY <1>b, <1>1, SentTyped
<1>4. i - 1 \in 0 .. written - 1 /\ written \in Nat /\ (i - 1) + 1 = i
  BY <1>1 DEF StreamTypes
<1>5. q.offset = SenderOffset(i - 1)
  <2>1. i \in 1 .. written + 1
    BY <1>1, <1>4
  <2> QED BY <1>b, <2>1, SentOffset DEF Covered, StreamParts
<1>6. q.offset \in 0 .. Len(log) - 1 /\ log[q.offset + 1] = <<"game", i, 1>>
  BY <1>4, <1>5 DEF StreamParts, Mapped
<1>7. InPlace(q)'
  <2>1. \A j \in 1 .. Len(q.body) : j = 1
    BY <1>3
  <2>2. Len(q.body) = 1 /\ NameOf(q.body[1]) = log'[q.offset + 1]
    BY <1>1, <1>3, <1>6
  <2>3. q.offset \in Nat /\ q.offset + Len(q.body) <= Len(log')
    <3>1. Len(log) \in Nat /\ Len(log') = Len(log)
      BY <1>1, Lengths DEF StreamParts
    <3> QED BY ONLY <1>6, <2>2, <3>1
  <2> QED BY <2>1, <2>2, <2>3 DEF InPlace
<1>8. PacketsInPlace' /\ ReceivedInPlace' /\ AcksMapped'
  <2>1. written <= written' /\ written' \in Nat
    BY <1>1, <1>4
  <2> QED BY <1>1, <1>2, <1>7, <2>1, GameStep
<1>9. SerialsMapped'
  <2> SUFFICES ASSUME "resent" \notin disturbed' PROVE SerialsMapped'
    BY DEF SerialsMapped
  <2>1. i = written /\ Count = 0 /\ "resent" \notin disturbed
    BY <1>1
  <2>2. q.offset = written - 1 /\ Commands(written) = written
    <3>1. translators = <<>>
      BY <2>1 DEF Count, StreamTypes
    <3>2. \A x : SenderOffset(x) = x
      BY <3>1, NoTranslation DEF SenderOffset
    <3>3. Len(log) = written
      <4>1. written \in written .. Half - 1 /\ Reach(written)
            /\ Len(log) + (written - written) = Len(log)
        <5>1. Half \in Nat /\ written \in Nat /\ Len(log) \in Nat
              /\ written <= Len(log) /\ Len(log) < Half
          BY Lengths DEF StreamParts
        <5> QED BY ONLY <5>1 DEF Reach
      <4>2. SenderOffset(written) = Len(log)
        BY <4>1 DEF StreamParts, Mapped
      <4> QED BY <3>2, <4>2
    <3>4. written + Count = Commands(Len(log))
      BY <2>1 DEF SerialsMapped, StreamParts
    <3> QED BY <1>4, <1>5, <2>1, <3>2, <3>3, <3>4
  <2>3. \A k : Commands(k)' = Commands(k)
    BY <1>1 DEF Commands
  <2>4. SerialsInPlace(q)'
    <3>1. \A j \in 1 .. Len(q.body) : j = 1
      BY <1>3
    <3>2. q.body[1].serial = written /\ q.offset + 1 = written
      BY <1>3, <1>4, <2>1, <2>2
    <3> QED BY <2>2, <2>3, <3>1, <3>2 DEF SerialsInPlace
  <2>5. \A p \in Underway' : SerialsInPlace(p)'
    BY <1>1, <2>1, <2>4, OldPackets DEF SerialsMapped, StreamParts
  <2> QED BY <1>1, <2>1, <2>3, <2>5 DEF SerialsMapped, StreamParts, Count
<1> QED BY <1>2, <1>8, <1>9 DEF StreamParts

(* A record goes out whole, at the end of the stream and with the next       *)
(* serial (inject_at_packet_boundary, next_actor_serial).                    *)
LEMMA InjectKept ==
  ASSUME StreamTypes, Covered, Covered', StreamParts, Longer, Injects
  PROVE  StreamParts'
<1>a. PICK L : L = Len(log)
  OBVIOUS
<1>b. PICK l : l = request.length
  OBVIOUS
<1>c. PICK r : r = Names(RequestUnits)
  OBVIOUS
<1>d. PICK t : t = [offset |-> SenderOffset(PureAck.offset), length |-> l]
  OBVIOUS
<1>1. /\ L \in Nat /\ written \in Nat /\ L < Half /\ Half \in Nat /\ written <= L
      /\ Modulus \in Nat /\ 2 * Half <= Modulus /\ written % Modulus = written
  <2>1. written \in 0 .. Len(log)
    BY Lengths DEF StreamParts
  <2> QED BY <1>a, <2>1, Lengths DEF StreamParts
<1>2. /\ Underway' = Underway \union Fragments(PureAck)
      /\ log' = log \o r /\ translators' = Append(translators, t)
      /\ lastSynthetic' = NextActorSerial /\ lastSerial' = lastSerial
      /\ UNCHANGED <<written, acked, heard, acks, received, translating, disturbed>>
  BY <1>b, <1>c, <1>d, InjectFacts DEF gameVars
<1>3. PureAck \in Packets /\ PureAck.offset = written
  BY <1>1, PureAckTyped
<1>4. SenderOffset(written) = L
  <2>1. written \in written .. Half - 1 /\ Reach(written) /\ L + (written - written) = L
    BY <1>a, <1>1 DEF Reach
  <2> QED BY <1>a, <2>1 DEF Mapped, StreamParts
<1>5. l \in Nat \ {0} /\ translating
  BY <1>b DEF Injects, StreamTypes
<1>6. r \in Seq(Parts) /\ Len(r) = l /\ \A j \in 1 .. l : r[j] = <<"proxy", Count + 1, j>>
  BY <1>b, <1>c, RecordTyped
<1>7. Len(log') = L + l /\ \A j \in 1 .. l : log'[L + j] = <<"proxy", Count + 1, j>>
  <2>1. log \in Seq(Parts)
    BY DEF StreamTypes
  <2>2. log' = log \o r
    BY <1>2
  <2> QED BY <1>a, <1>5, <1>6, <2>1, <2>2
<1>8. t \in Translators /\ t.offset = L /\ t.length = l
  BY <1>d, <1>1, <1>3, <1>4, <1>5 DEF Translators, Offsets
<1>9. Mapped' /\ \A x \in 0 .. written - 1 : SenderOffset(x)' = SenderOffset(x)
  BY <1>a, <1>2, <1>5, <1>7, <1>8, MappedInject DEF Covered, StreamParts
<1>10. L + l < Half
  BY <1>7 DEF Covered, WithinHalf, Half
<1>11. ASSUME NEW q \in Fragments(PureAck)
       PROVE  /\ InPlace(q)'
              /\ q.body \in Seq(Units)
              /\ \E s \in 0 .. l - 1 :
                   /\ q.offset = L + s /\ s + Len(q.body) <= l
                   /\ \A i \in 1 .. Len(q.body) : q.body[i] = RequestUnits[s + i]
  <2>1. PICK s \in 0 .. l - 1 :
          /\ q.offset = (L + s) % Modulus /\ s + Len(q.body) <= l
          /\ \A i \in 1 .. Len(q.body) : q.body[i] = RequestUnits[s + i]
    BY <1>b, <1>3, <1>4, FragmentFacts
  <2>2. q.body \in Seq(Units) /\ Len(q.body) \in Nat
    <3>1. q \in Packets
      BY <1>3, FragmentFacts
    <3> QED BY <3>1 DEF Packets
  <2>3. q.offset = L + s
    <3>1. L + s \in 0 .. Modulus - 1
      BY <1>1, <1>5, <1>10
    <3> QED BY <2>1, <3>1, HalfFacts
  <2>4. \A i \in 1 .. Len(q.body) : NameOf(q.body[i]) = log'[q.offset + i]
    <3> TAKE i \in 1 .. Len(q.body)
    <3>1. s + i \in 1 .. l /\ q.offset + i = L + (s + i)
      <4>1. s \in Nat /\ s + Len(q.body) <= l /\ i \in Nat /\ 1 <= i /\ i <= Len(q.body)
        BY <1>5, <2>1, <2>2
      <4> QED BY ONLY <1>1, <1>5, <2>2, <2>3, <4>1
    <3>2. NameOf(RequestUnits[s + i]) = <<"proxy", Count + 1, s + i>>
      BY <1>b, <3>1, RecordTyped
    <3>3. NameOf(q.body[i]) = <<"proxy", Count + 1, s + i>>
      BY <2>1, <3>2
    <3> QED BY <1>7, <3>1, <3>3
  <2>5. q.offset \in Nat /\ q.offset + Len(q.body) <= Len(log')
    BY <1>1, <1>5, <1>7, <2>1, <2>2, <2>3
  <2> QED BY <2>1, <2>2, <2>3, <2>4, <2>5 DEF InPlace
<1>12. PacketsInPlace'
  BY <1>2, <1>11, OldPackets DEF PacketsInPlace, StreamParts
<1>13. ReceivedInPlace'
  <2>1. /\ Len(received) <= Len(log')
        /\ \A j \in 1 .. Len(received) : j \in 1 .. Len(log) /\ log'[j] = log[j]
    BY ReceivedStays
  <2>2. ReceivedInPlace
    BY DEF StreamParts
  <2> QED BY <1>2, <2>1, <2>2 DEF ReceivedInPlace
<1>14. AcksMapped'
  <2> SUFFICES ASSUME "raised" \notin disturbed PROVE AcksMapped'
    BY <1>2 DEF AcksMapped
  <2>1. acked <= written /\ \A x \in 0 .. acked - 1 : SenderOffset(x) < Len(received)
    BY DEF AcksMapped, StreamParts
  <2>2. \A x \in 0 .. acked - 1 : x \in 0 .. written - 1
    BY <2>1 DEF StreamTypes
  <2> QED BY <1>2, <1>9, <2>1, <2>2 DEF AcksMapped
<1>15. SerialsMapped'
  <2> SUFFICES ASSUME "resent" \notin disturbed PROVE SerialsMapped'
    BY <1>2 DEF SerialsMapped
  <2>1. /\ Count \in Nat /\ Count' = Count + 1 /\ written + Count = Commands(L)
        /\ lastSerial = written /\ lastSynthetic <= written + Count /\ lastSynthetic \in Nat
    <3>1. translators \in Seq(Translators)
      BY DEF StreamTypes
    <3>2. Len(translators') = Len(translators) + 1 /\ Len(translators) \in Nat
      BY <1>2, <3>1
    <3> QED BY <1>a, <1>5, <3>2 DEF SerialsMapped, StreamParts, StreamTypes, Count
  <2>2. NextActorSerial = (written + Count) + 1
    BY <1>1, <2>1 DEF NextActorSerial
  <2>3. L \in 0 .. Len(log) /\ Commands(L)' = Commands(L)
    BY <1>a, <1>1, CommandsStay
  <2>4. \A j \in 1 .. l : Commands(L + j)' = (written + Count) + 1
    <3>1. log'[L + 1][3] = 1 /\ \A j \in 2 .. l : log'[L + j][3] # 1
      BY <1>5, <1>7
    <3>2. \A j \in 1 .. l : Firsts(log', L + j) = Firsts(log', L) + 1
      BY <1>1, <1>5, <3>1, FirstsFacts
    <3> QED BY <2>1, <2>3, <3>2 DEF Commands
  <2>5. \A q \in Fragments(PureAck) : SerialsInPlace(q)'
    <3> TAKE q \in Fragments(PureAck)
    <3>1. q.body \in Seq(Units) /\ Len(q.body) \in Nat
      BY <1>11
    <3>2. PICK s \in 0 .. l - 1 :
            /\ q.offset = L + s /\ s + Len(q.body) <= l
            /\ \A i \in 1 .. Len(q.body) : q.body[i] = RequestUnits[s + i]
      BY <1>11
    <3>3. \A i \in 1 .. Len(q.body) : s + i \in 1 .. l /\ q.offset + i = L + (s + i)
      BY <1>1, <1>5, <3>1, <3>2
    <3>4. \A i \in 1 .. Len(q.body) : q.body[i].serial = NextActorSerial
      <4>1. \A j \in 1 .. l : RequestUnits[j].serial = NextActorSerial
        BY <1>b, RecordTyped
      <4> QED BY <3>2, <3>3, <4>1
    <3> QED BY <2>2, <2>4, <3>3, <3>4 DEF SerialsInPlace
  <2>6. \A p \in Underway' : SerialsInPlace(p)'
    BY <1>2, <2>5, OldPackets DEF SerialsMapped, StreamParts
  <2>7. \A j \in 1 .. Len(received) : Commands(j)' = Commands(j)
    BY Lengths, CommandsStay DEF StreamParts
  <2>8. \A j \in 1 .. Len(received') :
          received'[j].part = 1 => received'[j].serial = Commands(j)'
    BY <1>2, <2>7 DEF SerialsMapped, StreamParts
  <2>9. written' + Count' = Commands(Len(log))'
    <3>1. l \in 1 .. l
      BY <1>5
    <3>2. Firsts(log', L + l) = (written + Count) + 1 /\ Len(log') = L + l
      BY <1>7, <2>4, <3>1 DEF Commands
    <3>3. Commands(Len(log))' = Firsts(log', Len(log'))
      BY DEF Commands
    <3>4. written' = written
      BY <1>2
    <3> QED BY <1>1, <2>1, <3>2, <3>3, <3>4
  <2>10. (translating' => lastSerial' = written') /\ lastSynthetic' <= written' + Count'
    <3>1. written' = written /\ lastSerial' = lastSerial /\ lastSynthetic' = NextActorSerial
      BY <1>2
    <3> QED BY <1>1, <2>1, <2>2, <3>1
  <2> QED BY <2>6, <2>8, <2>9, <2>10 DEF SerialsMapped
<1> QED BY <1>9, <1>12, <1>13, <1>14, <1>15 DEF StreamParts

(* Before anything is written there is nothing to map.                       *)
LEMMA StreamInvInit == ASSUME StreamInit PROVE StreamInv
<1>1. StreamTypes
  BY StreamTypesInit
<1>2. /\ written = 0 /\ acked = 0 /\ log = <<>> /\ received = <<>> /\ translators = <<>>
      /\ acks = {} /\ translating = TRUE /\ lastSerial = 0 /\ lastSynthetic = 0
      /\ Underway = {} /\ Len(log) = 0 /\ Len(received) = 0 /\ Count = 0
  BY DEF StreamInit, Underway, Count
<1>3. \A x : SenderOffset(x) = x /\ LocalAck(x) = x
  BY <1>2, NoTranslation DEF SenderOffset, LocalAck
<1>4. Mapped
  <2>1. \A x \in written .. Half - 1 : SenderOffset(x) = Len(log) + (x - written)
    BY <1>2, <1>3, HalfFacts
  <2>2. \A n \in 0 .. Half - 1 : LocalAck(n) \in Nat /\ \A x \in 0 .. Half - 1 :
          x < LocalAck(n) <=> SenderOffset(x) < n
    BY <1>3, HalfFacts
  <2>3. 0 .. written - 1 = {}
    BY <1>2
  <2> QED BY <1>2, <2>1, <2>2, <2>3 DEF Mapped
<1>5. PacketsInPlace /\ ReceivedInPlace /\ AcksMapped
  BY <1>2 DEF PacketsInPlace, ReceivedInPlace, AcksMapped
<1>6. SerialsMapped
  BY <1>2, FirstsFacts DEF SerialsMapped, Commands
<1> QED BY <1>1, <1>4, <1>5, <1>6 DEF StreamInv

(* Every step keeps the mapping.                                             *)
LEMMA StreamInvStep == ASSUME StreamInv, [StreamNext]_streamVars PROVE StreamInv'
<1>1. StreamTypes /\ StreamTypes'
  BY StreamTypesStep DEF StreamInv
<1> SUFFICES ASSUME Covered' PROVE StreamParts'
  BY <1>1 DEF StreamInv, StreamParts
<1>2. Longer /\ Covered /\ StreamParts
  BY <1>1, CoveredBefore DEF StreamInv, StreamParts
<1>3. ~translating => translators = <<>>
  BY <1>2 DEF StreamParts, Mapped
<1>4. translating \in BOOLEAN
  BY <1>1 DEF StreamTypes
<1>5. CASE Write
  BY <1>1, <1>2, <1>5, WriteKept
<1>6. ASSUME NEW i \in 1 .. MaxCommands, Retransmit(i) PROVE StreamParts'
  BY <1>1, <1>2, <1>6, ResendKept
<1>7. CASE KeepAlive
  <2>1. CASE Injects
    BY <1>1, <1>2, <2>1, InjectKept
  <2>2. CASE Quiet /\ UNCHANGED <<gameVars, acks, lost, received, translating, disturbed, request>>
    BY <1>1, <1>2, <1>3, <1>4, <2>2, QuietKept
  <2> QED BY <1>1, <1>7, <2>1, <2>2, KeepAliveFacts
<1>8. CASE HearHost
  <2>1. Quiet /\ UNCHANGED <<acks, translating>>
    BY <1>8 DEF HearHost, Quiet, netVars, proxyVars, Underway
  <2> QED BY <1>1, <1>2, <1>3, <1>4, <2>1, QuietKept
<1>9. ASSUME NEW a \in acks, HearAck(a) PROVE StreamParts'
  <2>1. PICK n : n = IF translating THEN LocalAck(a) ELSE a
    OBVIOUS
  <2>2. n \in 0 .. written /\ \A x \in 0 .. n - 1 : SenderOffset(x) < Len(received)
    BY <1>1, <1>2, <2>1, LocalSound
  <2>3. Hear(n) /\ disturbed \subseteq disturbed'
    BY <1>9, <2>1 DEF HearAck
  <2> QED BY <1>1, <1>2, <2>2, <2>3, HearKept
<1>10. ASSUME NEW a \in acks, HearAckRaised(a) PROVE StreamParts'
  <2>1. Hear(a) /\ disturbed \subseteq disturbed' /\ "raised" \in disturbed'
    BY <1>10 DEF HearAckRaised
  <2> QED BY <1>1, <1>2, <2>1, HearKept
<1>11. ASSUME NEW p \in flight, HostReceive(p) PROVE StreamParts'
  BY <1>1, <1>2, <1>11, ReceiveKept
<1>12. CASE HostRepeatsAck
  <2>1. Quiet /\ acks' = acks \union {Len(received) % Modulus} /\ UNCHANGED translating
    BY <1>12 DEF HostRepeatsAck, Quiet, gameVars, proxyVars, Underway
  <2> QED BY <1>1, <1>2, <1>3, <1>4, <2>1, QuietKept
<1>13. CASE Lose
  <2>1. Underway' \subseteq Underway /\ acks' \subseteq acks
    BY <1>13 DEF Lose, Underway, proxyVars
  <2>2. Quiet /\ UNCHANGED translating
    BY <1>13, <2>1 DEF Lose, Quiet, gameVars, proxyVars
  <2> QED BY <1>1, <1>2, <1>3, <1>4, <2>1, <2>2, QuietKept
<1>14. CASE Arm
  <2>1. Quiet /\ UNCHANGED <<acks, translating>>
    BY <1>14 DEF Arm, Quiet, netVars, gameVars, Underway
  <2> QED BY <1>1, <1>2, <1>3, <1>4, <2>1, QuietKept
<1>15. CASE FinishRequest
  <2>1. Quiet /\ UNCHANGED <<acks, translating>>
    BY <1>15 DEF FinishRequest, Quiet, netVars, gameVars, Underway
  <2> QED BY <1>1, <1>2, <1>3, <1>4, <2>1, QuietKept
<1>16. CASE SessionEnds
  <2>1. Quiet /\ UNCHANGED acks /\ ~translating'
    BY <1>16 DEF SessionEnds, Quiet, netVars, gameVars, proxyVars, Underway
  <2>2. translators = <<>>
    <3>1. "ended" \notin disturbed'
      BY DEF Covered
    <3>2. Count \in Nat /\ ~(Count > 0)
      BY <1>1, <1>16, <3>1, RecordTyped DEF SessionEnds
    <3> QED BY <1>1, <3>2 DEF Count, StreamTypes
  <2> QED BY <1>1, <1>2, <1>4, <2>1, <2>2, QuietKept
<1>17. CASE UNCHANGED streamVars
  <2>1. Quiet /\ UNCHANGED <<acks, translating>>
    BY <1>17 DEF streamVars, Quiet, netVars, gameVars, proxyVars, Underway
  <2> QED BY <1>1, <1>2, <1>3, <1>4, <2>1, QuietKept
<1>18. ASSUME WriteRaised \/ \E i \in 1 .. MaxCommands : RetransmitRaised(i) PROVE FALSE
  <2>1. "untranslated" \in disturbed'
    BY <1>18 DEF WriteRaised, RetransmitRaised
  <2> QED BY <2>1 DEF Covered
<1>19. CASE KeepAliveRaised
  <2>1. Quiet /\ UNCHANGED <<acks, translating>>
    BY <1>1, <1>19, KeepAliveRaisedFacts DEF Covered
  <2> QED BY <1>1, <1>2, <1>3, <1>4, <2>1, QuietKept
<1> QED
  BY <1>5, <1>6, <1>7, <1>8, <1>9, <1>10, <1>11, <1>12, <1>13, <1>14, <1>15, <1>16, <1>17,
     <1>18, <1>19 DEF StreamNext

(* The mapping holds throughout.                                             *)
LEMMA StreamInvAlways == StreamSpec => []StreamInv
BY StreamInvInit, StreamInvStep, PTL DEF StreamSpec

(* Every state of the stream, the proxy and the game is well typed: offsets  *)
(* stay in their range, and only packets without bytes are carriers          *)
(* (carrier_rewrites).                                                       *)
THEOREM StreamTypeCorrect == StreamSpec => []StreamTypes
<1>1. StreamInv => StreamTypes
  BY DEF StreamInv
<1> QED BY <1>1, StreamInvAlways, PTL

(* While the stream is within half the range of the offsets, the worker does *)
(* not leave a room it has changed and handling an outbound packet does not  *)
(* put unmapped bytes on the wire, the host has a beginning of what the game *)
(* wrote and the proxy inserted, for any number of commands, insertions,     *)
(* losses and repetitions (run, outbound branch and its except clause).      *)
THEOREM StreamStaysIntact == StreamSpec => []GameStreamIntact
<1>1. ASSUME StreamInv PROVE GameStreamIntact
  <2> SUFFICES ASSUME Covered PROVE IsPrefix(Names(received), log)
    BY DEF GameStreamIntact, Covered
  <2>1. /\ received \in Seq(Units) /\ log \in Seq(Parts) /\ Len(received) <= Len(log)
        /\ \A j \in 1 .. Len(received) : NameOf(received[j]) = log[j]
    BY <1>1 DEF StreamInv, StreamTypes, ReceivedInPlace
  <2> DEFINE m == Names(received)
  <2>2. m = [j \in 1 .. Len(received) |-> NameOf(received[j])]
    BY <2>1 DEF Names, NameOf
  <2>3. \A j \in 1 .. Len(received) : NameOf(received[j]) \in Parts
    BY <2>1
  <2> HIDE DEF m
  <2>4. m \in Seq(Parts) /\ Len(m) = Len(received) /\ Len(received) \in Nat
        /\ \A j \in 1 .. Len(received) : m[j] = log[j]
    BY <2>1, <2>2, <2>3
  <2>5. SubSeq(m, 1, Len(m)) = SubSeq(log, 1, Len(m)) /\ Len(m) <= Len(log)
    BY <2>1, <2>4
  <2> QED BY <2>5 DEF IsPrefix, m
<1> QED BY <1>1, StreamInvAlways, PTL

(* In such a stream the game never takes for acknowledged what the host does *)
(* not have, until handling a packet raises                                  *)
(* (StreamTranslator.translate_inbound).                                     *)
THEOREM StreamAcksSound == StreamSpec => []AckSound
<1>1. ASSUME StreamInv PROVE AckSound
  <2> SUFFICES ASSUME Covered, "raised" \notin disturbed
               PROVE  /\ acked <= written
                      /\ \A i \in 1 .. acked : <<"game", i, 1>> \in ToSet(Names(received))
    BY DEF AckSound, Covered
  <2>1. /\ acked <= written /\ acked \in Nat /\ written \in Nat
        /\ \A x \in 0 .. acked - 1 : SenderOffset(x) < Len(received)
    BY <1>1 DEF StreamInv, StreamTypes, AcksMapped
  <2>2. ASSUME NEW i \in 1 .. acked PROVE <<"game", i, 1>> \in ToSet(Names(received))
    <3>1. i - 1 \in 0 .. acked - 1 /\ i - 1 \in 0 .. written - 1 /\ (i - 1) + 1 = i
      BY <2>1
    <3>2. SenderOffset(i - 1) \in Nat /\ log[SenderOffset(i - 1) + 1] = <<"game", i, 1>>
      BY <1>1, <3>1 DEF StreamInv, Mapped
    <3>3. PICK j : j = SenderOffset(i - 1) + 1
      OBVIOUS
    <3>4. j \in 1 .. Len(received)
      BY <1>1, <2>1, <3>1, <3>2, <3>3 DEF StreamInv, StreamTypes
    <3>5. NameOf(received[j]) = <<"game", i, 1>>
      BY <1>1, <3>2, <3>3, <3>4 DEF StreamInv, ReceivedInPlace
    <3>6. j \in DOMAIN received
      BY <1>1, <3>4 DEF StreamInv, StreamTypes
    <3> QED BY <3>5, <3>6 DEF ToSet, Names, NameOf
  <2> QED BY <2>1, <2>2
<1> QED BY <1>1, StreamInvAlways, PTL

(* In such a stream the commands reach the host with serials that count one  *)
(* by one, until the game sends an earlier command again (next_actor_serial, *)
(* translate_outbound_command_serials).                                      *)
THEOREM StreamSerialsDense == StreamSpec => []SerialsDense
<1>1. ASSUME StreamInv PROVE SerialsDense
  <2> SUFFICES ASSUME Covered, "resent" \notin disturbed, NEW j \in DOMAIN received,
                      received[j].part = 1
               PROVE  received[j].serial = Cardinality({k \in 1 .. j : received[k].part = 1})
    BY DEF SerialsDense, Covered
  <2>1. j \in 1 .. Len(received) /\ Len(received) \in Nat
    BY <1>1 DEF StreamInv, StreamTypes
  <2>2. received[j].serial = Cardinality({k \in 1 .. j : log[k][3] = 1})
    BY <1>1, <2>1 DEF StreamInv, SerialsMapped, Commands, Firsts
  <2>3. \A k \in 1 .. j : log[k][3] = received[k].part
    <3>1. \A k \in 1 .. j : k \in 1 .. Len(received)
      BY <2>1
    <3>2. \A k \in 1 .. j : NameOf(received[k]) = log[k]
      BY <1>1, <3>1 DEF StreamInv, ReceivedInPlace
    <3> QED BY <3>2 DEF NameOf
  <2>4. {k \in 1 .. j : log[k][3] = 1} = {k \in 1 .. j : received[k].part = 1}
    BY <2>3
  <2> QED BY <2>2, <2>4
<1> QED BY <1>1, StreamInvAlways, PTL

-----------------------------------------------------------------------------
(* ProxyRequests: a request and its answer.                                  *)

USE DEF callerVars, hostVars, history, vars

Armed == 1 .. Len(targets)

Outcomes == WorkerOutcomes \cup {"none"}

LastSet == [id : 0 .. Len(targets), outcome : Outcomes]

CallerSet == [at : {"idle", "arming", "waiting"}, id : 0 .. Len(targets)]

StatusSet == [armed : BOOLEAN, last : LastSet, insertions : Nat]

WorkerSet == [up : BOOLEAN, pc : {"loop", "publish"}, holding : 0 .. Len(targets),
              injected : BOOLEAN, retagged : BOOLEAN, missed : BOOLEAN,
              last : LastSet, insertions : Nat]

TypeOK ==
  /\ targets \in Seq(Targets) /\ Len(targets) <= MaxRequests
  /\ caller \in CallerSet /\ status \in StatusSet /\ worker \in WorkerSet
  /\ caller.at = "waiting" => caller.id # 0
  /\ caller.at = "arming" => Len(targets) < MaxRequests
  /\ armFile \in 0 .. Len(targets)
  /\ wire \subseteq Armed /\ executed \subseteq Armed /\ echoes \subseteq executed
  /\ kept \subseteq Armed /\ faults \in Nat
  /\ reported \in [Ids -> Outcomes \cup Errors]
  /\ settled \in [Ids -> Outcomes] /\ inserted \in [Ids -> Nat]

(* Only the request that is held can be settled, so an outcome, wherever it  *)
(* is repeated, stays the one of its request, unless its file was kept.      *)
OutcomesAgree ==
  /\ armFile # 0 => settled[armFile] = "none" \/ armFile \in kept
  /\ worker.holding # 0 => settled[worker.holding] = "none" \/ worker.holding \in kept
  /\ worker.last.id # 0 =>
       /\ worker.last.outcome = settled[worker.last.id] \/ worker.last.id \in kept
       /\ worker.last.outcome # "none"
  /\ status.last.id # 0 =>
       /\ status.last.outcome = settled[status.last.id] \/ status.last.id \in kept
       /\ status.last.outcome # "none"
  /\ AnswerIsForCall
  /\ \A i \in Ids : i > Len(targets) => settled[i] = "none"

(* A request that has gone out is held until it is settled, or is gone with  *)
(* its worker and its file, unless the file was kept.                        *)
InsertionsAgree ==
  /\ armFile # 0 /\ armFile # worker.holding => inserted[armFile] = 0 \/ armFile \in kept
  /\ worker.holding # 0 =>
       \/ inserted[worker.holding] = IF worker.injected THEN 1 ELSE 0
       \/ worker.holding \in kept
  /\ worker.holding = 0 => ~worker.injected
  /\ \A i \in Ids : i > Len(targets) => inserted[i] = 0
  /\ InsertedOnce

(* What was settled by a broadcast has its target executed.                  *)
TargetExecuted(i) == \E j \in executed : targets[j] = targets[i]

ConfirmationsAgree ==
  \A i \in Armed : settled[i] = "confirmed" \/ i \in kept => TargetExecuted(i)

RequestInv == TypeOK /\ OutcomesAgree /\ InsertionsAgree /\ ConfirmationsAgree

(* A call that is told "confirmed" had the order for its target carried out  *)
(* by the host, for this request or for another one about the same target.   *)
ConfirmedTargetExecuted ==
  \A i \in Ids : reported[i] = "confirmed" => TargetExecuted(i)

-----------------------------------------------------------------------------
(* Before the first request nothing is armed, settled or sent.               *)
LEMMA RequestInit == ASSUME Init PROVE RequestInv
<1>1. TypeOK
  BY RequestAssumption
     DEF Init, TypeOK, CallerSet, StatusSet, WorkerSet, Ids, Outcomes, LastSet, NoStatus,
         NewWorker, None, Armed
<1>2. OutcomesAgree /\ InsertionsAgree /\ ConfirmationsAgree
  BY DEF Init, OutcomesAgree, InsertionsAgree, ConfirmationsAgree, AnswerIsForCall,
         WorkerOutcomes,
     InsertedOnce, Armed, Ids, NoStatus, NewWorker, None
<1> QED BY <1>1, <1>2 DEF RequestInv

(* Where an id is kept it is one that was armed, or 0 for none (armed_id,    *)
(* last_request and the file of the armed request).                          *)
LEMMA IdFacts ==
  ASSUME TypeOK
  PROVE  /\ Len(targets) \in Nat /\ MaxRequests \in Nat /\ Armed \subseteq Ids
         /\ \A i \in 0 .. Len(targets) : i # 0 => i \in Armed /\ i \in Ids
         /\ \A i \in Ids : i \in Nat
         /\ worker.holding \in 0 .. Len(targets)
         /\ worker.last.id \in 0 .. Len(targets) /\ worker.last.outcome \in Outcomes
         /\ status.last.id \in 0 .. Len(targets) /\ status.last.outcome \in Outcomes
         /\ caller.id \in 0 .. Len(targets)
BY RequestAssumption DEF TypeOK, Armed, Ids, WorkerSet, StatusSet, CallerSet, LastSet

(* A request that is armed gets the next id and keeps its target.            *)
LEMMA ArmFacts ==
  ASSUME TypeOK, ArmWrite
  PROVE  /\ targets' \in Seq(Targets) /\ Len(targets') = Len(targets) + 1
         /\ Len(targets') <= MaxRequests /\ Len(targets') \in Nat /\ Armed \subseteq Armed'
         /\ \A i \in Armed : targets'[i] = targets[i]
BY IdFacts DEF TypeOK, ArmWrite, Armed

(* The sets of values grow only when a request is armed.                     *)
LEMMA SetsStay ==
  ASSUME targets' = targets
  PROVE  /\ Armed' = Armed /\ CallerSet' = CallerSet /\ StatusSet' = StatusSet
         /\ WorkerSet' = WorkerSet /\ LastSet' = LastSet
BY DEF Armed, CallerSet, StatusSet, WorkerSet, LastSet

(* What finish_request leaves: nothing is held, the file is gone, and only   *)
(* the request that was held has a new outcome.                              *)
LEMMA FinishFacts ==
  ASSUME TypeOK, worker.holding # 0, NEW o \in WorkerOutcomes, Finish(o)
  PROVE  /\ worker.holding \in Ids /\ worker.holding \in Armed
         /\ worker' \in WorkerSet /\ worker'.holding = 0 /\ ~worker'.injected
         /\ worker'.last.id = worker.holding /\ worker'.last.outcome = o
         /\ settled' \in [Ids -> Outcomes] /\ settled'[worker.holding] = o
         /\ \A i \in Ids : i # worker.holding => settled'[i] = settled[i]
         /\ armFile' = 0 /\ rejected' = 0
         /\ UNCHANGED <<callerVars, status, stopping, wire, executed, inserted, kept, faults>>
<1>1. worker.holding \in Ids /\ worker.holding \in Armed
  BY IdFacts
<1>2. o \in Outcomes
  BY DEF Outcomes
<1>3. [id |-> worker.holding, outcome |-> o] \in LastSet
  BY <1>2, IdFacts DEF LastSet
<1>4. worker' \in WorkerSet /\ worker'.holding = 0 /\ ~worker'.injected
      /\ worker'.last.id = worker.holding /\ worker'.last.outcome = o
  <2>1. worker \in WorkerSet /\ 0 \in 0 .. Len(targets)
    BY IdFacts DEF TypeOK
  <2> QED BY <1>3, <2>1 DEF Finish, Released, WorkerSet
<1>5. settled' \in [Ids -> Outcomes] /\ settled'[worker.holding] = o
      /\ \A i \in Ids : i # worker.holding => settled'[i] = settled[i]
  BY <1>1, <1>2 DEF Finish, TypeOK
<1>6. armFile' = 0 /\ rejected' = 0
      /\ UNCHANGED <<callerVars, status, stopping, wire, executed, inserted, kept, faults>>
  BY DEF Finish, FileAfterFinish
<1> QED BY <1>1, <1>4, <1>5, <1>6

(* What is left when the file could not be removed: the request is settled,  *)
(* and its file is there to be read again.                                   *)
LEMMA RemovalFacts ==
  ASSUME TypeOK, worker.holding # 0, RemovalRaised
  PROVE  /\ worker.holding \in Ids /\ worker.holding \in Armed
         /\ worker' \in WorkerSet /\ worker'.holding = 0 /\ ~worker'.injected
         /\ worker'.last.id = worker.holding /\ worker'.last.outcome = "confirmed"
         /\ settled' \in [Ids -> Outcomes]
         /\ \A i \in Ids : i # worker.holding => settled'[i] = settled[i]
         /\ kept' = kept \union {worker.holding} /\ faults' \in Nat
         /\ UNCHANGED <<callerVars, armFile, status, stopping, wire, executed, inserted>>
<1>1. worker.holding \in Ids /\ worker.holding \in Armed
  BY IdFacts
<1>2. "confirmed" \in Outcomes
  BY DEF Outcomes, WorkerOutcomes
<1>3. [id |-> worker.holding, outcome |-> "confirmed"] \in LastSet
  BY <1>2, IdFacts DEF LastSet
<1>4. worker' \in WorkerSet /\ worker'.holding = 0 /\ ~worker'.injected
      /\ worker'.last.id = worker.holding /\ worker'.last.outcome = "confirmed"
  <2>1. worker \in WorkerSet /\ 0 \in 0 .. Len(targets)
    BY IdFacts DEF TypeOK
  <2> QED BY <1>3, <2>1 DEF RemovalRaised, Released, WorkerSet
<1>5. settled' \in [Ids -> Outcomes]
      /\ \A i \in Ids : i # worker.holding => settled'[i] = settled[i]
  BY <1>1, <1>2 DEF RemovalRaised, TypeOK
<1>6. kept' = kept \union {worker.holding} /\ faults' \in Nat
      /\ UNCHANGED <<callerVars, armFile, status, stopping, wire, executed, inserted>>
  BY DEF RemovalRaised, Fault, TypeOK
<1> QED BY <1>1, <1>4, <1>5, <1>6

(* What a call that returns leaves: only its own report is new.              *)
LEMMA ReturnFacts ==
  ASSUME TypeOK, caller.at = "waiting", NEW o \in Outcomes \cup Errors, Return(o)
  PROVE  /\ caller.id \in Ids /\ caller.id \in Armed
         /\ caller' \in CallerSet /\ caller'.at = "idle"
         /\ reported' \in [Ids -> Outcomes \cup Errors] /\ reported'[caller.id] = o
         /\ \A i \in Ids : i # caller.id => reported'[i] = reported[i]
         /\ UNCHANGED <<targets, armFile, status, worker, rejected, stopping, hostVars, history>>
<1>1. caller.id \in Ids /\ caller.id \in Armed
  BY IdFacts DEF TypeOK
<1> QED BY <1>1, IdFacts DEF Return, TypeOK, CallerSet

(* A poll that ends a call reports that the worker is gone or what its       *)
(* status says of this call.                                                 *)
LEMMA PollFacts ==
  ASSUME TypeOK, Poll
  PROVE  \E o \in Outcomes \cup Errors :
           /\ caller.at = "waiting" /\ Return(o)
           /\ o \in Errors \/ (status.last.id = caller.id /\ o = status.last.outcome)
BY IdFacts DEF Poll, IsAnswer, Errors

(* What a write of the status leaves: the file says what the worker knows    *)
(* (status and write_json).                                                  *)
LEMMA StatusFacts ==
  ASSUME TypeOK, Publish \/ Republish
  PROVE  /\ worker' \in WorkerSet /\ status' \in StatusSet
         /\ worker'.holding = worker.holding /\ worker'.injected = worker.injected
         /\ worker'.last = worker.last /\ status'.last = worker.last
         /\ UNCHANGED <<callerVars, armFile, rejected, stopping, hostVars, history>>
<1>1. WriteStatus
  BY DEF Publish, Republish
<1>2. worker \in WorkerSet
  BY DEF TypeOK
<1>3. worker' \in WorkerSet /\ worker'.holding = worker.holding
      /\ worker'.injected = worker.injected /\ worker'.last = worker.last
  BY <1>1, <1>2 DEF WriteStatus, WorkerSet
<1>4. status' \in StatusSet /\ status'.last = worker.last
  BY <1>1, <1>2 DEF WriteStatus, WorkerSet, StatusSet
<1> QED BY <1>1, <1>3, <1>4 DEF WriteStatus

(* Every variable keeps its type, and no id is in use that was not armed.    *)
LEMMA RequestTypeStep == ASSUME TypeOK, [Next]_vars PROVE TypeOK'
<1>1. CASE Check
  BY <1>1 DEF Check, TypeOK, CallerSet, StatusSet, WorkerSet, Armed, LastSet
<1>2. CASE ArmWrite
  <2>1. 0 .. Len(targets) \subseteq 0 .. Len(targets')
    BY <1>2, ArmFacts
  <2>2. worker' \in WorkerSet' /\ status' \in StatusSet'
    BY <1>2, <2>1 DEF ArmWrite, TypeOK, WorkerSet, StatusSet, LastSet
  <2>3. /\ armFile' \in 0 .. Len(targets') /\ caller' \in CallerSet'
        /\ caller'.at = "waiting" /\ caller'.id # 0
    BY <1>2 DEF ArmWrite, CallerSet
  <2> QED
    BY <1>2, <2>2, <2>3, ArmFacts DEF ArmWrite, TypeOK
<1>3. CASE Poll
  <2>1. PICK o \in Outcomes \cup Errors :
          /\ caller.at = "waiting" /\ Return(o)
          /\ o \in Errors \/ (status.last.id = caller.id /\ o = status.last.outcome)
    BY <1>3, PollFacts
  <2> QED
    <3>1. /\ caller.id \in Ids /\ caller.id # 0 /\ caller' \in CallerSet /\ caller'.at = "idle"
          /\ reported' \in [Ids -> Outcomes \cup Errors] /\ reported'[caller.id] = o
          /\ \A i \in Ids : i # caller.id => reported'[i] = reported[i]
          /\ UNCHANGED <<targets, armFile, status, worker, rejected, stopping, hostVars, history>>
      BY <2>1, ReturnFacts DEF TypeOK
    <3> QED
      BY <2>1, <3>1, SetsStay DEF TypeOK
<1>4. CASE Deadline
  <2>1. "deadline" \in Outcomes \cup Errors /\ caller.at = "waiting" /\ Return("deadline")
    BY <1>4 DEF Deadline, Errors
  <2> QED
    BY <2>1, ReturnFacts, SetsStay DEF TypeOK
<1>5. CASE StopCheck
  BY <1>5 DEF StopCheck, TypeOK, CallerSet, StatusSet, WorkerSet, Armed, LastSet
<1>6. CASE StopKill
  BY <1>6 DEF StopKill, TypeOK, CallerSet, StatusSet, WorkerSet, Armed, LastSet
<1>7. CASE Start
  BY <1>7
    DEF Start, NewWorker, NoStatus, None, TypeOK, CallerSet, StatusSet, WorkerSet,
        Armed, Outcomes, LastSet
<1>8. CASE ReadArm
  <2>1. worker \in WorkerSet /\ armFile \in 0 .. Len(targets)
    BY DEF TypeOK
  <2>2. worker' \in WorkerSet
    BY <1>8, <2>1 DEF ReadArm, WorkerSet
  <2> QED BY <1>8, <2>2, SetsStay DEF ReadArm, TypeOK
<1>9. CASE Publish \/ Republish
  BY <1>9, StatusFacts, SetsStay DEF TypeOK
<1>17. CASE PublishFails
  <2>1. worker \in WorkerSet /\ worker' = [worker EXCEPT !.pc = "loop", !.missed = TRUE]
    BY <1>17 DEF PublishFails, TypeOK
  <2>2. worker' \in WorkerSet
    BY <2>1 DEF WorkerSet
  <2>3. faults' \in Nat
    BY <1>17 DEF PublishFails, Fault, TypeOK
  <2> QED BY <1>17, <2>2, <2>3, SetsStay DEF PublishFails, TypeOK
<1>10. CASE Inject
  <2>1. worker.holding \in Ids /\ worker.holding \in Armed
    BY <1>10, IdFacts DEF Inject, NeedsCarrier
  <2>2. worker' \in WorkerSet
    <3>1. worker \in WorkerSet
      BY DEF TypeOK
    <3>2. worker.insertions + 1 \in Nat
      BY <3>1 DEF WorkerSet
    <3> QED BY <1>10, <3>1, <3>2 DEF Inject, WorkerSet
  <2>3. inserted' \in [Ids -> Nat]
    BY <1>10, <2>1 DEF Inject, TypeOK
  <2> QED
    BY <1>10, <2>1, <2>2, <2>3
      DEF Inject, TypeOK, Armed, CallerSet, StatusSet, WorkerSet, LastSet
<1>11. CASE CarrierTimeout
  <2>1. /\ worker.holding # 0 /\ "carrier_timeout" \in WorkerOutcomes
        /\ Finish("carrier_timeout") /\ UNCHANGED echoes
    BY <1>11 DEF CarrierTimeout, NeedsCarrier, WorkerOutcomes
  <2>2. /\ worker.holding \in Ids /\ worker' \in WorkerSet
        /\ worker'.holding = 0 /\ ~worker'.injected /\ armFile' = 0
        /\ worker'.last.id = worker.holding /\ worker'.last.outcome = "carrier_timeout"
        /\ settled' \in [Ids -> Outcomes] /\ settled'[worker.holding] = "carrier_timeout"
        /\ \A i \in Ids : i # worker.holding => settled'[i] = settled[i]
        /\ UNCHANGED <<callerVars, status, stopping, wire, executed, inserted, kept, faults>>
    BY <2>1, FinishFacts
  <2> QED
    BY <2>1, <2>2, SetsStay DEF TypeOK
<1>12. CASE ResponseTimeout
  <2>1. /\ worker.holding # 0 /\ "response_timeout" \in WorkerOutcomes
        /\ Finish("response_timeout") /\ UNCHANGED echoes
    BY <1>12 DEF ResponseTimeout, WorkerOutcomes
  <2>2. /\ worker.holding \in Ids /\ worker' \in WorkerSet
        /\ worker'.holding = 0 /\ ~worker'.injected /\ armFile' = 0
        /\ worker'.last.id = worker.holding /\ worker'.last.outcome = "response_timeout"
        /\ settled' \in [Ids -> Outcomes] /\ settled'[worker.holding] = "response_timeout"
        /\ \A i \in Ids : i # worker.holding => settled'[i] = settled[i]
        /\ UNCHANGED <<callerVars, status, stopping, wire, executed, inserted, kept, faults>>
    BY <2>1, FinishFacts
  <2> QED
    BY <2>1, <2>2, SetsStay DEF TypeOK
<1>13. ASSUME NEW id \in Ids, Echo(id)
       PROVE  TypeOK'
  <2>1. CASE Matches(id) /\ Finish("confirmed")
    <3>1. worker.holding # 0 /\ "confirmed" \in WorkerOutcomes
      BY <2>1 DEF Matches, WorkerOutcomes
    <3>2. echoes' \subseteq echoes
      BY <1>13 DEF Echo
    <3>3. /\ worker.holding \in Ids /\ worker' \in WorkerSet
          /\ worker'.holding = 0 /\ ~worker'.injected /\ armFile' = 0
          /\ worker'.last.id = worker.holding /\ worker'.last.outcome = "confirmed"
          /\ settled' \in [Ids -> Outcomes] /\ settled'[worker.holding] = "confirmed"
          /\ \A i \in Ids : i # worker.holding => settled'[i] = settled[i]
          /\ UNCHANGED <<callerVars, status, stopping, wire, executed, inserted, kept, faults>>
      BY <2>1, <3>1, FinishFacts
    <3> QED
      BY <3>2, <3>3, SetsStay DEF TypeOK
  <2>3. CASE Matches(id) /\ MatchRaised
    <3>1. worker' \in WorkerSet
      BY <2>3 DEF MatchRaised, TypeOK, WorkerSet
    <3>2. echoes' \subseteq echoes /\ faults' \in Nat
      BY <1>13, <2>3 DEF Echo, MatchRaised, Fault, TypeOK
    <3> QED BY <2>3, <3>1, <3>2, SetsStay DEF MatchRaised, TypeOK
  <2>4. CASE Matches(id) /\ RemovalRaised
    <3>1. worker.holding # 0 /\ echoes' \subseteq echoes
      BY <1>13, <2>4 DEF Matches, Echo
    <3>2. /\ worker.holding \in Armed /\ worker' \in WorkerSet
          /\ settled' \in [Ids -> Outcomes] /\ kept' = kept \union {worker.holding}
          /\ faults' \in Nat
          /\ UNCHANGED <<callerVars, armFile, status, stopping, wire, executed, inserted>>
      BY <2>4, <3>1, RemovalFacts
    <3> QED BY <3>1, <3>2, SetsStay DEF TypeOK
  <2>2. CASE UNCHANGED <<callerVars, armFile, status, worker, rejected, stopping, wire,
                         executed, history>>
    BY <1>13, <2>2, SetsStay DEF Echo, TypeOK
  <2> QED
    BY <1>13, <2>1, <2>2, <2>3, <2>4 DEF Echo
<1>14. CASE WorkerEnds
  BY <1>14 DEF WorkerEnds, TypeOK, CallerSet, StatusSet, WorkerSet, Armed, LastSet
<1>15. ASSUME NEW id \in Ids, HostExecutes(id)
       PROVE  TypeOK'
  BY <1>15 DEF HostExecutes, TypeOK, Armed, CallerSet, StatusSet, WorkerSet, LastSet
<1>16. CASE UNCHANGED vars
  BY <1>16 DEF TypeOK, CallerSet, StatusSet, WorkerSet, Armed, LastSet
<1> QED
  BY <1>1, <1>2, <1>3, <1>4, <1>5, <1>6, <1>7, <1>8, <1>9, <1>10, <1>11, <1>12,
     <1>13, <1>14, <1>15, <1>16, <1>17
  DEF Next, WorkerStep

(* The outcome given goes to the request held, which nobody has asked for    *)
(* before; it leaves the worker and the file with it.                        *)
LEMMA FinishKeepsOutcomes ==
  ASSUME TypeOK, OutcomesAgree, worker.holding # 0, NEW o \in WorkerOutcomes, Finish(o)
  PROVE  OutcomesAgree'
<1>1. /\ worker.holding \in Ids /\ worker.holding \in Armed /\ worker'.holding = 0 /\ armFile' = 0
      /\ worker'.last.id = worker.holding /\ worker'.last.outcome = o
      /\ settled'[worker.holding] = o
      /\ \A i \in Ids : i # worker.holding => settled'[i] = settled[i]
      /\ UNCHANGED <<targets, reported, status, kept>>
  BY FinishFacts
<1>2. o # "none"
  BY DEF WorkerOutcomes
<1>3. (status.last.id # 0 =>
         /\ status.last.outcome = settled[status.last.id] \/ status.last.id \in kept
         /\ status.last.outcome # "none")'
  BY <1>1, IdFacts DEF OutcomesAgree
<1>4. AnswerIsForCall'
  BY <1>1 DEF OutcomesAgree, AnswerIsForCall, WorkerOutcomes
<1>5. (\A i \in Ids : i > Len(targets) => settled[i] = "none")'
  BY <1>1, IdFacts DEF OutcomesAgree, Armed
<1> QED BY <1>1, <1>2, <1>3, <1>4, <1>5 DEF OutcomesAgree

(* Outcomes stay with their requests: Finish settles the request held, which *)
(* leaves the worker and the file with it.                                   *)
LEMMA OutcomesStep == ASSUME TypeOK, OutcomesAgree, [Next]_vars PROVE OutcomesAgree'
<1>1. CASE Check
  BY <1>1 DEF Check, OutcomesAgree, AnswerIsForCall
<1>2. CASE ArmWrite
  <2>1. armFile' = Len(targets') /\ armFile' \in Ids /\ armFile' > Len(targets)
    BY <1>2, ArmFacts DEF ArmWrite, Ids
  <2> QED
    BY <1>2, <2>1, IdFacts DEF ArmWrite, OutcomesAgree, AnswerIsForCall
<1>3. CASE Poll
  <2>1. PICK o \in Outcomes \cup Errors :
          /\ caller.at = "waiting" /\ Return(o)
          /\ o \in Errors \/ (status.last.id = caller.id /\ o = status.last.outcome)
    BY <1>3, PollFacts
  <2> QED
    <3>1. /\ caller.id \in Ids /\ caller.id # 0 /\ caller' \in CallerSet /\ caller'.at = "idle"
          /\ reported' \in [Ids -> Outcomes \cup Errors] /\ reported'[caller.id] = o
          /\ \A i \in Ids : i # caller.id => reported'[i] = reported[i]
          /\ UNCHANGED <<targets, armFile, status, worker, rejected, stopping, hostVars, history>>
      BY <2>1, ReturnFacts DEF TypeOK
    <3> QED
      BY <2>1, <3>1 DEF OutcomesAgree, AnswerIsForCall, WorkerOutcomes, Errors
<1>4. CASE Deadline
  BY <1>4 DEF Deadline, Return, OutcomesAgree, AnswerIsForCall, WorkerOutcomes
<1>5. CASE StopCheck
  BY <1>5 DEF StopCheck, OutcomesAgree, AnswerIsForCall
<1>6. CASE StopKill
  BY <1>6 DEF StopKill, OutcomesAgree, AnswerIsForCall
<1>7. CASE Start
  BY <1>7 DEF Start, NewWorker, NoStatus, None, OutcomesAgree, AnswerIsForCall
<1>8. CASE ReadArm
  BY <1>8 DEF ReadArm, TypeOK, WorkerSet, OutcomesAgree, AnswerIsForCall
<1>9. CASE Publish \/ Republish
  BY <1>9, StatusFacts DEF OutcomesAgree, AnswerIsForCall
<1>17. CASE PublishFails
  BY <1>17 DEF PublishFails, OutcomesAgree, AnswerIsForCall
<1>10. CASE Inject
  BY <1>10 DEF Inject, OutcomesAgree, AnswerIsForCall
<1>11. CASE CarrierTimeout
  BY <1>11, FinishKeepsOutcomes DEF CarrierTimeout, NeedsCarrier, WorkerOutcomes
<1>12. CASE ResponseTimeout
  BY <1>12, FinishKeepsOutcomes DEF ResponseTimeout, WorkerOutcomes
<1>13. ASSUME NEW id \in Ids, Echo(id)
       PROVE  OutcomesAgree'
  <2>1. CASE Matches(id) /\ Finish("confirmed")
    BY <2>1, FinishKeepsOutcomes DEF Matches, WorkerOutcomes
  <2>2. CASE Matches(id) /\ MatchRaised
    BY <2>2 DEF MatchRaised, OutcomesAgree, AnswerIsForCall
  <2>3. CASE Matches(id) /\ RemovalRaised
    <3>1. /\ worker.holding \in Ids /\ worker'.holding = 0
          /\ worker'.last.id = worker.holding /\ worker'.last.outcome = "confirmed"
          /\ \A i \in Ids : i # worker.holding => settled'[i] = settled[i]
          /\ kept' = kept \union {worker.holding}
          /\ UNCHANGED <<callerVars, armFile, status, stopping, wire, executed, inserted>>
      BY <2>3, RemovalFacts DEF Matches
    <3>2. \A i \in Ids : i \notin kept' => settled'[i] = settled[i] /\ i \notin kept
      BY <3>1
    <3>3. AnswerIsForCall'
      BY <3>1, <3>2 DEF OutcomesAgree, AnswerIsForCall
    <3>4. (\A i \in Ids : i > Len(targets) => settled[i] = "none")'
      BY <3>1, IdFacts DEF OutcomesAgree
    <3>5. (armFile # 0 => settled[armFile] = "none" \/ armFile \in kept)'
      BY <3>1, <3>2, IdFacts DEF OutcomesAgree, TypeOK
    <3>6. (status.last.id # 0 =>
             /\ status.last.outcome = settled[status.last.id] \/ status.last.id \in kept
             /\ status.last.outcome # "none")'
      BY <3>1, <3>2, IdFacts DEF OutcomesAgree
    <3> QED BY <3>1, <3>3, <3>4, <3>5, <3>6 DEF OutcomesAgree
  <2>4. CASE UNCHANGED <<callerVars, armFile, status, worker, rejected, stopping, wire,
                         executed, history>>
    BY <2>4 DEF OutcomesAgree, AnswerIsForCall
  <2> QED BY <1>13, <2>1, <2>2, <2>3, <2>4 DEF Echo
<1>14. CASE WorkerEnds
  BY <1>14 DEF WorkerEnds, OutcomesAgree, AnswerIsForCall
<1>15. ASSUME NEW id \in Ids, HostExecutes(id)
       PROVE  OutcomesAgree'
  BY <1>15 DEF HostExecutes, OutcomesAgree, AnswerIsForCall
<1>16. CASE UNCHANGED vars
  BY <1>16 DEF OutcomesAgree, AnswerIsForCall
<1> QED
  BY <1>1, <1>2, <1>3, <1>4, <1>5, <1>6, <1>7, <1>8, <1>9, <1>10, <1>11, <1>12,
     <1>13, <1>14, <1>15, <1>16, <1>17
  DEF Next, WorkerStep

(* Injection happens to a request held and not yet injected.                 *)
LEMMA InsertionsStep ==
  ASSUME TypeOK, OutcomesAgree, InsertionsAgree, [Next]_vars
  PROVE  InsertionsAgree'
<1>1. CASE Check
  BY <1>1 DEF Check, InsertionsAgree, InsertedOnce
<1>2. CASE ArmWrite
  <2>1. armFile' = Len(targets') /\ armFile' \in Ids /\ armFile' > Len(targets)
    BY <1>2, ArmFacts DEF ArmWrite, Ids
  <2> QED
    BY <1>2, <2>1, IdFacts DEF ArmWrite, InsertionsAgree, InsertedOnce
<1>3. CASE Poll
  BY <1>3 DEF Poll, Return, InsertionsAgree, InsertedOnce
<1>4. CASE Deadline
  BY <1>4 DEF Deadline, Return, InsertionsAgree, InsertedOnce
<1>5. CASE StopCheck
  BY <1>5 DEF StopCheck, InsertionsAgree, InsertedOnce
<1>6. CASE StopKill
  BY <1>6 DEF StopKill, InsertionsAgree, InsertedOnce
<1>7. CASE Start
  BY <1>7 DEF Start, NewWorker, InsertionsAgree, InsertedOnce
<1>8. CASE ReadArm
  <2>1. CASE UNCHANGED worker
    BY <1>8, <2>1 DEF ReadArm, InsertionsAgree, InsertedOnce
  <2>2. CASE worker' = [worker EXCEPT !.holding = armFile, !.pc = "publish"]
    <3>1. worker'.holding = armFile /\ worker'.injected = worker.injected
      BY <2>2
    <3> QED
      BY <1>8, <3>1 DEF ReadArm, InsertionsAgree, InsertedOnce
  <2> QED
    BY <1>8, <2>1, <2>2 DEF ReadArm
<1>9. CASE Publish \/ Republish
  BY <1>9, StatusFacts DEF InsertionsAgree, InsertedOnce
<1>17. CASE PublishFails
  BY <1>17 DEF PublishFails, InsertionsAgree, InsertedOnce
<1>10. CASE Inject
  BY <1>10, IdFacts
    DEF Inject, NeedsCarrier, TypeOK, OutcomesAgree, InsertionsAgree, InsertedOnce
<1>11. CASE CarrierTimeout
  BY <1>11
    DEF CarrierTimeout, NeedsCarrier, Finish, Released, FileAfterFinish,
        InsertionsAgree, InsertedOnce
<1>12. CASE ResponseTimeout
  BY <1>12
    DEF ResponseTimeout, Finish, Released, FileAfterFinish, InsertionsAgree,
        InsertedOnce
<1>13. ASSUME NEW id \in Ids, Echo(id)
       PROVE  InsertionsAgree'
  <2>1. CASE Matches(id) /\ Finish("confirmed")
    <3>1. worker.holding # 0 /\ "confirmed" \in WorkerOutcomes
      BY <2>1 DEF Matches, WorkerOutcomes
    <3>2. echoes' \subseteq echoes
      BY <1>13 DEF Echo
    <3>3. /\ worker.holding \in Ids /\ worker' \in WorkerSet
          /\ worker'.holding = 0 /\ ~worker'.injected /\ armFile' = 0
          /\ worker'.last.id = worker.holding /\ worker'.last.outcome = "confirmed"
          /\ settled' \in [Ids -> Outcomes] /\ settled'[worker.holding] = "confirmed"
          /\ \A i \in Ids : i # worker.holding => settled'[i] = settled[i]
          /\ UNCHANGED <<callerVars, status, stopping, wire, executed, inserted, kept, faults>>
      BY <2>1, <3>1, FinishFacts
    <3> QED
      BY <3>2, <3>3 DEF InsertionsAgree, InsertedOnce
  <2>3. CASE Matches(id) /\ MatchRaised
    BY <2>3 DEF MatchRaised, InsertionsAgree, InsertedOnce
  <2>4. CASE Matches(id) /\ RemovalRaised
    <3>1. /\ worker.holding \in Ids /\ worker'.holding = 0 /\ ~worker'.injected
          /\ \A i \in Ids : i # worker.holding => settled'[i] = settled[i]
          /\ kept' = kept \union {worker.holding}
          /\ UNCHANGED <<callerVars, armFile, status, stopping, wire, executed, inserted>>
      BY <2>4, RemovalFacts DEF Matches
    <3>2. (armFile # 0 /\ armFile # worker.holding => inserted[armFile] = 0 \/ armFile \in kept)'
      BY <3>1 DEF InsertionsAgree
    <3>3. InsertedOnce'
      BY <3>1 DEF InsertionsAgree, InsertedOnce
    <3> QED BY <3>1, <3>2, <3>3 DEF InsertionsAgree
  <2>2. CASE UNCHANGED <<callerVars, armFile, status, worker, rejected, stopping, wire,
                         executed, history>>
    BY <1>13, <2>2 DEF Echo, InsertionsAgree, InsertedOnce
  <2> QED
    BY <1>13, <2>1, <2>2, <2>3, <2>4 DEF Echo
<1>14. CASE WorkerEnds
  BY <1>14 DEF WorkerEnds, InsertionsAgree, InsertedOnce
<1>15. ASSUME NEW id \in Ids, HostExecutes(id)
       PROVE  InsertionsAgree'
  BY <1>15 DEF HostExecutes, InsertionsAgree, InsertedOnce
<1>16. CASE UNCHANGED vars
  BY <1>16 DEF InsertionsAgree, InsertedOnce
<1> QED
  BY <1>1, <1>2, <1>3, <1>4, <1>5, <1>6, <1>7, <1>8, <1>9, <1>10, <1>11, <1>12,
     <1>13, <1>14, <1>15, <1>16, <1>17
  DEF Next, WorkerStep

(* A broadcast settles a request about the target the host executed.         *)
LEMMA ConfirmationsStep ==
  ASSUME TypeOK, OutcomesAgree, ConfirmationsAgree, [Next]_vars
  PROVE  ConfirmationsAgree'
<1>a. CASE UNCHANGED <<targets, executed, settled, kept>>
  BY <1>a DEF ConfirmationsAgree, TargetExecuted, Armed
<1>1. CASE Check
  BY <1>1, <1>a DEF Check
<1>2. CASE ArmWrite
  <2>1. \A i \in Armed' : i \in Armed \/ (i = Len(targets') /\ i > Len(targets) /\ i \in Ids)
    BY <1>2, ArmFacts DEF Armed, Ids
  <2>3. \A i \in Armed' : (settled[i] = "confirmed" \/ i \in kept)' => TargetExecuted(i)'
    <3>1. settled' = settled /\ executed' = executed /\ executed \subseteq Armed
          /\ kept' = kept /\ kept \subseteq Armed
      BY <1>2 DEF ArmWrite, TypeOK
    <3>2. \A i \in Armed : settled[i] = "confirmed" \/ i \in kept => TargetExecuted(i)'
      BY <3>1, ArmFacts, <1>2 DEF ConfirmationsAgree, TargetExecuted
    <3>3. \A i \in Ids : i > Len(targets) => settled'[i] = "none"
      BY <3>1 DEF OutcomesAgree
    <3> QED BY <2>1, <3>1, <3>2, <3>3
  <2> QED BY <2>3 DEF ConfirmationsAgree
<1>3. CASE Poll
  BY <1>3, <1>a DEF Poll, Return
<1>4. CASE Deadline
  BY <1>4, <1>a DEF Deadline, Return
<1>5. CASE StopCheck
  BY <1>5, <1>a DEF StopCheck
<1>6. CASE StopKill
  BY <1>6, <1>a DEF StopKill
<1>7. CASE Start
  BY <1>7, <1>a DEF Start
<1>8. CASE ReadArm
  BY <1>8, <1>a DEF ReadArm
<1>9. CASE Publish \/ Republish \/ PublishFails
  BY <1>9, <1>a DEF Publish, Republish, PublishFails, WriteStatus
<1>10. CASE Inject
  BY <1>10, <1>a DEF Inject
<1>11. CASE CarrierTimeout
  <2>1. /\ worker.holding # 0 /\ "carrier_timeout" \in WorkerOutcomes /\ Finish("carrier_timeout")
    BY <1>11 DEF CarrierTimeout, NeedsCarrier, WorkerOutcomes
  <2>2. /\ settled'[worker.holding] = "carrier_timeout"
        /\ \A i \in Ids : i # worker.holding => settled'[i] = settled[i]
        /\ UNCHANGED <<targets, executed, kept>>
    BY <2>1, FinishFacts
  <2> QED
    BY <2>2, SetsStay, IdFacts DEF ConfirmationsAgree, TargetExecuted
<1>12. CASE ResponseTimeout
  <2>1. /\ worker.holding # 0 /\ "response_timeout" \in WorkerOutcomes /\ Finish("response_timeout")
    BY <1>12 DEF ResponseTimeout, WorkerOutcomes
  <2>2. /\ settled'[worker.holding] = "response_timeout"
        /\ \A i \in Ids : i # worker.holding => settled'[i] = settled[i]
        /\ UNCHANGED <<targets, executed, kept>>
    BY <2>1, FinishFacts
  <2> QED
    BY <2>2, SetsStay, IdFacts DEF ConfirmationsAgree, TargetExecuted
<1>13. ASSUME NEW id \in Ids, Echo(id)
       PROVE  ConfirmationsAgree'
  <2>1. CASE Matches(id) /\ Finish("confirmed")
    <3>1. worker.holding # 0 /\ "confirmed" \in WorkerOutcomes
      BY <2>1 DEF Matches, WorkerOutcomes
    <3>2. id \in executed /\ targets[id] = targets[worker.holding]
      BY <1>13, <2>1 DEF Echo, Matches, SameTarget, TypeOK
    <3> QED
      <4>1. /\ worker.holding \in Armed /\ settled'[worker.holding] = "confirmed"
            /\ \A i \in Ids : i # worker.holding => settled'[i] = settled[i]
            /\ UNCHANGED <<targets, executed, kept>>
        BY <2>1, <3>1, FinishFacts
      <4> QED
        BY <3>2, <4>1, SetsStay, IdFacts DEF ConfirmationsAgree, TargetExecuted
  <2>3. CASE Matches(id) /\ MatchRaised
    BY <1>a, <2>3 DEF MatchRaised
  <2>4. CASE Matches(id) /\ RemovalRaised
    <3>1. id \in executed /\ targets[id] = targets[worker.holding] /\ worker.holding # 0
      BY <1>13, <2>4 DEF Echo, Matches, SameTarget, TypeOK
    <3>2. /\ \A i \in Ids : i # worker.holding => settled'[i] = settled[i]
          /\ kept' = kept \union {worker.holding} /\ UNCHANGED <<targets, executed>>
      BY <2>4, <3>1, RemovalFacts
    <3> QED BY <3>1, <3>2, SetsStay, IdFacts DEF ConfirmationsAgree, TargetExecuted
  <2>2. CASE UNCHANGED <<callerVars, armFile, status, worker, rejected, stopping, wire,
                         executed, history>>
    BY <1>13, <2>2 DEF ConfirmationsAgree, TargetExecuted, Armed
  <2> QED
    BY <1>13, <2>1, <2>2, <2>3, <2>4 DEF Echo
<1>14. CASE WorkerEnds
  BY <1>14, <1>a DEF WorkerEnds
<1>15. ASSUME NEW id \in Ids, HostExecutes(id)
       PROVE  ConfirmationsAgree'
  BY <1>15 DEF HostExecutes, ConfirmationsAgree, TargetExecuted, Armed
<1>16. CASE UNCHANGED vars
  BY <1>16, <1>a
<1> QED
  BY <1>1, <1>2, <1>3, <1>4, <1>5, <1>6, <1>7, <1>8, <1>9, <1>10, <1>11, <1>12,
     <1>13, <1>14, <1>15, <1>16
  DEF Next, WorkerStep

(* The invariant holds in every state of the worker and the callers (run and *)
(* _arm_and_wait_locked).                                                    *)
LEMMA RequestInvariance == Spec => []RequestInv
<1>1. RequestInv /\ [Next]_vars => RequestInv'
  BY RequestTypeStep, OutcomesStep, InsertionsStep, ConfirmationsStep DEF RequestInv
<1> QED BY <1>1, RequestInit, PTL DEF Spec

(* The answer a call returns is the outcome the worker gave that very       *)
(* request (_arm_and_wait_locked's poll of last_request).                   *)
THEOREM RequestAnswerIsForCall == Spec => []AnswerIsForCall
<1>1. RequestInv => AnswerIsForCall
  BY DEF RequestInv, OutcomesAgree
<1> QED BY <1>1, RequestInvariance, PTL

(* A request goes into the stream at most once, and one settled as a carrier *)
(* timeout never does (the injection branch of run, finish_request).         *)
THEOREM RequestInsertedOnce == Spec => []InsertedOnce
<1>1. RequestInv => InsertedOnce
  BY DEF RequestInv, InsertionsAgree
<1> QED BY <1>1, RequestInvariance, PTL

(* "confirmed" is at least true of the target: the host has executed a       *)
(* request about it (retag_matching_response compares actor and target).     *)
THEOREM RequestConfirmedTargetExecuted == Spec => []ConfirmedTargetExecuted
<1>1. RequestInv => ConfirmedTargetExecuted
  <2> SUFFICES ASSUME RequestInv, NEW i \in Ids, reported[i] = "confirmed"
               PROVE  TargetExecuted(i)
    BY DEF ConfirmedTargetExecuted
  <2>1. settled[i] = "confirmed" \/ i \in kept
    BY DEF RequestInv, OutcomesAgree, AnswerIsForCall, WorkerOutcomes
  <2>2. i \in Armed
    <3>1. i > Len(targets) => settled[i] = "none"
      BY DEF RequestInv, OutcomesAgree
    <3>2. i \in kept => i \in Armed
      BY DEF RequestInv, TypeOK
    <3>3. i \in Nat /\ i >= 1 /\ Len(targets) \in Nat
      BY IdFacts DEF RequestInv, Ids
    <3> QED BY <2>1, <3>1, <3>2, <3>3 DEF Armed
  <2> QED BY <2>1, <2>2 DEF RequestInv, ConfirmationsAgree
<1> QED BY <1>1, RequestInvariance, PTL
=============================================================================
