---------------------------- MODULE HandoverProofs ----------------------------
(***************************************************************************)
(* Proofs about the two hosts that hand the turns of a conversation over   *)
(* to a memory, and that both implement Handover.                          *)
(*                                                                         *)
(* Of an agent's conversation (StructuredMemoryMiddleware, HybridAgent):   *)
(* where it is cut, that its mirror and its committed updates follow it,   *)
(* and that LongTermMemoryMiddleware stores what is cut once and in order. *)
(* Of MemorySession: the window hands its turns over in order and never    *)
(* loses one, the latest two stay, and an eviction makes room for the      *)
(* memory that is rendered after it.  They hold for every budget, every    *)
(* number of messages to keep, every size of a message or a turn, and      *)
(* conversations of any length.                                            *)
(***************************************************************************)
EXTENDS HybridAgent, SessionWindow, SequenceLemmas

-----------------------------------------------------------------------------
(* Where the conversation is cut.                                          *)

(* Halving an interval stays within it.                                    *)
LEMMA ProbeType ==
  ASSUME NEW ms, NEW n \in Nat,
         NEW s \in [left: 0..n, right: 0..n, cutoff: 0..n]
  PROVE  Probe(ms, s) \in [left: 0..n, right: 0..n, cutoff: 0..n]
<1> DEFINE mid == (s.left + s.right) \div 2
<1>1. CASE s.left >= s.right
  BY <1>1 DEF Probe
<1>2. CASE ~(s.left >= s.right)
  <2>1. mid \in 0..n /\ mid + 1 \in 0..n
    BY <1>2
  <2>2. /\ [s EXCEPT !.cutoff = mid, !.right = mid]
             \in [left: 0..n, right: 0..n, cutoff: 0..n]
        /\ [s EXCEPT !.left = mid + 1]
             \in [left: 0..n, right: 0..n, cutoff: 0..n]
    <3> HIDE DEF mid
    <3> QED
      BY <2>1
  <2>3. Probe(ms, s) \in {[s EXCEPT !.cutoff = mid, !.right = mid],
                          [s EXCEPT !.left = mid + 1]}
    BY <1>2 DEF Probe
  <2> HIDE DEF mid
  <2>4. QED
    BY <2>2, <2>3
<1>3. QED
  BY <1>1, <1>2

(* Halving n again and again, as a table.                                  *)
LEMMA HalvedTable ==
  ASSUME NEW n \in Nat, NEW b \in Nat
  PROVE  \E h : /\ h \in [0..b -> Nat]
                /\ h[0] = n /\ h[b] = Halved(n, b)
                /\ \A k \in 1..b : h[k] = h[k - 1] \div 2
<1> DEFINE in == [i \in 1..b |-> i]
           R == Nat
           step == [q \in R \X (1..b) |-> q[1] \div 2]
           Eq(g) == g = [t \in SUBSET DOMAIN in |->
                           IF t = {} THEN n ELSE g[t \ {Max(t)}] \div 2]
           g == CHOOSE f : Eq(f)
<1>1. DOMAIN in = 1..b
  OBVIOUS
<1>2. Halved(n, b) = g[DOMAIN in]
  BY DEF Halved, FoldLeft, MapThenFoldSet
<1> HIDE DEF in, g
<1>3. IsStep(step, R, b) /\ \A r \in R, k \in 1..b : step[<<r, k>>] = r \div 2
  <2>1. \A r \in Nat : r \div 2 \in Nat
    OBVIOUS
  <2>2. QED
    BY <2>1 DEF IsStep
<1> HIDE DEF step
<1>4. Recurses(g, R, n, b, step)
  <2>1. PICK f : f \in [SUBSET (1..b) -> R] /\ Recurses(f, R, n, b, step)
    BY <1>3, SubsetRecursion
  <2>2. \A t \in SUBSET (1..b) : t # {} => /\ Max(t) \in 1..b
                                           /\ t \ {Max(t)} \in SUBSET (1..b)
    BY MaxOfInterval
  <2>3. Eq(f)
    BY <1>1, <1>3, <2>1, <2>2 DEF Recurses
  <2>4. Eq(g)
    BY <2>3 DEF g
  <2>5. QED
    BY <1>1, <1>3, <2>2, <2>4 DEF Recurses
<1>5. n \in R
  OBVIOUS
<1> HIDE DEF R
<1>6. PICK h : IsTable(h, R, n, b, step) /\ h[b] = g[1..b]
  BY <1>3, <1>4, <1>5, FoldTable
<1>7. h \in [0..b -> R] /\ h[0] = n /\ h[b] = Halved(n, b)
  BY <1>1, <1>2, <1>6 DEF IsTable
<1>8. ASSUME NEW k \in 1..b PROVE h[k] = h[k - 1] \div 2
  <2>1. h[k - 1] \in R
    BY <1>7, k - 1 \in 0..b
  <2>2. QED
    BY <1>3, <1>6, <2>1 DEF IsTable
<1>9. QED
  BY <1>7, <1>8 DEF R

(* A number of n bits is 0 after n halvings.                               *)
LEMMA BitLengthHalves ==
  ASSUME NEW n \in Nat
  PROVE  BitLength(n) \in Nat /\ Halved(n, BitLength(n)) = 0
<1> DEFINE T == {b \in 0..n : Halved(n, b) = 0}
<1>1. Halved(n, n) = 0
  <2>1. PICK h : /\ h \in [0..n -> Nat]
                 /\ h[0] = n /\ h[n] = Halved(n, n)
                 /\ \A k \in 1..n : h[k] = h[k - 1] \div 2
    BY HalvedTable
  <2> DEFINE S == {k \in 0..n : h[k] <= n - k}
  <2>2. 0 \in S
    BY <2>1
  <2>3. ASSUME NEW k \in 1..n, k - 1 \in S PROVE k \in S
    <3>1. /\ k - 1 \in 0..n /\ h[k - 1] \in Nat /\ h[k - 1] <= n - (k - 1)
          /\ h[k] = h[k - 1] \div 2
      BY <2>1, <2>3
    <3>2. h[k - 1] \div 2 <= n - k
      BY <3>1
    <3>3. QED
      BY <3>1, <3>2
  <2> HIDE DEF S
  <2>4. \A k \in 0..n : k \in S
    BY <2>2, <2>3, Induction
  <2>5. n \in S
    BY <2>4
  <2>6. h[n] <= 0 /\ h[n] \in Nat
    BY <2>1, <2>5 DEF S
  <2>7. QED
    BY <2>1, <2>6
<1>2. T \in SUBSET Nat /\ T # {}
  BY <1>1
<1> HIDE DEF T
<1>3. Min(T) \in T /\ Min(T) \in Nat
  BY <1>2, MinOfNaturals
<1>4. BitLength(n) = Min(T)
  BY DEF BitLength, T
<1>5. QED
  BY <1>3, <1>4 DEF T

(* The halvings of a number down to nothing, as many as it has bits.       *)
LEMMA BitLengthTable ==
  ASSUME NEW n \in Nat
  PROVE  \E h : /\ h \in [0..BitLength(n) -> Nat]
                /\ h[0] = n /\ h[BitLength(n)] = 0
                /\ \A k \in 1..BitLength(n) : h[k] = h[k - 1] \div 2
<1>1. BitLength(n) \in Nat /\ Halved(n, BitLength(n)) = 0
  BY BitLengthHalves
<1>2. PICK h : /\ h \in [0..BitLength(n) -> Nat]
               /\ h[0] = n /\ h[BitLength(n)] = Halved(n, BitLength(n))
               /\ \A k \in 1..BitLength(n) : h[k] = h[k - 1] \div 2
  BY <1>1, HalvedTable
<1>3. QED
  BY <1>1, <1>2

(* What the halving keeps true: the messages from right on fit the target, *)
(* and those from one before left on do not.                               *)
Searched(ms, s) ==
  /\ s.left <= s.right /\ s.cutoff = s.right
  /\ TokenCount(From(ms, s.right)) <= TargetTokens
  /\ s.left > 0 => TokenCount(From(ms, s.left - 1)) > TargetTokens

(* A probe keeps it true and halves the interval.                          *)
LEMMA ProbeHalves ==
  ASSUME NEW ms, NEW n \in Nat,
         NEW s \in [left: 0..n, right: 0..n, cutoff: 0..n], Searched(ms, s),
         \A c \in 0..n : TokenCount(From(ms, c)) \in Nat, TargetTokens \in Nat
  PROVE  /\ Searched(ms, Probe(ms, s))
         /\ Probe(ms, s).right - Probe(ms, s).left <= (s.right - s.left) \div 2
<1> DEFINE mid == (s.left + s.right) \div 2
           fits == TokenCount(From(ms, mid)) <= TargetTokens
           down == [s EXCEPT !.cutoff = mid, !.right = mid]
           up == [s EXCEPT !.left = mid + 1]
<1>1. CASE s.left >= s.right
  <2>1. Probe(ms, s) = s
    BY <1>1 DEF Probe
  <2>2. s.right - s.left = 0
    BY <1>1 DEF Searched
  <2>3. QED
    BY <2>1, <2>2
<1>2. CASE ~(s.left >= s.right)
  <2>1. Probe(ms, s) = IF fits THEN down ELSE up
    BY <1>2 DEF Probe
  <2>2. mid \in 0..n /\ mid >= s.left /\ mid + 1 <= s.right
        /\ mid - s.left <= (s.right - s.left) \div 2
        /\ s.right - (mid + 1) <= (s.right - s.left) \div 2
    BY <1>2
  <2>3. /\ down.left = s.left /\ down.right = mid /\ down.cutoff = mid
        /\ up.left = mid + 1 /\ up.right = s.right /\ up.cutoff = s.cutoff
    OBVIOUS
  <2>4. TokenCount(From(ms, mid)) \in Nat
    BY <2>2
  <2> HIDE DEF mid, down, up
  <2>5. CASE fits
    BY <2>1, <2>2, <2>3, <2>5 DEF Searched
  <2>6. CASE ~fits
    <3>1. up.left > 0 /\ up.left - 1 = mid
      BY <2>2, <2>3
    <3>2. TokenCount(From(ms, up.left - 1)) > TargetTokens
      BY <2>4, <2>6, <3>1
    <3>3. QED
      BY <2>1, <2>2, <2>3, <2>6, <3>2 DEF Searched
  <2>7. QED
    BY <2>5, <2>6
<1>3. QED
  BY <1>1, <1>2

(* The probes of the search, one after the other.                          *)
SearchTable(h, ms) ==
  LET n == Len(ms)
      N == BitLength(n) + 1
  IN  /\ h \in [0..N -> [left: 0..n, right: 0..n, cutoff: 0..n]]
      /\ h[0] = [left |-> 0, right |-> n, cutoff |-> n]
      /\ \A k \in 1..N : h[k] = Probe(ms, h[k - 1])
      /\ TokenCutoff(ms)
           = LET cutoff == IF h[N].cutoff = n THEN h[N].left ELSE h[N].cutoff
             IN  IF cutoff < n THEN cutoff ELSE IF n > 1 THEN n - 1 ELSE 0

(* The fold of TokenCutoff is such a table.                                *)
LEMMA SearchSteps ==
  ASSUME NEW ms \in Seq(Message)
  PROVE  \E h : SearchTable(h, ms)
<1> DEFINE n == Len(ms)
           in == [i \in 1..(BitLength(n) + 1) |-> i]
           N == BitLength(n) + 1
           R == [left: 0..n, right: 0..n, cutoff: 0..n]
           base == [left |-> 0, right |-> n, cutoff |-> n]
           step == [p \in R \X (1..N) |-> Probe(ms, p[1])]
           Eq(g) == g = [t \in SUBSET DOMAIN in |->
                           IF t = {} THEN base ELSE Probe(ms, g[t \ {Max(t)}])]
           g == CHOOSE f : Eq(f)
           found == FoldLeft(LAMBDA s, i : Probe(ms, s), base, in)
<1>1. n \in Nat /\ N \in Nat
  BY BitLengthHalves
<1>2. DOMAIN in = 1..N
  OBVIOUS
<1>3. found = g[DOMAIN in]
  BY DEF FoldLeft, MapThenFoldSet
<1>4. base \in R
  BY <1>1
<1>5. TokenCutoff(ms)
        = LET cutoff == IF found.cutoff = n THEN found.left ELSE found.cutoff
          IN  IF cutoff < n THEN cutoff ELSE IF n > 1 THEN n - 1 ELSE 0
  BY DEF TokenCutoff
<1>6. \A r \in R : Probe(ms, r) \in R
  BY <1>1, ProbeType
<1> HIDE DEF in, N, base, g, found, n
<1>7. IsStep(step, R, N) /\ \A r \in R, k \in 1..N : step[<<r, k>>] = Probe(ms, r)
  BY <1>6 DEF IsStep
<1> HIDE DEF step, R
<1>8. Recurses(g, R, base, N, step)
  <2>1. PICK f : f \in [SUBSET (1..N) -> R] /\ Recurses(f, R, base, N, step)
    BY <1>1, <1>4, <1>7, SubsetRecursion
  <2>2. \A t \in SUBSET (1..N) : t # {} => /\ Max(t) \in 1..N
                                           /\ t \ {Max(t)} \in SUBSET (1..N)
    BY <1>1, MaxOfInterval
  <2>3. Eq(f)
    BY <1>2, <1>7, <2>1, <2>2 DEF Recurses
  <2>4. Eq(g)
    BY <2>3 DEF g
  <2>5. QED
    BY <1>2, <1>7, <2>2, <2>4 DEF Recurses
<1>9. PICK h : IsTable(h, R, base, N, step) /\ h[N] = g[1..N]
  BY <1>1, <1>4, <1>7, <1>8, FoldTable
<1>10. h \in [0..N -> R] /\ h[0] = base /\ h[N] = found
  BY <1>2, <1>3, <1>9 DEF IsTable
<1>11. ASSUME NEW k \in 1..N PROVE h[k] = Probe(ms, h[k - 1])
  <2>1. h[k - 1] \in R
    BY <1>1, <1>10, k - 1 \in 0..N
  <2>2. QED
    BY <1>7, <1>9, <2>1 DEF IsTable
<1>12. TokenCutoff(ms)
         = LET cutoff == IF h[N].cutoff = n THEN h[N].left ELSE h[N].cutoff
           IN  IF cutoff < n THEN cutoff ELSE IF n > 1 THEN n - 1 ELSE 0
  BY <1>5, <1>10
<1>13. QED
  BY <1>10, <1>11, <1>12 DEF SearchTable, R, base, n, N

(* The token budget asks for a number of messages to evict.                *)
LEMMA TokenCutoffType ==
  ASSUME NEW ms \in Seq(Message)
  PROVE  TokenCutoff(ms) \in Nat
<1> DEFINE n == Len(ms)
           N == BitLength(n) + 1
<1>1. n \in Nat /\ N \in Nat
  BY BitLengthHalves
<1>2. PICK h : SearchTable(h, ms)
  BY SearchSteps
<1>3. h[N] \in [left: 0..n, right: 0..n, cutoff: 0..n]
  BY <1>1, <1>2 DEF SearchTable
<1>4. h[N].left \in 0..n /\ h[N].cutoff \in 0..n
  BY <1>3
<1>5. TokenCutoff(ms)
        = LET cutoff == IF h[N].cutoff = n THEN h[N].left ELSE h[N].cutoff
          IN  IF cutoff < n THEN cutoff ELSE IF n > 1 THEN n - 1 ELSE 0
  BY <1>2 DEF SearchTable
<1> HIDE DEF n, N
<1>6. QED
  BY <1>1, <1>4, <1>5

(* The tail that always stays.                                             *)
LEMMA MaxCutoffBound ==
  ASSUME EvictionAssumption, NEW ms \in Seq(Message)
  PROVE  /\ MaxCutoff(ms) \in 0..Len(ms)
         /\ Len(ms) > 0 => MaxCutoff(ms) < Len(ms)
         /\ \A k \in 1..Len(ms) : k > Len(ms) - KeepMessages => k > MaxCutoff(ms)
         /\ KeepMessages >= 2 /\ Len(ms) >= 2 => MaxCutoff(ms) <= Len(ms) - 2
<1> DEFINE T == {KeepMessages, Len(ms)}
<1>1. KeepMessages \in Nat \ {0} /\ Len(ms) \in Nat
  BY DEF EvictionAssumption
<1>2. T \in SUBSET Nat /\ T # {}
  BY <1>1
<1>3. Min(T) \in T /\ \A n \in T : Min(T) <= n
  <2> HIDE DEF T
  <2> QED
    BY <1>2, MinOfNaturals
<1>4. /\ Min(T) = KeepMessages \/ Min(T) = Len(ms)
      /\ Min(T) <= KeepMessages /\ Min(T) <= Len(ms)
  BY <1>3
<1>5. MaxCutoff(ms) = Len(ms) - Min(T)
  BY DEF MaxCutoff
<1> HIDE DEF T
<1>6. QED
  BY <1>1, <1>4, <1>5

(* A cut stays where it is unless it is before a ToolMessage: then it goes *)
(* back to an AIMessage, or past the whole run of ToolMessages.            *)
LEMMA SafeCutoffCases ==
  ASSUME NEW ms \in Seq(Message), NEW cutoff \in 1..Len(ms)
  PROVE  LET safe == SafeCutoffPoint(ms, cutoff)
         IN  \/ (cutoff = Len(ms) \/ ~IsTool(ms, cutoff)) /\ safe = cutoff
             \/ /\ IsTool(ms, cutoff)
                /\ safe \in 0..(cutoff - 1) /\ ms[safe + 1].kind = "call"
             \/ /\ IsTool(ms, cutoff)
                /\ safe \in (cutoff + 1)..Len(ms)
                /\ \A k \in cutoff..(safe - 1) : IsTool(ms, k)
                /\ safe = Len(ms) \/ ~IsTool(ms, safe)
<1>1. CASE cutoff >= Len(ms) \/ ~IsTool(ms, cutoff)
  BY <1>1 DEF SafeCutoffPoint
<1>2. CASE cutoff < Len(ms) /\ IsTool(ms, cutoff)
  <2> DEFINE ends == {k \in cutoff..Len(ms) : k = Len(ms) \/ ~IsTool(ms, k)}
             end == ToolRunEnd(ms, cutoff)
             answered == {ms[k + 1].call : k \in cutoff..(end - 1)}
             callers == {i \in 0..(cutoff - 1) : ms[i + 1].kind = "call"
                                                   /\ ms[i + 1].id \in answered}
  <2>1. ends \in SUBSET Nat /\ Len(ms) \in ends
    OBVIOUS
  <2>2. end \in ends /\ \A k \in ends : end <= k
    <3> HIDE DEF ends
    <3>1. Min(ends) \in ends /\ \A k \in ends : Min(ends) <= k
      BY <2>1, MinOfNaturals
    <3>2. QED
      BY <3>1 DEF ends, ToolRunEnd
  <2>3. SafeCutoffPoint(ms, cutoff) = IF callers # {} THEN Max(callers) ELSE end
    <3>1. ~(cutoff >= Len(ms)) /\ IsTool(ms, cutoff)
      BY <1>2
    <3>2. QED
      BY <3>1 DEF SafeCutoffPoint
  <2>4. CASE callers = {}
    <3>1. SafeCutoffPoint(ms, cutoff) = end
      BY <2>3, <2>4
    <3>2. end \in cutoff..Len(ms) /\ (end = Len(ms) \/ ~IsTool(ms, end))
      BY <2>2
    <3> HIDE DEF end
    <3>3. end \in (cutoff + 1)..Len(ms)
      <4>1. end # cutoff
        BY <1>2, <3>2
      <4>2. QED
        BY <3>2, <4>1
    <3>4. ASSUME NEW k \in cutoff..(end - 1) PROVE IsTool(ms, k)
      <4>1. k \in cutoff..Len(ms) /\ ~(end <= k)
        BY <3>3
      <4>2. k \notin ends
        BY <2>2, <4>1
      <4>3. QED
        BY <4>1, <4>2
    <3>5. QED
      BY <1>2, <3>1, <3>2, <3>3, <3>4
  <2>5. CASE callers # {}
    <3>1. callers \in SUBSET Int /\ \A i \in callers : i <= Len(ms)
      OBVIOUS
    <3>2. Max(callers) \in callers
      <4> HIDE DEF callers
      <4> QED
        BY <2>5, <3>1, Len(ms) \in Int, MaxOfBounded
    <3> DEFINE c == Max(callers)
    <3>3. c \in 0..(cutoff - 1) /\ ms[c + 1].kind = "call"
      BY <3>2
    <3>4. SafeCutoffPoint(ms, cutoff) = c
      BY <2>3, <2>5
    <3> HIDE DEF c
    <3>5. QED
      BY <1>2, <3>3, <3>4
  <2>6. QED
    BY <2>4, <2>5
<1>3. QED
  BY <1>1, <1>2

(* A cut within the list, other than at its start, is never before a       *)
(* ToolMessage.                                                            *)
LEMMA SafeCutoffIsNoTool ==
  ASSUME NEW ms \in Seq(Message), NEW cutoff \in 1..Len(ms)
  PROVE  /\ SafeCutoffPoint(ms, cutoff) \in 0..Len(ms)
         /\ SafeCutoffPoint(ms, cutoff) < Len(ms) => ~IsTool(ms, SafeCutoffPoint(ms, cutoff))
<1> DEFINE safe == SafeCutoffPoint(ms, cutoff)
<1>1. \/ (cutoff = Len(ms) \/ ~IsTool(ms, cutoff)) /\ safe = cutoff
      \/ safe \in 0..(cutoff - 1) /\ ms[safe + 1].kind = "call"
      \/ safe \in (cutoff + 1)..Len(ms) /\ (safe = Len(ms) \/ ~IsTool(ms, safe))
  BY SafeCutoffCases
<1> HIDE DEF safe
<1>2. ms[safe + 1].kind = "call" => ~IsTool(ms, safe)
  BY DEF IsTool
<1>3. safe \in 0..Len(ms) /\ (safe < Len(ms) => ~IsTool(ms, safe))
  BY <1>1, <1>2
<1>4. QED
  BY <1>3 DEF safe

(* _find_cutoff returns 0, the safe point of a cut that token budget and   *)
(* tail both allow, or, where that point is within the tail, a cut before  *)
(* a message that is no tool.                                              *)
LEMMA FindCutoffCases ==
  ASSUME EvictionAssumption, NEW ms \in Seq(Message)
  PROVE  \/ FindCutoff(ms) = 0
         \/ \E wanted \in 1..MaxCutoff(ms) :
              /\ wanted <= TokenCutoff(ms)
              /\ wanted < MaxCutoff(ms) => wanted = TokenCutoff(ms)
              /\ LET safe == SafeCutoffPoint(ms, wanted)
                 IN  IF safe <= MaxCutoff(ms) THEN FindCutoff(ms) = safe
                     ELSE /\ FindCutoff(ms) \in 1..MaxCutoff(ms)
                          /\ ~IsTool(ms, FindCutoff(ms))
<1> DEFINE W == {TokenCutoff(ms), MaxCutoff(ms)}
           wanted == Min(W)
           safe == SafeCutoffPoint(ms, wanted)
           F == {0} \cup {k \in 0..MaxCutoff(ms) : k < Len(ms) /\ ~IsTool(ms, k)}
           floor == Max(F)
<1>1. MaxCutoff(ms) \in 0..Len(ms) /\ Len(ms) \in Nat
  BY MaxCutoffBound
<1>2. W \in SUBSET Nat /\ W # {}
  BY <1>1, TokenCutoffType
<1>3. /\ wanted \in Nat /\ wanted <= MaxCutoff(ms) /\ wanted <= TokenCutoff(ms)
      /\ wanted = MaxCutoff(ms) \/ wanted = TokenCutoff(ms)
  <2>1. Min(W) \in W /\ Min(W) \in Nat /\ \A n \in W : Min(W) <= n
    <3> HIDE DEF W
    <3> QED
      BY <1>2, MinOfNaturals
  <2>2. QED
    BY <2>1
<1>4. FindCutoff(ms) = IF TokenCount(ms) <= TargetTokens \/ wanted <= 0 THEN 0
                       ELSE IF safe > MaxCutoff(ms) THEN floor ELSE safe
  BY DEF FindCutoff
<1>5. floor \in F
  <2>1. F \in SUBSET Int /\ F # {} /\ \A i \in F : i <= MaxCutoff(ms)
    BY <1>1
  <2> HIDE DEF F
  <2>2. Max(F) \in F
    BY <1>1, <2>1, MaxCutoff(ms) \in Int, MaxOfBounded
  <2>3. QED
    BY <2>2
<1>6. floor \in 0..MaxCutoff(ms) /\ (floor > 0 => ~IsTool(ms, floor))
  <2> HIDE DEF floor
  <2> QED
    BY <1>1, <1>5
<1>7. CASE wanted <= 0
  BY <1>4, <1>7
<1>8. CASE ~(wanted <= 0)
  <2>1. wanted \in 1..MaxCutoff(ms) /\ wanted \in 1..Len(ms)
        /\ wanted <= TokenCutoff(ms)
        /\ (wanted < MaxCutoff(ms) => wanted = TokenCutoff(ms))
    <3> HIDE DEF wanted
    <3> QED
      BY <1>1, <1>3, <1>8
  <2> HIDE DEF wanted, floor
  <2>2. safe \in 0..Len(ms)
    BY <2>1, SafeCutoffIsNoTool
  <2>3. \/ FindCutoff(ms) = 0
        \/ IF safe <= MaxCutoff(ms) THEN FindCutoff(ms) = safe
           ELSE FindCutoff(ms) \in 1..MaxCutoff(ms) /\ ~IsTool(ms, FindCutoff(ms))
    <3> HIDE DEF safe
    <3> QED
      BY <1>1, <1>4, <1>6, <2>2
  <2>4. QED
    BY <2>1, <2>3
<1>9. QED
  BY <1>7, <1>8

(* What _find_cutoff returns leaves the tail alone, and the conversation   *)
(* that stays does not start with a ToolMessage.                           *)
LEMMA FindCutoffIsSafe ==
  ASSUME EvictionAssumption, NEW ms \in Seq(Message)
  PROVE  /\ FindCutoff(ms) \in 0..MaxCutoff(ms)
         /\ FindCutoff(ms) > 0 => ~IsTool(ms, FindCutoff(ms))
<1>1. MaxCutoff(ms) \in 0..Len(ms) /\ (Len(ms) > 0 => MaxCutoff(ms) < Len(ms))
      /\ Len(ms) \in Nat
  BY MaxCutoffBound
<1>2. CASE FindCutoff(ms) = 0
  BY <1>1, <1>2
<1>3. CASE FindCutoff(ms) # 0
  <2>1. PICK wanted \in 1..MaxCutoff(ms) :
          IF SafeCutoffPoint(ms, wanted) <= MaxCutoff(ms)
          THEN FindCutoff(ms) = SafeCutoffPoint(ms, wanted)
          ELSE FindCutoff(ms) \in 1..MaxCutoff(ms) /\ ~IsTool(ms, FindCutoff(ms))
    BY <1>3, FindCutoffCases
  <2>2. wanted \in 1..Len(ms) /\ Len(ms) > 0
    BY <1>1
  <2> DEFINE safe == SafeCutoffPoint(ms, wanted)
  <2>3. safe \in 0..Len(ms) /\ (safe < Len(ms) => ~IsTool(ms, safe))
    BY <2>2, SafeCutoffIsNoTool
  <2> HIDE DEF safe
  <2>4. QED
    BY <1>1, <2>1, <2>2, <2>3 DEF safe
<1>4. QED
  BY <1>2, <1>3

-----------------------------------------------------------------------------
(* Ids of messages.                                                        *)

IdsInOrder(ms) == \A j, k \in 1..Len(ms) : j < k => ms[j].id < ms[k].id

IdSeq(ms) == [k \in DOMAIN ms |-> ms[k].id]

(* The ids of the messages that a comprehension keeps: in order, and those *)
(* of the messages in S.                                                   *)
LEMMA KeptIds ==
  ASSUME NEW ms \in Seq(Message), IdsInOrder(ms), NEW S
  PROVE  /\ IdSeq(Keep(ms, S)) \in Seq(Nat)
         /\ Increasing(IdSeq(Keep(ms, S)))
         /\ \A x : x \in ToSet(IdSeq(Keep(ms, S)))
                     <=> \E k \in 1..Len(ms) : ms[k] \in S /\ x = ms[k].id
<1> DEFINE r == Keep(ms, S)
           ids == IdSeq(r)
<1>1. r \in Seq(Message)
  BY KeepSublist
<1>2. PICK idx : Picks(r, idx, ms, S, Len(ms))
  BY KeepSublist
<1> HIDE DEF r
<1>3. /\ Len(ids) = Len(r) /\ Len(r) \in Nat /\ DOMAIN ids = 1..Len(r)
      /\ ids \in Seq(Nat)
      /\ \A k \in 1..Len(r) : ids[k] = r[k].id
  <2>1. \A k \in 1..Len(r) : r[k].id \in Nat
    <3>1. \A k \in 1..Len(r) : r[k] \in Message
      BY <1>1
    <3>2. QED
      BY <3>1 DEF Message
  <2>2. ids = [k \in 1..Len(r) |-> r[k].id]
    BY <1>1 DEF IdSeq
  <2> HIDE DEF ids
  <2>3. QED
    BY <1>1, <2>1, <2>2
<1>4. \A k \in 1..Len(r) : /\ idx[k] \in 1..Len(ms) /\ ids[k] = ms[idx[k]].id
                           /\ ms[idx[k]] \in S
  BY <1>2, <1>3 DEF Picks
<1> HIDE DEF ids
<1>5. Increasing(ids)
  <2> SUFFICES ASSUME NEW j \in 1..Len(r), NEW k \in 1..Len(r), j < k
               PROVE  ids[j] < ids[k]
    BY <1>3 DEF Increasing
  <2>1. idx[j] < idx[k]
    BY <1>2 DEF Picks
  <2>2. QED
    BY <1>4, <2>1 DEF IdsInOrder
<1>6. ASSUME NEW x \in ToSet(ids)
      PROVE  \E k \in 1..Len(ms) : ms[k] \in S /\ x = ms[k].id
  <2>1. PICK k \in 1..Len(r) : x = ids[k]
    BY <1>3 DEF ToSet
  <2>2. QED
    BY <1>4, <2>1
<1>7. ASSUME NEW k \in 1..Len(ms), ms[k] \in S
      PROVE  ms[k].id \in ToSet(ids)
  <2>1. PICK j \in 1..Len(r) : idx[j] = k
    BY <1>2, <1>7 DEF Picks
  <2>2. ids[j] = ms[k].id /\ j \in DOMAIN ids
    BY <1>3, <1>4, <2>1
  <2>3. QED
    BY <2>2 DEF ToSet
<1>8. QED
  BY <1>3, <1>5, <1>6, <1>7 DEF ids, r

(* The tail of a conversation from a cutoff on.                            *)
LEMMA FromTail ==
  ASSUME NEW ms \in Seq(Message), NEW c \in 0..Len(ms)
  PROVE  /\ From(ms, c) \in Seq(Message)
         /\ Len(From(ms, c)) = Len(ms) - c
         /\ \A k \in 1..(Len(ms) - c) : From(ms, c)[k] = ms[c + k]
<1>1. Len(ms) \in Nat
  OBVIOUS
<1>2. From(ms, c) = [k \in 1..(Len(ms) - c) |-> ms[c + k]]
  BY <1>1 DEF From
<1>3. QED
  BY <1>1, <1>2

-----------------------------------------------------------------------------
(* The inductive invariant of the middleware and its agent.                *)

AgentTypeOK ==
  /\ messages \in Seq(Message)
  /\ said \in Nat
  /\ mirrored \in Seq(Nat)
  /\ recorded \subseteq 1..Len(mirrored)
  /\ pc \in {"user", "mirror", "evict", "recall", "model", "tools"}

InOrder(ms, last) ==
  /\ IdsInOrder(ms)
  /\ \A k \in 1..Len(ms) : ms[k].id <= last

(* Ids of messages that are kept elsewhere (the transcript, what is        *)
(* tracked), in order: of the messages wanted there, only ones said later  *)
(* than all of these may be missing.                                       *)
KeptUpTo(ids, wanted, ms, last) ==
  /\ Increasing(ids)
  /\ \A x \in ToSet(ids) : x <= last
  /\ \A k \in 1..Len(ms) : ms[k] \in wanted =>
       ms[k].id \in ToSet(ids) \/ \A x \in ToSet(ids) : x < ms[k].id

MirrorInOrder ==
  /\ KeptUpTo(mirrored, Message, messages, said)
  /\ pc = "evict" => \A k \in 1..Len(messages) : messages[k].id \in ToSet(mirrored)

ToolsFollowCalls ==
  /\ \A k \in 1..Len(messages) : FollowsItsCall(messages, k)
  /\ pc = "tools" => messages # <<>> /\ Last(messages).kind = "call"

AgentInv == AgentTypeOK /\ InOrder(messages, said) /\ MirrorInOrder /\ ToolsFollowCalls

-----------------------------------------------------------------------------
(* The three ways in which lists change.                                   *)

(* New messages at the end, numbered on from the last one.                 *)
Grown(ms, new, last, n) ==
  /\ new \in Seq(Message)
  /\ Len(new) = Len(ms) + n
  /\ \A k \in 1..Len(ms) : new[k] = ms[k]
  /\ \A k \in (Len(ms) + 1)..(Len(ms) + n) : new[k].id = last + (k - Len(ms))

(* A conversation in order stays in order as messages are added to it.     *)
LEMMA GrownInOrder ==
  ASSUME NEW ms \in Seq(Message), NEW last \in Nat, NEW n \in Nat, NEW new,
         Grown(ms, new, last, n), InOrder(ms, last)
  PROVE  InOrder(new, last + n)
<1> DEFINE m == Len(ms)
<1>1. \A k \in 1..m : ms[k].id \in Nat
  <2>1. \A k \in 1..m : ms[k] \in Message
    OBVIOUS
  <2>2. QED
    BY <2>1 DEF Message
<1>2. /\ m \in Nat /\ Len(new) = m + n
      /\ \A k \in 1..m : new[k] = ms[k]
      /\ \A k \in (m + 1)..(m + n) : new[k].id = last + (k - m)
  <2>1. m \in Nat
    OBVIOUS
  <2>2. Grown(ms, new, last, n)
    OBVIOUS
  <2>3. QED
    BY <2>1, <2>2 DEF Grown
<1>3. /\ \A k \in 1..m : ms[k].id <= last
      /\ \A j, k \in 1..m : j < k => ms[j].id < ms[k].id
  BY DEF InOrder, IdsInOrder
<1> HIDE DEF m
<1>4. \A k \in 1..(m + n) : new[k].id <= last + n
  <2> TAKE k \in 1..(m + n)
  <2>1. CASE k \in 1..m
    BY <1>1, <1>2, <1>3, <2>1
  <2>2. CASE k \in (m + 1)..(m + n)
    BY <1>2, <2>2
  <2>3. QED
    BY <1>2, <2>1, <2>2
<1>5. ASSUME NEW j \in 1..(m + n), NEW k \in 1..(m + n), j < k
      PROVE  new[j].id < new[k].id
  <2>1. CASE k \in 1..m
    <3>1. j \in 1..m
      BY <1>2, <1>5, <2>1
    <3>2. QED
      BY <1>2, <1>3, <1>5, <2>1, <3>1
  <2>2. CASE j \in 1..m /\ k \in (m + 1)..(m + n)
    <3>1. new[j].id \in Nat /\ new[j].id <= last
      BY <1>1, <1>2, <1>3, <2>2
    <3>2. new[k].id = last + (k - m) /\ k - m > 0
      BY <1>2, <2>2
    <3>3. QED
      BY <3>1, <3>2, <1>2
  <2>3. CASE j \in (m + 1)..(m + n) /\ k \in (m + 1)..(m + n)
    <3>1. new[j].id = last + (j - m) /\ new[k].id = last + (k - m)
      BY <1>2, <2>3
    <3>2. QED
      BY <1>2, <1>5, <3>1
  <2>4. QED
    BY <1>2, <1>5, <2>1, <2>2, <2>3
<1>6. QED
  BY <1>2, <1>4, <1>5 DEF InOrder, IdsInOrder

(* A list that is kept up to a conversation stays so as messages are added *)
(* that it has not seen yet.                                               *)
LEMMA GrownKept ==
  ASSUME NEW ms \in Seq(Message), NEW last \in Nat, NEW n \in Nat, NEW new,
         Grown(ms, new, last, n), NEW ids \in Seq(Nat), NEW wanted,
         KeptUpTo(ids, wanted, ms, last)
  PROVE  KeptUpTo(ids, wanted, new, last + n)
<1> DEFINE m == Len(ms)
<1>1. \A x \in ToSet(ids) : x \in Nat /\ x <= last
  BY DEF KeptUpTo, ToSet
<1>2. /\ m \in Nat /\ Len(new) = m + n
      /\ \A k \in 1..m : new[k] = ms[k]
      /\ \A k \in (m + 1)..(m + n) : new[k].id = last + (k - m)
  BY DEF Grown
<1>3. ASSUME NEW k \in 1..(m + n), new[k] \in wanted
      PROVE  new[k].id \in ToSet(ids) \/ \A x \in ToSet(ids) : x < new[k].id
  <2>1. CASE k \in 1..m
    BY <1>2, <1>3, <2>1 DEF KeptUpTo
  <2>2. CASE k \in (m + 1)..(m + n)
    <3>1. new[k].id = last + (k - m) /\ k - m > 0 /\ k - m \in Nat
      BY <1>2, <2>2
    <3>2. QED
      BY <1>1, <3>1
  <2>3. QED
    BY <1>2, <2>1, <2>2
<1> HIDE DEF m
<1>4. QED
  BY <1>1, <1>2, <1>3 DEF KeptUpTo

(* The oldest messages leave.                                              *)
LEMMA CutInOrder ==
  ASSUME NEW ms \in Seq(Message), NEW last, NEW c \in 0..Len(ms),
         InOrder(ms, last), NEW ids, NEW wanted, KeptUpTo(ids, wanted, ms, last)
  PROVE  InOrder(From(ms, c), last) /\ KeptUpTo(ids, wanted, From(ms, c), last)
<1> DEFINE new == From(ms, c)
<1>1. /\ Len(ms) \in Nat /\ Len(new) = Len(ms) - c
      /\ \A k \in 1..Len(new) : c + k \in 1..Len(ms) /\ new[k] = ms[c + k]
  <2>1. /\ Len(ms) \in Nat /\ c \in Nat /\ Len(new) = Len(ms) - c
        /\ \A k \in 1..(Len(ms) - c) : new[k] = ms[c + k]
    BY FromTail
  <2> HIDE DEF new
  <2>2. \A k \in 1..Len(new) : c + k \in 1..Len(ms) /\ k \in 1..(Len(ms) - c)
    BY <2>1
  <2>3. QED
    BY <2>1, <2>2
<1> HIDE DEF new
<1>2. InOrder(new, last)
  <2>1. ASSUME NEW j \in 1..Len(new), NEW k \in 1..Len(new), j < k
        PROVE  new[j].id < new[k].id
    <3>1. c + j < c + k
      BY <2>1
    <3>2. QED
      BY <1>1, <3>1 DEF InOrder, IdsInOrder
  <2>2. QED
    BY <1>1, <2>1 DEF InOrder, IdsInOrder
<1>3. KeptUpTo(ids, wanted, new, last)
  BY <1>1 DEF KeptUpTo
<1>4. QED
  BY <1>2, <1>3 DEF new

(* What is missing is added at the end.                                    *)
LEMMA KeptExtends ==
  ASSUME NEW ms \in Seq(Message), NEW last, InOrder(ms, last), NEW ids \in Seq(Nat),
         NEW wanted, KeptUpTo(ids, wanted, ms, last),
         NEW missing \in Seq(Nat), Increasing(missing),
         \A x : x \in ToSet(missing) <=>
                  \E k \in 1..Len(ms) : ms[k] \in wanted /\ x = ms[k].id /\ x \notin ToSet(ids)
  PROVE  /\ ids \o missing \in Seq(Nat)
         /\ ToSet(ids \o missing) = ToSet(ids) \cup ToSet(missing)
         /\ KeptUpTo(ids \o missing, wanted, ms, last)
         /\ \A k \in 1..Len(ms) : ms[k] \in wanted => ms[k].id \in ToSet(ids \o missing)
<1>1. \A x \in ToSet(ids), y \in ToSet(missing) : x < y
  BY DEF KeptUpTo
<1>2. ids \o missing \in Seq(Nat) /\ Increasing(ids \o missing)
  BY <1>1, ConcatIncreasing DEF KeptUpTo
<1>3. ToSet(ids \o missing) = ToSet(ids) \cup ToSet(missing)
  BY ConcatElements
<1>4. \A x \in ToSet(missing) : x <= last
  BY DEF InOrder
<1> DEFINE all == ids \o missing
<1> HIDE DEF all
<1>5. \A k \in 1..Len(ms) : ms[k] \in wanted => ms[k].id \in ToSet(all)
  BY <1>3 DEF all
<1>6. KeptUpTo(all, wanted, ms, last)
  BY <1>2, <1>3, <1>4, <1>5 DEF KeptUpTo, all
<1>7. QED
  BY <1>2, <1>3, <1>5, <1>6 DEF all

-----------------------------------------------------------------------------
(* The inductive invariant of the long-term middleware.                    *)

Spoken == {m \in Message : HasPayload(m)}

RecallTypeOK ==
  /\ tracked \in Seq(Nat)
  /\ pushed \subseteq ToSet(tracked)
  /\ longTerm \in Seq(Nat)

(* The oldest messages are pushed first.                                   *)
OldestPushed ==
  \A newer \in pushed : \A i \in ToSet(tracked) : i <= newer => i \in pushed

(* What left the context is older than what is in it.                      *)
GoneAreOlder ==
  \A x \in ToSet(tracked) : x \in CurrentIds \/ \A k \in 1..Len(messages) : x < messages[k].id

RecallInv ==
  /\ RecallTypeOK
  /\ KeptUpTo(tracked, Spoken, messages, said)
  /\ GoneAreOlder
  /\ pushed \subseteq ToSet(longTerm)
  /\ OldestPushed

(* If no add that raises has stored anything.                              *)
StoredIsPushed == ToSet(longTerm) \subseteq pushed /\ Increasing(longTerm)

(* If the middleware has seen the conversation from its start, and the two *)
(* latest messages always stay: those it has not tracked yet are what the  *)
(* model said last, the tools that answer it, and the user message that    *)
(* follows.                                                                *)
UntrackedTail ==
  \A k \in 1..Len(messages) :
    messages[k] \in Spoken /\ messages[k].id \notin ToSet(tracked) =>
      IF pc \in {"mirror", "evict", "recall"}
        THEN \/ k > Len(messages) - 2
             \/ \A j \in (k + 1)..Len(messages) : messages[j].kind = "tool"
        ELSE /\ pc \in {"user", "tools"}
             /\ k = Len(messages) /\ messages[k].kind \in {"answer", "call"}

DroppedIsTracked == UntrackedTail /\ dropped \subseteq ToSet(tracked)

-----------------------------------------------------------------------------
(* The agent's steps.                                                      *)

(* A new or an imported conversation is in order, with an empty mirror,    *)
(* and its tools follow their calls.                                       *)
LEMMA InitEstablishesAgentInv ==
  ASSUME EvictionAssumption, Init
  PROVE  AgentInv
<1>1. /\ messages \in Seq(Message) /\ Len(messages) \in Nat
      /\ \A k \in 1..Len(messages) : messages[k].id = k /\ FollowsItsCall(messages, k)
  <2>1. messages \in Seq(Message)
          /\ \A k \in DOMAIN messages : messages[k].id = k /\ FollowsItsCall(messages, k)
    BY DEF Init, EvictionAssumption
  <2>2. DOMAIN messages = 1..Len(messages)
    BY <2>1
  <2>3. QED
    BY <2>1, <2>2
<1>2. said = Len(messages) /\ mirrored = <<>> /\ recorded = {} /\ pc = "user"
  BY DEF Init
<1>3. AgentTypeOK
  BY <1>1, <1>2 DEF AgentTypeOK
<1>4. InOrder(messages, said)
  BY <1>1, <1>2 DEF InOrder, IdsInOrder
<1>5. MirrorInOrder
  BY <1>2 DEF MirrorInOrder, KeptUpTo, Increasing, ToSet
<1>6. ToolsFollowCalls
  BY <1>1, <1>2 DEF ToolsFollowCalls
<1>7. QED
  BY <1>3, <1>4, <1>5, <1>6 DEF AgentInv

(* Only the agent's program counter moves.                                 *)
LEMMA MoveKeepsAgentInv ==
  ASSUME AgentInv, UNCHANGED <<messages, said, mirrored, recorded>>,
         pc' \in {"user", "recall", "model"}
  PROVE  AgentInv'
BY DEF AgentInv, AgentTypeOK, InOrder, MirrorInOrder, ToolsFollowCalls

(* _mirror takes the payload messages it has not seen yet, in the order of *)
(* the conversation, so the mirror stays in order.                         *)
LEMMA MirrorKeepsAgentInv ==
  ASSUME AgentInv, Mirror
  PROVE  AgentInv'
<1> DEFINE S == {m \in ToSet(messages) : m.id \notin ToSet(mirrored)}
           missing == IdSeq(Keep(messages, S))
<1>1. /\ messages \in Seq(Message) /\ said \in Nat /\ mirrored \in Seq(Nat)
      /\ InOrder(messages, said) /\ KeptUpTo(mirrored, Message, messages, said)
      /\ recorded \subseteq 1..Len(mirrored)
  BY DEF AgentInv, AgentTypeOK, MirrorInOrder
<1>2. /\ mirrored' = mirrored \o missing
      /\ pc' = "evict" /\ UNCHANGED <<messages, said, recorded>>
  BY DEF Mirror, UnseenMessages, IdSeq
<1>3. \A k \in 1..Len(messages) : messages[k] \in ToSet(messages) /\ messages[k] \in Message
  BY <1>1 DEF ToSet
<1>4. /\ missing \in Seq(Nat) /\ Increasing(missing)
      /\ \A x : x \in ToSet(missing)
                  <=> \E k \in 1..Len(messages) : messages[k] \in S /\ x = messages[k].id
  BY <1>1, KeptIds DEF InOrder
<1> HIDE DEF missing
<1>5. \A x : x \in ToSet(missing) <=>
        \E k \in 1..Len(messages) : /\ messages[k] \in Message /\ x = messages[k].id
                                    /\ x \notin ToSet(mirrored)
  BY <1>3, <1>4
<1>6. /\ mirrored' \in Seq(Nat)
      /\ KeptUpTo(mirrored', Message, messages, said)
      /\ \A k \in 1..Len(messages) : messages[k] \in Message
                                       => messages[k].id \in ToSet(mirrored')
  BY <1>1, <1>2, <1>4, <1>5, KeptExtends
<1>7. recorded' \subseteq 1..Len(mirrored')
  <2>1. Len(mirrored') = Len(mirrored) + Len(missing) /\ Len(mirrored) \in Nat
          /\ Len(missing) \in Nat
    BY <1>1, <1>2, <1>4
  <2>2. QED
    BY <1>1, <1>2, <2>1
<1>8. QED
  BY <1>1, <1>2, <1>3, <1>6, <1>7
     DEF AgentInv, AgentTypeOK, InOrder, MirrorInOrder, ToolsFollowCalls

(* What _find_cutoff makes of the conversation.                            *)
LEMMA CutoffOfConversation ==
  ASSUME EvictionAssumption, AgentInv, Cutoff > 0
  PROVE  /\ Cutoff \in 1..MaxCutoff(messages)
         /\ MaxCutoff(messages) \in 0..Len(messages) /\ MaxCutoff(messages) < Len(messages)
         /\ Cutoff \in 0..Len(messages) /\ Cutoff < Len(messages)
         /\ ~IsTool(messages, Cutoff)
<1>1. messages \in Seq(Message)
  BY DEF AgentInv, AgentTypeOK
<1>2. /\ Cutoff \in 0..MaxCutoff(messages)
      /\ Cutoff > 0 => ~IsTool(messages, Cutoff)
  BY <1>1, FindCutoffIsSafe DEF Cutoff
<1>3. /\ MaxCutoff(messages) \in 0..Len(messages) /\ Len(messages) \in Nat
      /\ Len(messages) > 0 => MaxCutoff(messages) < Len(messages)
  BY <1>1, MaxCutoffBound
<1>4. QED
  BY <1>2, <1>3

(* The turn of a mirrored message.                                         *)
LEMMA TurnOfMirrored ==
  ASSUME AgentInv, NEW id \in ToSet(mirrored)
  PROVE  TurnOf(id) \in 1..Len(mirrored) /\ mirrored[TurnOf(id)] = id
<1>1. DOMAIN mirrored = 1..Len(mirrored)
  BY DEF AgentInv, AgentTypeOK
<1>2. \E turn \in DOMAIN mirrored : mirrored[turn] = id
  BY DEF ToSet
<1>3. QED
  BY <1>1, <1>2 DEF TurnOf

(* A committed eviction removes a prefix that ends before a message whose  *)
(* call stays with it; what is left is in order.                           *)
LEMMA EvictKeepsAgentInv ==
  ASSUME EvictionAssumption, AgentInv, EvictCommitted
  PROVE  AgentInv'
<1> DEFINE c == Cutoff
           new == From(messages, c)
<1>1. /\ messages \in Seq(Message) /\ Len(messages) \in Nat /\ said \in Nat
      /\ mirrored \in Seq(Nat) /\ recorded \subseteq 1..Len(mirrored)
      /\ InOrder(messages, said) /\ KeptUpTo(mirrored, Message, messages, said)
      /\ \A k \in 1..Len(messages) : FollowsItsCall(messages, k)
      /\ \A k \in 1..Len(messages) : messages[k].id \in ToSet(mirrored)
  BY DEF AgentInv, AgentTypeOK, MirrorInOrder, ToolsFollowCalls, EvictCommitted
<1>2. c \in 0..Len(messages) /\ c < Len(messages) /\ c > 0 /\ ~IsTool(messages, c)
  BY CutoffOfConversation DEF EvictCommitted
<1>3. /\ recorded' = recorded \cup {TurnOf(messages[k].id) : k \in 1..c}
      /\ messages' = new /\ pc' \in {"recall", "model"}
      /\ UNCHANGED <<said, mirrored>>
  BY DEF EvictCommitted, EvictionAssumption
<1> HIDE DEF c
<1>4. /\ new \in Seq(Message) /\ Len(new) = Len(messages) - c
      /\ \A k \in 1..(Len(messages) - c) : new[k] = messages[c + k]
  BY <1>1, <1>2, FromTail
<1>5. InOrder(new, said) /\ KeptUpTo(mirrored, Message, new, said)
  BY <1>1, <1>2, CutInOrder
<1> HIDE DEF new
<1>6. ASSUME NEW k \in 1..Len(new) PROVE FollowsItsCall(new, k)
  <2>1. c + k \in 1..Len(messages) /\ new[k] = messages[c + k]
    BY <1>1, <1>2, <1>4
  <2>2. FollowsItsCall(messages, c + k)
    BY <1>1, <2>1
  <2>3. CASE k = 1
    BY <1>2, <2>1, <2>2, <2>3 DEF FollowsItsCall, IsTool
  <2>4. CASE k > 1
    <3>1. new[k - 1] = messages[(c + k) - 1]
      BY <1>1, <1>2, <1>4, <2>4
    <3>2. QED
      BY <2>1, <2>2, <2>4, <3>1 DEF FollowsItsCall
  <2>5. QED
    BY <1>1, <1>4, <2>3, <2>4
<1>7. recorded' \subseteq 1..Len(mirrored')
  <2>1. \A k \in 1..c : TurnOf(messages[k].id) \in 1..Len(mirrored)
    BY <1>1, <1>2, TurnOfMirrored
  <2>2. QED
    BY <1>1, <1>3, <2>1
<1>8. QED
  BY <1>1, <1>3, <1>4, <1>5, <1>6, <1>7
     DEF AgentInv, AgentTypeOK, MirrorInOrder, ToolsFollowCalls

(* The conversation grows.                                                 *)
LEMMA GrowthKeepsAgentInv ==
  ASSUME AgentInv, NEW n \in Nat, Grown(messages, messages', said, n), said' = said + n,
         UNCHANGED <<mirrored, recorded>>, pc' \in {"user", "mirror", "tools"},
         pc' = "tools" => messages' # <<>> /\ Last(messages').kind = "call",
         \A k \in (Len(messages) + 1)..(Len(messages) + n) : FollowsItsCall(messages', k)
  PROVE  AgentInv'
<1> DEFINE m == Len(messages)
<1>1. /\ messages \in Seq(Message) /\ m \in Nat /\ said \in Nat
      /\ mirrored \in Seq(Nat) /\ recorded \subseteq 1..Len(mirrored)
      /\ InOrder(messages, said) /\ KeptUpTo(mirrored, Message, messages, said)
      /\ \A k \in 1..m : FollowsItsCall(messages, k)
  BY DEF AgentInv, AgentTypeOK, MirrorInOrder, ToolsFollowCalls
<1>2. messages' \in Seq(Message) /\ Len(messages') = m + n
      /\ \A k \in 1..m : messages'[k] = messages[k]
  BY DEF Grown
<1>3. InOrder(messages', said')
  BY <1>1, GrownInOrder
<1>4. KeptUpTo(mirrored, Message, messages', said')
  BY <1>1, GrownKept
<1>5. ASSUME NEW k \in 1..(m + n)
      PROVE  FollowsItsCall(messages', k)
  <2>1. CASE k \in 1..m
    <3>1. FollowsItsCall(messages, k) /\ messages'[k] = messages[k]
      BY <1>1, <1>2, <2>1
    <3>2. k > 1 => messages'[k - 1] = messages[k - 1]
      BY <1>1, <1>2, <2>1
    <3>3. QED
      BY <3>1, <3>2 DEF FollowsItsCall
  <2>2. CASE k \in (m + 1)..(m + n)
    BY <2>2
  <2>3. QED
    BY <1>1, <2>1, <2>2
<1>6. AgentTypeOK'
  BY <1>1, <1>2 DEF AgentTypeOK
<1>7. MirrorInOrder'
  BY <1>4 DEF MirrorInOrder
<1>8. ToolsFollowCalls'
  BY <1>2, <1>5 DEF ToolsFollowCalls
<1>9. QED
  BY <1>3, <1>6, <1>7, <1>8 DEF AgentInv

(* One message of the user or of the model.                                *)
LEMMA OneMessageGrows ==
  ASSUME AgentInv, NEW size \in Sizes, NEW kind \in {"human", "answer", "call"},
         Append1(kind, size)
  PROVE  /\ Grown(messages, messages', said, 1) /\ said' = said + 1
         /\ messages' # <<>> /\ Last(messages').kind = kind
         /\ FollowsItsCall(messages', Len(messages) + 1)
<1> DEFINE new == NewMessage(1, kind, 0, size)
<1>1. messages \in Seq(Message) /\ said \in Nat
  BY DEF AgentInv, AgentTypeOK
<1>2. new \in Message /\ new.id = said + 1 /\ new.kind = kind /\ new.call = 0
  BY <1>1 DEF NewMessage, Message, Kinds
<1>3. messages' = Append(messages, new) /\ said' = said + 1
  BY DEF Append1
<1> HIDE DEF new
<1>4. /\ messages' \in Seq(Message) /\ Len(messages') = Len(messages) + 1
      /\ Len(messages) \in Nat
      /\ \A k \in 1..Len(messages) : messages'[k] = messages[k]
      /\ messages'[Len(messages) + 1] = new
  BY <1>1, <1>2, <1>3
<1>5. Grown(messages, messages', said, 1)
  BY <1>1, <1>2, <1>4 DEF Grown
<1>6. QED
  BY <1>2, <1>3, <1>4, <1>5 DEF FollowsItsCall, Last

(* The replies to the calls of the last message.                           *)
LEMMA RepliesGrow ==
  ASSUME AgentInv, EvictionAssumption, NEW n \in 1..MaxCalls, NEW size \in Sizes,
         ToolsReply(n, size)
  PROVE  /\ Grown(messages, messages', said, n)
         /\ \A k \in (Len(messages) + 1)..(Len(messages) + n) :
              FollowsItsCall(messages', k) /\ messages'[k].kind = "tool"
<1> DEFINE m == Len(messages)
           replies == [k \in 1..n |-> NewMessage(k, "tool", Last(messages).id, size)]
<1>1. /\ messages \in Seq(Message) /\ said \in Nat /\ m \in Nat /\ n \in Nat /\ n >= 1
      /\ messages # <<>> /\ Last(messages).kind = "call" /\ m >= 1
  <2>1. messages \in Seq(Message) /\ said \in Nat /\ messages # <<>>
          /\ Last(messages).kind = "call"
    BY DEF AgentInv, AgentTypeOK, ToolsFollowCalls, ToolsReply
  <2>2. n \in Nat /\ n >= 1
    BY DEF EvictionAssumption
  <2>3. QED
    BY <2>1, <2>2
<1>2. messages[m] \in Message /\ messages[m].kind = "call" /\ Last(messages) = messages[m]
  BY <1>1 DEF Last
<1>3. \A k \in 1..n : /\ replies[k] \in Message
                      /\ replies[k].id = said + k /\ replies[k].kind = "tool"
                      /\ replies[k].call = messages[m].id
  BY <1>1, <1>2 DEF NewMessage, Message, Kinds
<1>4. replies \in Seq(Message) /\ Len(replies) = n
  <2>1. replies = [k \in 1..n |-> replies[k]]
    OBVIOUS
  <2>2. n \in Nat /\ \A k \in 1..n : replies[k] \in Message
    BY <1>1, <1>3
  <2> HIDE DEF replies
  <2>3. QED
    BY <2>1, <2>2
<1>5. messages' = messages \o replies
  BY DEF ToolsReply
<1> HIDE DEF replies
<1>6. /\ messages' \in Seq(Message) /\ Len(messages') = m + n
      /\ \A k \in 1..m : messages'[k] = messages[k]
      /\ \A k \in (m + 1)..(m + n) : k - m \in 1..n /\ messages'[k] = replies[k - m]
  <2> HIDE DEF m
  <2>1. \A k \in 1..m : k \in 1..(m + n)
    BY <1>1
  <2>2. \A k \in (m + 1)..(m + n) : k \in 1..(m + n) /\ k > m /\ k - m \in 1..n
    BY <1>1
  <2>3. /\ messages \o replies \in Seq(Message) /\ Len(messages \o replies) = m + n
        /\ \A k \in 1..(m + n) : (messages \o replies)[k] =
                                   IF k <= m THEN messages[k] ELSE replies[k - m]
    BY <1>1, <1>4, ConcatProperties DEF m
  <2> DEFINE both == messages \o replies
  <2>4. messages' = both
    BY <1>5
  <2>5. /\ both \in Seq(Message) /\ Len(both) = m + n
        /\ \A k \in 1..(m + n) : both[k] = IF k <= m THEN messages[k] ELSE replies[k - m]
    BY <2>3
  <2> HIDE DEF both
  <2>6. \A k \in 1..m : both[k] = messages[k]
    BY <1>1, <2>1, <2>5
  <2>7. \A k \in (m + 1)..(m + n) : both[k] = replies[k - m]
    BY <1>1, <2>2, <2>5
  <2>8. QED
    BY <2>2, <2>4, <2>5, <2>6, <2>7
<1> HIDE DEF m
<1>7. ASSUME NEW k \in (m + 1)..(m + n)
      PROVE  /\ messages'[k].id = said + (k - m) /\ messages'[k].kind = "tool"
             /\ messages'[k].call = messages[m].id
  <2>1. k - m \in 1..n /\ messages'[k] = replies[k - m]
    BY <1>6
  <2>2. QED
    BY <1>3, <2>1
<1>8. ASSUME NEW k \in (m + 1)..(m + n)
      PROVE  FollowsItsCall(messages', k)
  <2>1. CASE k = m + 1
    <3>1. messages'[k - 1] = messages[m]
      <4>1. k - 1 = m /\ m \in 1..m
        BY <1>1, <2>1
      <4>2. QED
        BY <1>6, <4>1
    <3>2. QED
      BY <1>1, <1>2, <1>7, <2>1, <3>1 DEF FollowsItsCall
  <2>2. CASE k # m + 1
    <3>1. k - 1 \in (m + 1)..(m + n)
      BY <1>1, <2>2
    <3>2. messages'[k - 1].call = messages'[k].call
      BY <1>7, <3>1
    <3>3. QED
      BY <1>1, <1>7, <2>2, <3>2 DEF FollowsItsCall
  <2>3. QED
    BY <2>1, <2>2
<1>9. Grown(messages, messages', said, n)
  BY <1>6, <1>7 DEF Grown, m
<1>10. QED
  BY <1>7, <1>8, <1>9 DEF m

(* Every step of the agent, with or without the long-term middleware.      *)
LEMMA NextKeepsAgentInv ==
  ASSUME EvictionAssumption, AgentInv, [Next]_vars
  PROVE  AgentInv'
<1>1. CASE Mirror
  BY <1>1, MirrorKeepsAgentInv
<1>2. CASE WithinBudget
  BY <1>2, MoveKeepsAgentInv DEF WithinBudget, EvictionAssumption
<1>3. CASE EvictCommitted
  BY <1>3, EvictKeepsAgentInv
<1>4. CASE EvictNotCommitted
  BY <1>4, MoveKeepsAgentInv DEF EvictNotCommitted, KeepAll, EvictionAssumption
<1>5. ASSUME NEW size \in Sizes, UserSays(size) \/ ModelAnswers(size) \/ ModelCalls(size)
      PROVE  AgentInv'
  <2>1. PICK kind \in {"human", "answer", "call"} :
          /\ Append1(kind, size) /\ pc' \in {"user", "mirror", "tools"}
          /\ pc' = "tools" => kind = "call"
    BY <1>5 DEF UserSays, ModelAnswers, ModelCalls
  <2>2. /\ Grown(messages, messages', said, 1) /\ said' = said + 1
        /\ pc' = "tools" => messages' # <<>> /\ Last(messages').kind = "call"
        /\ FollowsItsCall(messages', Len(messages) + 1)
    BY <2>1, OneMessageGrows
  <2>3. \A k \in (Len(messages) + 1)..(Len(messages) + 1) : FollowsItsCall(messages', k)
    <3>1. Len(messages) \in Nat
      BY DEF AgentInv, AgentTypeOK
    <3>2. QED
      BY <2>2, <3>1
  <2>4. UNCHANGED <<mirrored, recorded>>
    BY <2>1 DEF Append1
  <2>5. QED
    BY <2>1, <2>2, <2>3, <2>4, GrowthKeepsAgentInv
<1>6. ASSUME NEW n \in 1..MaxCalls, NEW size \in Sizes, ToolsReply(n, size)
      PROVE  AgentInv'
  <2>1. /\ Grown(messages, messages', said, n)
        /\ \A k \in (Len(messages) + 1)..(Len(messages) + n) : FollowsItsCall(messages', k)
    BY <1>6, RepliesGrow
  <2>2. said' = said + n /\ pc' = "mirror" /\ UNCHANGED <<mirrored, recorded>>
    BY <1>6 DEF ToolsReply
  <2>3. n \in Nat
    BY DEF EvictionAssumption
  <2>4. QED
    BY <2>1, <2>2, <2>3, GrowthKeepsAgentInv
<1>7. CASE RunFails
  BY <1>7, MoveKeepsAgentInv DEF RunFails
<1>8. CASE UNCHANGED vars
  BY <1>8 DEF vars, AgentInv, AgentTypeOK, InOrder, MirrorInOrder, ToolsFollowCalls
<1>9. QED
  BY <1>1, <1>2, <1>3, <1>4, <1>5, <1>6, <1>7, <1>8 DEF Next, BeforeModel, Agent

(* Every step of the hybrid agent keeps conversation, mirror and tool      *)
(* calls in order; the long-term middleware touches none of them.          *)
LEMMA HybridNextKeepsAgentInv ==
  ASSUME EvictionAssumption, AgentInv, [HybridNext]_hybridVars
  PROVE  AgentInv'
<1>1. CASE [Next]_vars
  BY <1>1, NextKeepsAgentInv
<1>2. CASE Recall
  BY <1>2, MoveKeepsAgentInv DEF Recall
<1>3. QED
  BY <1>1, <1>2 DEF HybridNext, hybridVars, Structured, Flush, Next, vars

(* The invariant of the conversation, its mirror and the recorded turns.   *)
THEOREM ConversationInvariant ==
  HybridSpec => []AgentInv
<1>1. HybridInit => AgentInv
  BY EvictionAssumption, InitEstablishesAgentInv DEF HybridInit
<1>2. AgentInv /\ [HybridNext]_hybridVars => AgentInv'
  BY EvictionAssumption, HybridNextKeepsAgentInv
<1>3. QED
  BY <1>1, <1>2, PTL DEF HybridSpec

(* Every ToolMessage still follows the AIMessage it answers, for any number *)
(* of parallel calls and wherever the budget asks for the cut.             *)
THEOREM ToolsStayWithTheirCall ==
  HybridSpec => []PairsTogether
<1>1. ASSUME AgentInv, NEW k \in DOMAIN messages, messages[k].call # 0,
             \A j \in 1..(k - 1) : messages[j].id # messages[k].call
      PROVE  FALSE
  <2> DEFINE c == messages[k].call
             S == {d \in Nat : messages[k - d].call = c}
  <2>1. /\ messages \in Seq(Message) /\ k \in 1..Len(messages) /\ Len(messages) \in Nat
        /\ \A i \in 1..Len(messages) : FollowsItsCall(messages, i)
    BY <1>1 DEF AgentInv, AgentTypeOK, ToolsFollowCalls
  <2>2. 0 \in S
    BY <2>1
  <2>3. ASSUME NEW d \in 1..(k - 1), d - 1 \in S
        PROVE  d \in S
    <3>1. /\ k - (d - 1) \in 1..Len(messages) /\ k - d \in 1..(k - 1) /\ d \in Nat
          /\ (k - (d - 1)) - 1 = k - d
      BY <2>1
    <3>2. messages[k - (d - 1)].call = c /\ c # 0
      BY <1>1, <2>3
    <3>3. FollowsItsCall(messages, k - (d - 1))
      BY <2>1, <3>1
    <3>4. messages[k - d].id # c
      BY <1>1, <3>1
    <3>5. messages[k - d].call = c
      BY <3>1, <3>2, <3>3, <3>4 DEF FollowsItsCall
    <3>6. QED
      BY <3>1, <3>5
  <2>4. k - 1 \in Nat /\ k - 1 \in 0..(k - 1)
    BY <2>1
  <2> HIDE DEF S
  <2>5. k - 1 \in S
    BY <2>2, <2>3, <2>4, Induction
  <2>6. messages[1].call = c /\ c # 0
    BY <1>1, <2>1, <2>5, k - (k - 1) = 1 DEF S
  <2>7. FollowsItsCall(messages, 1)
    BY <2>1
  <2>8. QED
    BY <2>6, <2>7 DEF FollowsItsCall
<1>2. AgentInv => PairsTogether
  BY <1>1 DEF PairsTogether
<1>3. QED
  BY <1>2, ConversationInvariant, PTL

(* The transcript has one turn per message, in the order they were said.   *)
THEOREM MirrorIsInOrder ==
  HybridSpec => []MirrorFollowsConversation
<1>1. AgentInv => MirrorFollowsConversation
  <2> SUFFICES ASSUME AgentInv PROVE MirrorFollowsConversation
    OBVIOUS
  <2>1. Increasing(mirrored) /\ DOMAIN mirrored = 1..Len(mirrored)
    BY DEF AgentInv, AgentTypeOK, MirrorInOrder, KeptUpTo
  <2>2. QED
    BY <2>1 DEF Increasing, MirrorFollowsConversation
<1>2. QED
  BY <1>1, ConversationInvariant, PTL

-----------------------------------------------------------------------------
(* What an eviction hands over.                                            *)

(* What a step does to the messages and to what is said and recorded.      *)
GrowthStep ==
  \E n \in Nat : /\ Grown(messages, messages', said, n) /\ said' = said + n
                 /\ UNCHANGED <<mirrored, recorded>>

(* A step leaves the messages alone, cuts them or lets them grow.          *)
LEMMA StepsOfConversation ==
  ASSUME EvictionAssumption, AgentInv, [HybridNext]_hybridVars
  PROVE  \/ Mirror
         \/ EvictCommitted
         \/ GrowthStep
         \/ UNCHANGED <<messages, said, mirrored, recorded>>
<1>1. ASSUME NEW size \in Sizes, UserSays(size) \/ ModelAnswers(size) \/ ModelCalls(size)
      PROVE  GrowthStep
  <2>1. PICK kind \in {"human", "answer", "call"} : Append1(kind, size)
    BY <1>1 DEF UserSays, ModelAnswers, ModelCalls
  <2>2. Grown(messages, messages', said, 1) /\ said' = said + 1
    BY <2>1, OneMessageGrows
  <2>3. QED
    BY <2>1, <2>2 DEF GrowthStep, Append1
<1>2. ASSUME NEW n \in 1..MaxCalls, NEW size \in Sizes, ToolsReply(n, size)
      PROVE  GrowthStep
  <2>1. Grown(messages, messages', said, n)
    BY <1>2, RepliesGrow
  <2>2. n \in Nat
    BY DEF EvictionAssumption
  <2>3. said' = said + n /\ UNCHANGED <<mirrored, recorded>>
    BY <1>2 DEF ToolsReply
  <2>4. QED
    BY <2>1, <2>2, <2>3 DEF GrowthStep
<1>3. QED
  BY <1>1, <1>2 DEF HybridNext, hybridVars, vars, Structured, BeforeModel, Agent, Recall,
                    Flush, WithinBudget, EvictNotCommitted, KeepAll, RunFails

(* The latest messages survive every step, whatever is evicted.            *)
THEOREM LatestMessagesStay ==
  HybridSpec => RecentMessagesStay
<1>1. ASSUME AgentInv, [HybridNext]_hybridVars, vars' # vars,
             NEW k \in DOMAIN messages, k > Len(messages) - KeepMessages
      PROVE  Contains(messages', messages[k])
  <2>1. messages \in Seq(Message) /\ Len(messages) \in Nat /\ k \in 1..Len(messages)
    BY <1>1 DEF AgentInv, AgentTypeOK
  <2>2. CASE UNCHANGED messages
    BY <2>1, <2>2 DEF Contains
  <2>3. CASE EvictCommitted
    <3>1. Cutoff \in 1..MaxCutoff(messages) /\ Cutoff \in 0..Len(messages)
      BY <1>1, <2>3, EvictionAssumption, CutoffOfConversation DEF EvictCommitted
    <3>2. k > MaxCutoff(messages) /\ MaxCutoff(messages) \in 0..Len(messages)
      BY <1>1, <2>1, EvictionAssumption, MaxCutoffBound
    <3>3. messages' = From(messages, Cutoff)
      BY <2>3 DEF EvictCommitted
    <3> DEFINE c == Cutoff
    <3> HIDE DEF c
    <3>4. /\ c \in 0..Len(messages) /\ c < k
          /\ messages' = From(messages, c)
      BY <2>1, <3>1, <3>2, <3>3 DEF c
    <3>5. k - c \in 1..Len(messages') /\ messages'[k - c] = messages[k]
      <4>1. /\ Len(messages') = Len(messages) - c
            /\ \A i \in 1..(Len(messages) - c) : messages'[i] = messages[c + i]
        BY <2>1, <3>4, FromTail
      <4>2. k - c \in 1..(Len(messages) - c) /\ c + (k - c) = k
        BY <2>1, <3>4
      <4>3. QED
        BY <4>1, <4>2
    <3>6. QED
      BY <3>5 DEF Contains
  <2>4. ASSUME NEW n \in Nat, Grown(messages, messages', said, n)
        PROVE  Contains(messages', messages[k])
    <3>1. Len(messages') = Len(messages) + n /\ messages'[k] = messages[k]
      BY <2>1, <2>4 DEF Grown
    <3>2. k \in 1..Len(messages')
      BY <2>1, <3>1
    <3>3. QED
      BY <3>1, <3>2 DEF Contains
  <2>5. UNCHANGED messages \/ EvictCommitted
          \/ \E n \in Nat : Grown(messages, messages', said, n)
    <3>1. Mirror \/ EvictCommitted \/ GrowthStep \/ UNCHANGED messages
      BY <1>1, EvictionAssumption, StepsOfConversation
    <3>2. QED
      BY <3>1 DEF Mirror, GrowthStep
  <2>6. QED
    BY <2>2, <2>3, <2>4, <2>5
<1>2. AgentInv /\ [HybridNext]_hybridVars =>
        [\A k \in DOMAIN messages :
           k > Len(messages) - KeepMessages => Contains(messages', messages[k])]_vars
  BY <1>1 DEF vars
<1>3. QED
  BY <1>2, ConversationInvariant, PTL DEF HybridSpec, RecentMessagesStay

-----------------------------------------------------------------------------
(* How much an eviction leaves.                                            *)

(* TokenCount as a table of partial sums.                                  *)
TokenSums(p, ms) ==
  /\ p \in [0..Len(ms) -> Nat]
  /\ p[0] = 0 /\ p[Len(ms)] = TokenCount(ms)
  /\ \A k \in 1..Len(ms) : p[k] = p[k - 1] + ms[k].size

(* The fold of TokenCount is such a table.                                 *)
LEMMA TokenSteps ==
  ASSUME EvictionAssumption, NEW ms \in Seq(Message)
  PROVE  \E p : TokenSums(p, ms)
<1> DEFINE N == Len(ms)
           R == Nat
           base == 0
           Cost(k) == ms[k].size
           step == [q \in R \X (1..N) |-> q[1] + Cost(q[2])]
           Eq(g) == g = [t \in SUBSET DOMAIN ms |->
                           IF t = {} THEN base ELSE g[t \ {Max(t)}] + Cost(Max(t))]
           g == CHOOSE f : Eq(f)
<1>1. N \in Nat /\ DOMAIN ms = 1..N
  OBVIOUS
<1>2. \A k \in 1..N : Cost(k) \in Nat
  <2> TAKE k \in 1..N
  <2>1. ms[k] \in Message
    OBVIOUS
  <2>2. Sizes \subseteq Nat
    BY DEF EvictionAssumption
  <2>3. QED
    BY <2>1, <2>2 DEF Message
<1>3. TokenCount(ms) = g[DOMAIN ms]
  BY DEF TokenCount, FoldLeft, MapThenFoldSet
<1>4. base \in R
  OBVIOUS
<1> HIDE DEF N, g, Cost
<1>5. IsStep(step, R, N) /\ \A r \in R, k \in 1..N : step[<<r, k>>] = r + Cost(k)
  <2>1. \A r \in Nat, k \in 1..N : r + Cost(k) \in Nat
    BY <1>2
  <2>2. QED
    BY <2>1 DEF IsStep
<1> HIDE DEF step, R, base
<1>6. Recurses(g, R, base, N, step)
  <2>1. PICK f : f \in [SUBSET (1..N) -> R] /\ Recurses(f, R, base, N, step)
    BY <1>1, <1>4, <1>5, SubsetRecursion
  <2>2. \A t \in SUBSET (1..N) : t # {} => /\ Max(t) \in 1..N
                                           /\ t \ {Max(t)} \in SUBSET (1..N)
    BY <1>1, MaxOfInterval
  <2> DEFINE Table(q) == [t \in SUBSET (1..N) |->
                            IF t = {} THEN base ELSE q[t \ {Max(t)}] + Cost(Max(t))]
  <2>3. \A q : Eq(q) <=> q = Table(q)
    BY <1>1
  <2> HIDE DEF Eq
  <2>4. f = Table(f)
    <3>1. f = [t \in SUBSET (1..N) |-> f[t]]
      BY <2>1
    <3>2. ASSUME NEW t \in SUBSET (1..N)
          PROVE  f[t] = IF t = {} THEN base ELSE f[t \ {Max(t)}] + Cost(Max(t))
      <4>1. CASE t = {}
        BY <2>1, <4>1 DEF Recurses
      <4>2. CASE t # {}
        <5>1. Max(t) \in 1..N /\ f[t \ {Max(t)}] \in R
          BY <2>1, <2>2, <4>2
        <5>2. f[t] = step[<<f[t \ {Max(t)}], Max(t)>>]
          BY <2>1, <4>2, <5>1 DEF Recurses
        <5>3. QED
          BY <1>5, <4>2, <5>1, <5>2
      <4>3. QED
        BY <4>1, <4>2
    <3>3. QED
      BY <3>1, <3>2
  <2>5. Eq(g)
    BY <2>3, <2>4 DEF g
  <2>6. g = Table(g)
    BY <2>3, <2>5
  <2>7. QED
    BY <1>5, <2>2, <2>6 DEF Recurses
<1>7. PICK h : IsTable(h, R, base, N, step) /\ h[N] = g[1..N]
  BY <1>1, <1>4, <1>5, <1>6, FoldTable
<1>8. h \in [0..N -> R] /\ h[0] = base /\ h[N] = TokenCount(ms)
  BY <1>1, <1>3, <1>7 DEF IsTable
<1>9. ASSUME NEW k \in 1..N PROVE h[k] = h[k - 1] + Cost(k)
  <2>1. h[k - 1] \in R
    BY <1>1, <1>8, k - 1 \in 0..N
  <2>2. QED
    BY <1>5, <1>7, <2>1 DEF IsTable
<1>10. QED
  BY <1>8, <1>9 DEF TokenSums, R, base, N, Cost

(* A longer tail never has fewer tokens, and the empty one has none.       *)
LEMMA LongerTailsCostMore ==
  ASSUME EvictionAssumption, NEW ms \in Seq(Message)
  PROVE  /\ \A c \in 0..Len(ms) : TokenCount(From(ms, c)) \in Nat
         /\ TokenCount(From(ms, Len(ms))) = 0
         /\ \A c \in 0..Len(ms), d \in 0..Len(ms) :
              c <= d => TokenCount(From(ms, d)) <= TokenCount(From(ms, c))
<1> DEFINE n == Len(ms)
<1>1. n \in Nat
  OBVIOUS
<1>2. ASSUME NEW c \in 0..n
      PROVE  \E p : /\ p \in [0..(n - c) -> Nat] /\ p[0] = 0
                    /\ p[n - c] = TokenCount(From(ms, c))
                    /\ \A k \in 1..(n - c) : p[k] = p[k - 1] + ms[c + k].size
  <2>1. /\ From(ms, c) \in Seq(Message) /\ Len(From(ms, c)) = n - c
        /\ \A k \in 1..(n - c) : From(ms, c)[k] = ms[c + k]
    BY FromTail
  <2>2. PICK p : TokenSums(p, From(ms, c))
    BY <2>1, EvictionAssumption, TokenSteps
  <2>3. QED
    BY <2>1, <2>2 DEF TokenSums
<1>3. \A k \in 1..n : ms[k].size \in Nat
  <2> TAKE k \in 1..n
  <2>1. ms[k] \in Message /\ Sizes \subseteq Nat
    BY EvictionAssumption DEF EvictionAssumption
  <2>2. QED
    BY <2>1 DEF Message
<1>4. ASSUME NEW c \in 0..n PROVE TokenCount(From(ms, c)) \in Nat
  <2>1. PICK p : p \in [0..(n - c) -> Nat] /\ p[n - c] = TokenCount(From(ms, c))
    BY <1>2
  <2>2. n - c \in 0..(n - c)
    BY <1>1
  <2>3. QED
    BY <2>1, <2>2
<1>5. TokenCount(From(ms, n)) = 0
  <2>1. n \in 0..n /\ n - n = 0
    BY <1>1
  <2>2. PICK p : p[0] = 0 /\ p[n - n] = TokenCount(From(ms, n))
    BY <1>2, <2>1
  <2>3. QED
    BY <2>1, <2>2
<1>6. ASSUME NEW c \in 0..n, NEW d \in 0..n, c <= d
      PROVE  TokenCount(From(ms, d)) <= TokenCount(From(ms, c))
  <2>1. PICK a : /\ a \in [0..(n - c) -> Nat]
                 /\ a[n - c] = TokenCount(From(ms, c))
                 /\ \A k \in 1..(n - c) : a[k] = a[k - 1] + ms[c + k].size
    BY <1>2
  <2>2. PICK b : /\ b \in [0..(n - d) -> Nat] /\ b[0] = 0
                 /\ b[n - d] = TokenCount(From(ms, d))
                 /\ \A k \in 1..(n - d) : b[k] = b[k - 1] + ms[d + k].size
    BY <1>2
  <2> HIDE DEF n
  <2> DEFINE e == d - c
             S == {k \in 0..(n - d) : b[k] <= a[e + k]}
  <2>3. e \in Nat /\ n - d \in Nat /\ e + (n - d) = n - c
    BY <1>1, <1>6
  <2>4. 0 \in S
    <3>1. e \in 0..(n - c) /\ e + 0 = e
      BY <1>1, <1>6
    <3>2. a[e] \in Nat
      BY <2>1, <3>1
    <3> HIDE DEF e
    <3>3. QED
      BY <2>2, <2>3, <3>1, <3>2
  <2>5. ASSUME NEW k \in 1..(n - d), k - 1 \in S PROVE k \in S
    <3>1. /\ e + k \in 1..(n - c) /\ c + (e + k) = d + k /\ d + k \in 1..n
          /\ (e + k) - 1 = e + (k - 1) /\ e + (k - 1) \in 0..(n - c) /\ k - 1 \in 0..(n - d)
      BY <1>1, <1>6
    <3> DEFINE cost == ms[d + k].size
    <3>2. cost \in Nat
      BY <1>3, <3>1
    <3> HIDE DEF e, cost
    <3>3. a[e + k] = a[e + (k - 1)] + cost
      BY <2>1, <3>1 DEF cost
    <3>4. b[k] = b[k - 1] + cost
      BY <2>2 DEF cost
    <3>5. b[k - 1] <= a[e + (k - 1)]
      BY <2>5
    <3>6. a[e + (k - 1)] \in Nat /\ b[k - 1] \in Nat
      BY <2>1, <2>2, <3>1
    <3>7. b[k] <= a[e + k]
      BY <3>2, <3>3, <3>4, <3>5, <3>6
    <3>8. QED
      BY <3>7
  <2> HIDE DEF S, e
  <2>6. \A k \in 0..(n - d) : k \in S
    BY <2>3, <2>4, <2>5, Induction
  <2>7. n - d \in S
    BY <2>3, <2>6
  <2>8. QED
    BY <2>1, <2>2, <2>3, <2>7 DEF S
<1>7. QED
  BY <1>4, <1>5, <1>6

(* The binary search ends with the cut that the target asks for.           *)
LEMMA TokenCutoffFits ==
  ASSUME EvictionAssumption, NEW ms \in Seq(Message)
  PROVE  LET c == TokenCutoff(ms)
         IN  /\ c \in 0..Len(ms)
             /\ c < Len(ms) - 1 => TokenCount(From(ms, c)) <= TargetTokens
             /\ c > 0 => TokenCount(From(ms, c - 1)) > TargetTokens
<1> DEFINE n == Len(ms)
           L == BitLength(n)
           N == L + 1
<1>1. n \in Nat /\ L \in Nat /\ Halved(n, L) = 0 /\ TargetTokens \in Nat
  BY BitLengthHalves DEF EvictionAssumption
<1>4. PICK w : /\ w \in [0..L -> Nat] /\ w[0] = n /\ w[L] = 0
               /\ \A k \in 1..L : w[k] = w[k - 1] \div 2
  BY <1>1, BitLengthTable
<1>2. PICK h : SearchTable(h, ms)
  BY SearchSteps
<1>3. /\ h \in [0..N -> [left: 0..n, right: 0..n, cutoff: 0..n]]
      /\ h[0] = [left |-> 0, right |-> n, cutoff |-> n]
      /\ \A k \in 1..N : h[k] = Probe(ms, h[k - 1])
      /\ TokenCutoff(ms)
           = LET cutoff == IF h[N].cutoff = n THEN h[N].left ELSE h[N].cutoff
             IN  IF cutoff < n THEN cutoff ELSE IF n > 1 THEN n - 1 ELSE 0
  BY <1>2 DEF SearchTable
<1>5. /\ \A c \in 0..n : TokenCount(From(ms, c)) \in Nat
      /\ TokenCount(From(ms, n)) = 0
      /\ \A c \in 0..n, d \in 0..n :
           c <= d => TokenCount(From(ms, d)) <= TokenCount(From(ms, c))
  BY EvictionAssumption, LongerTailsCostMore
<1> DEFINE R == [left: 0..n, right: 0..n, cutoff: 0..n]
<1> HIDE DEF n, L
<1>6. \A k \in 0..N : h[k] \in R
  BY <1>3
<1>7. \A s \in R : Searched(ms, s) =>
        /\ Searched(ms, Probe(ms, s))
        /\ Probe(ms, s).right - Probe(ms, s).left <= (s.right - s.left) \div 2
  BY <1>1, <1>5, ProbeHalves
<1>8. \A k \in 0..L : Searched(ms, h[k]) /\ h[k].right - h[k].left <= w[k]
  <2> DEFINE S == {k \in 0..L : Searched(ms, h[k]) /\ h[k].right - h[k].left <= w[k]}
  <2>1. 0 \in S
    <3>1. h[0].left = 0 /\ h[0].right = n /\ h[0].cutoff = n
      BY <1>3
    <3>2. QED
      BY <1>1, <1>4, <1>5, <3>1 DEF Searched
  <2>2. ASSUME NEW k \in 1..L, k - 1 \in S PROVE k \in S
    <3>1. /\ k \in 1..N /\ k \in 0..L /\ k - 1 \in 0..N /\ k - 1 \in 0..L
      BY <1>1
    <3>2. Searched(ms, h[k - 1]) /\ h[k - 1].right - h[k - 1].left <= w[k - 1]
      BY <2>2
    <3>3. h[k] = Probe(ms, h[k - 1]) /\ h[k - 1] \in R
      BY <1>3, <1>6, <3>1
    <3>4. /\ Searched(ms, h[k])
          /\ h[k].right - h[k].left <= (h[k - 1].right - h[k - 1].left) \div 2
      BY <1>7, <3>2, <3>3
    <3>5. h[k - 1].right - h[k - 1].left \in Int /\ h[k].right - h[k].left \in Int
      BY <1>6, <3>1, <1>1
    <3>6. w[k] = w[k - 1] \div 2 /\ w[k - 1] \in Nat
      BY <1>4, <3>1
    <3>7. h[k].right - h[k].left <= w[k]
      BY <3>2, <3>4, <3>5, <3>6
    <3>8. QED
      BY <3>1, <3>4, <3>7
  <2> HIDE DEF S
  <2>3. \A k \in 0..L : k \in S
    BY <1>1, <2>1, <2>2, Induction
  <2>4. QED
    BY <2>3 DEF S
<1>9. Searched(ms, h[N]) /\ h[N].left = h[N].right /\ h[N] \in R
  <2>1. L \in 0..L /\ L \in 0..N /\ N \in 0..N /\ N \in 1..N /\ N - 1 = L
    BY <1>1
  <2>2. Searched(ms, h[L]) /\ h[L].right - h[L].left <= 0 /\ h[L] \in R
    BY <1>4, <1>6, <1>8, <2>1
  <2>3. h[L].left >= h[L].right /\ h[L].left = h[L].right
    BY <2>2, <1>1 DEF Searched
  <2>4. h[N] = h[L]
    BY <1>3, <2>1, <2>3 DEF Probe
  <2>5. QED
    BY <2>2, <2>3, <2>4
<1> DEFINE found == h[N].right
<1>10. /\ found \in 0..n /\ h[N].left = found /\ h[N].cutoff = found
       /\ TokenCount(From(ms, found)) <= TargetTokens
       /\ found > 0 => TokenCount(From(ms, found - 1)) > TargetTokens
  BY <1>9 DEF Searched
<1>11. TokenCutoff(ms) = IF found < n THEN found ELSE IF n > 1 THEN n - 1 ELSE 0
  <2> HIDE DEF found, N
  <2> QED
    BY <1>1, <1>3, <1>10
<1> HIDE DEF found
<1> DEFINE c == TokenCutoff(ms)
<1>12. c \in 0..n /\ c <= found /\ (c < n - 1 => c = found)
  BY <1>1, <1>10, <1>11
<1> HIDE DEF c
<1>13. c < n - 1 => TokenCount(From(ms, c)) <= TargetTokens
  BY <1>10, <1>12
<1>14. c > 0 => TokenCount(From(ms, c - 1)) > TargetTokens
  <2> SUFFICES ASSUME c > 0 PROVE TokenCount(From(ms, c - 1)) > TargetTokens
    OBVIOUS
  <2>1. c - 1 \in 0..n /\ found - 1 \in 0..n /\ c - 1 <= found - 1 /\ found > 0
    BY <1>1, <1>10, <1>12
  <2>2. TokenCount(From(ms, found - 1)) <= TokenCount(From(ms, c - 1))
    BY <1>5, <2>1
  <2>3. TokenCount(From(ms, found - 1)) \in Nat /\ TokenCount(From(ms, c - 1)) \in Nat
    BY <1>5, <2>1
  <2>4. QED
    BY <1>1, <1>10, <2>1, <2>2, <2>3
<1>15. QED
  BY <1>12, <1>13, <1>14 DEF c, n

(* What stays after a cut meets the target unless the tail that always     *)
(* stays or a run of tools forbids it, and one message more would not.     *)
LEMMA FindCutoffMeetsBudget ==
  ASSUME EvictionAssumption, NEW ms \in Seq(Message), FindCutoff(ms) # 0
  PROVE  LET cut == FindCutoff(ms)
         IN  /\ \/ TokenCount(From(ms, cut)) <= TargetTokens
                \/ Len(ms) - cut <= KeepMessages
                \/ ms[cut + 1].kind = "call"
                \/ \E k \in cut..(Len(ms) - KeepMessages) : IsTool(ms, k)
             /\ \/ TokenCount(From(ms, cut - 1)) > TargetTokens
                \/ IsTool(ms, cut - 1)
<1> DEFINE n == Len(ms)
           cut == FindCutoff(ms)
           max == MaxCutoff(ms)
           asked == TokenCutoff(ms)
           Cost(c) == TokenCount(From(ms, c))
<1>1. n \in Nat /\ max \in 0..n /\ (n > 0 => max < n) /\ TargetTokens \in Nat
      /\ KeepMessages \in Nat
  BY MaxCutoffBound DEF EvictionAssumption
<1>2. max > 0 => max = n - KeepMessages
  <2> DEFINE T == {KeepMessages, n}
  <2>1. T \in SUBSET Nat /\ T # {}
    BY <1>1
  <2>2. Min(T) \in T /\ max = n - Min(T)
    <3>1. max = n - Min(T)
      BY DEF MaxCutoff
    <3> HIDE DEF T
    <3>2. QED
      BY <2>1, <3>1, MinOfNaturals
  <2>3. QED
    BY <1>1, <2>2
<1>3. /\ asked \in 0..n
      /\ asked < n - 1 => Cost(asked) <= TargetTokens
      /\ asked > 0 => Cost(asked - 1) > TargetTokens
  BY TokenCutoffFits
<1>4. /\ \A c \in 0..n : Cost(c) \in Nat
      /\ \A c \in 0..n, d \in 0..n : c <= d => Cost(d) <= Cost(c)
  BY LongerTailsCostMore
<1>5. cut \in 0..max /\ cut # 0
  BY FindCutoffIsSafe
<1>6. PICK wanted \in 1..max :
        /\ wanted <= asked /\ (wanted < max => wanted = asked)
        /\ IF SafeCutoffPoint(ms, wanted) <= max THEN cut = SafeCutoffPoint(ms, wanted)
           ELSE cut \in 1..max /\ ~IsTool(ms, cut)
  BY FindCutoffCases
<1>7. wanted \in 1..n /\ wanted # n
  BY <1>1
<1> DEFINE safe == SafeCutoffPoint(ms, wanted)
<1>8. \/ ~IsTool(ms, wanted) /\ safe = wanted
      \/ IsTool(ms, wanted) /\ safe \in 0..(wanted - 1) /\ ms[safe + 1].kind = "call"
      \/ /\ IsTool(ms, wanted) /\ safe \in (wanted + 1)..n
         /\ \A k \in wanted..(safe - 1) : IsTool(ms, k)
  BY <1>7, SafeCutoffCases
<1>9. /\ cut \in 1..max /\ cut \in 1..n /\ wanted \in Nat /\ asked \in Nat
      /\ max = n - KeepMessages
      /\ IF safe <= max THEN cut = safe ELSE ~IsTool(ms, cut)
  BY <1>1, <1>2, <1>3, <1>5, <1>6
<1> HIDE DEF n, max, asked, cut, safe
(* A cut that evicts no more than was asked for.                           *)
<1>10. ASSUME cut <= wanted PROVE Cost(cut - 1) > TargetTokens
  <2>1. cut - 1 \in 0..n /\ asked - 1 \in 0..n /\ cut - 1 <= asked - 1 /\ asked > 0
    BY <1>1, <1>3, <1>6, <1>9, <1>10
  <2>2. Cost(asked - 1) <= Cost(cut - 1)
    BY <1>4, <2>1
  <2>3. Cost(asked - 1) \in Nat /\ Cost(cut - 1) \in Nat /\ Cost(asked - 1) > TargetTokens
    BY <1>3, <1>4, <2>1
  <2> HIDE DEF Cost
  <2>4. QED
    BY <1>1, <2>2, <2>3
(* One that evicts as many, with more than the tail left.                  *)
<1>11. ASSUME wanted <= cut, wanted < max PROVE Cost(cut) <= TargetTokens
  <2>1. asked = wanted /\ asked < n - 1 /\ cut \in 0..n /\ asked <= cut
    BY <1>1, <1>3, <1>6, <1>9, <1>11
  <2>2. Cost(cut) <= Cost(asked) /\ Cost(asked) <= TargetTokens
    BY <1>3, <1>4, <2>1
  <2>3. Cost(cut) \in Nat /\ Cost(asked) \in Nat
    BY <1>3, <1>4, <2>1
  <2> HIDE DEF Cost
  <2>4. QED
    BY <1>1, <2>2, <2>3
<1> DEFINE Meets == \/ Cost(cut) <= TargetTokens
                    \/ n - cut <= KeepMessages
                    \/ ms[cut + 1].kind = "call"
                    \/ \E k \in cut..(n - KeepMessages) : IsTool(ms, k)
           NotMore == Cost(cut - 1) > TargetTokens \/ IsTool(ms, cut - 1)
<1>12. ASSUME ~IsTool(ms, wanted) /\ safe = wanted PROVE Meets /\ NotMore
  <2>1. cut = wanted
    BY <1>1, <1>6, <1>9, <1>12
  <2>2. NotMore
    BY <1>9, <1>10, <2>1
  <2>3. CASE wanted < max
    BY <1>9, <1>11, <2>1, <2>2, <2>3
  <2>4. CASE wanted = max
    <3>1. n - cut <= KeepMessages
      BY <1>1, <1>9, <2>1, <2>4
    <3>2. QED
      BY <2>2, <3>1
  <2>5. QED
    BY <1>1, <1>6, <2>3, <2>4
<1>13. ASSUME IsTool(ms, wanted), safe \in 0..(wanted - 1), ms[safe + 1].kind = "call"
       PROVE  Meets /\ NotMore
  <2>1. cut = safe /\ cut <= wanted
    BY <1>1, <1>6, <1>9, <1>13
  <2>2. QED
    BY <1>10, <1>13, <2>1
<1>14. ASSUME IsTool(ms, wanted), safe \in (wanted + 1)..n,
              \A k \in wanted..(safe - 1) : IsTool(ms, k)
       PROVE  Meets /\ NotMore
  <2>1. CASE safe <= max
    <3>1. cut = safe /\ wanted <= cut /\ wanted < max /\ cut - 1 \in wanted..(safe - 1)
      BY <1>1, <1>6, <1>9, <1>14, <2>1
    <3>2. IsTool(ms, cut - 1)
      BY <1>14, <3>1
    <3>3. QED
      BY <1>11, <3>1, <3>2
  <2>2. CASE safe > max
    <3>1. ~IsTool(ms, cut)
      BY <1>1, <1>9, <1>14, <2>2
    <3>2. cut < wanted
      <4>1. cut \notin wanted..(safe - 1)
        BY <1>14, <3>1
      <4>2. QED
        BY <1>1, <1>9, <1>14, <2>2, <4>1
    <3>3. wanted \in cut..(n - KeepMessages)
      BY <1>1, <1>6, <1>9, <3>2
    <3>4. QED
      BY <1>10, <1>14, <3>2, <3>3
  <2>3. QED
    BY <1>1, <1>9, <1>14, <2>1, <2>2
<1>15. Meets /\ NotMore
  BY <1>8, <1>12, <1>13, <1>14
<1>16. QED
  BY <1>15 DEF n, cut

(* For any budget and any conversation: an eviction leaves no more than    *)
(* the target, unless the tail that always stays or a run of tools at the  *)
(* cut forbids it, and takes no message more than that needs; the probes   *)
(* of the binary search suffice to find the cut.                           *)
THEOREM EvictionsMeetBudget == HybridSpec => EvictionMeetsBudget
<1>1. ASSUME AgentInv, EvictCommitted
      PROVE  LET cut == Len(messages) - Len(messages')
             IN  /\ \/ TokenCount(messages') <= TargetTokens
                    \/ Len(messages') <= KeepMessages
                    \/ messages'[1].kind = "call"
                    \/ \E k \in cut..(Len(messages) - KeepMessages) : IsTool(messages, k)
                 /\ \/ TokenCount(From(messages, cut - 1)) > TargetTokens
                    \/ IsTool(messages, cut - 1)
  <2> DEFINE n == Len(messages)
             c == Cutoff
  <2>1. messages \in Seq(Message) /\ n \in Nat
    BY <1>1 DEF AgentInv, AgentTypeOK
  <2>2. c \in 1..n /\ c < n /\ c \in 0..n
    <3>1. /\ Cutoff \in 1..MaxCutoff(messages) /\ Cutoff \in 0..Len(messages)
          /\ MaxCutoff(messages) \in 0..Len(messages) /\ Cutoff < Len(messages)
      BY <1>1, EvictionAssumption, CutoffOfConversation DEF EvictCommitted
    <3>2. QED
      BY <2>1, <3>1
  <2>3. /\ \/ TokenCount(From(messages, c)) <= TargetTokens
           \/ n - c <= KeepMessages
           \/ messages[c + 1].kind = "call"
           \/ \E k \in c..(n - KeepMessages) : IsTool(messages, k)
        /\ \/ TokenCount(From(messages, c - 1)) > TargetTokens
           \/ IsTool(messages, c - 1)
    <3>1. FindCutoff(messages) # 0
      BY <2>2 DEF Cutoff
    <3>2. QED
      BY <2>1, <3>1, EvictionAssumption, FindCutoffMeetsBudget DEF Cutoff
  <2>4. messages' = From(messages, c)
    BY <1>1 DEF EvictCommitted
  <2> HIDE DEF c
  <2>5. Len(messages') = n - c /\ messages'[1] = messages[c + 1]
    <3>1. /\ Len(From(messages, c)) = n - c
          /\ \A k \in 1..(n - c) : From(messages, c)[k] = messages[c + k]
      BY <2>1, <2>2, FromTail
    <3>2. 1 \in 1..(n - c)
      BY <2>1, <2>2
    <3>3. QED
      BY <2>4, <3>1, <3>2
  <2>6. n - Len(messages') = c
    BY <2>1, <2>2, <2>5
  <2>7. QED
    BY <2>3, <2>4, <2>5, <2>6
<1>2. AgentInv => [EvictCommitted =>
         LET cut == Len(messages) - Len(messages')
         IN  /\ \/ TokenCount(messages') <= TargetTokens
                \/ Len(messages') <= KeepMessages
                \/ messages'[1].kind = "call"
                \/ \E k \in cut..(Len(messages) - KeepMessages) : IsTool(messages, k)
             /\ \/ TokenCount(From(messages, cut - 1)) > TargetTokens
                \/ IsTool(messages, cut - 1)]_vars
  BY <1>1
<1>3. QED
  BY <1>2, ConversationInvariant, PTL DEF HybridSpec, EvictionMeetsBudget

-----------------------------------------------------------------------------
(* Handing over.                                                           *)

HandedOver == {mirrored[turn] : turn \in recorded}

(* An eviction hands the oldest messages over, and at least one stays.     *)
LEMMA EvictionHandsOver ==
  ASSUME EvictionAssumption, AgentInv, EvictCommitted
  PROVE  /\ \E last \in CurrentIds :
              /\ CurrentIds' = {i \in CurrentIds : i > last}
              /\ HandedOver' = HandedOver \cup {i \in CurrentIds : i <= last}
         /\ CurrentIds' # {}
<1> DEFINE c == Cutoff
           N == Len(messages)
<1>1. /\ messages \in Seq(Message) /\ N \in Nat /\ DOMAIN messages = 1..N
      /\ \A j, k \in 1..N : j < k => messages[j].id < messages[k].id
      /\ \A k \in 1..N : messages[k].id \in Nat /\ messages[k].id \in ToSet(mirrored)
  <2>1. messages \in Seq(Message) /\ InOrder(messages, said)
        /\ \A k \in 1..N : messages[k].id \in ToSet(mirrored)
    BY DEF AgentInv, AgentTypeOK, MirrorInOrder, EvictCommitted
  <2>2. \A k \in 1..N : messages[k] \in Message
    BY <2>1
  <2>3. \A k \in 1..N : messages[k].id \in Nat
    BY <2>2 DEF Message
  <2>4. \A j, k \in 1..N : j < k => messages[j].id < messages[k].id
    BY <2>1 DEF InOrder, IdsInOrder
  <2>5. QED
    BY <2>1, <2>3, <2>4
<1>2. c \in 1..N /\ c \in 0..N /\ c < N
  BY <1>1, CutoffOfConversation DEF EvictCommitted
<1>3. /\ messages' = From(messages, c)
      /\ recorded' = recorded \cup {TurnOf(messages[k].id) : k \in 1..c}
      /\ UNCHANGED mirrored
  BY DEF EvictCommitted
<1> HIDE DEF c, N
<1>4. /\ DOMAIN messages' = 1..(N - c)
      /\ \A k \in 1..(N - c) : messages'[k] = messages[c + k]
  <2>1. /\ messages' \in Seq(Message) /\ Len(messages') = N - c
        /\ \A k \in 1..(N - c) : messages'[k] = messages[c + k]
    BY <1>1, <1>2, <1>3, FromTail DEF N
  <2>2. QED
    BY <2>1
<1> DEFINE last == messages[c].id
<1>5. CurrentIds' = {i \in CurrentIds : i > last}
  <2>1. ASSUME NEW k \in 1..(N - c)
        PROVE  messages'[k].id \in CurrentIds /\ messages'[k].id > last
    <3>1. c + k \in 1..N /\ c < c + k
      BY <1>1, <1>2
    <3>2. messages[c].id < messages[c + k].id
      BY <1>1, <1>2, <3>1
    <3>3. QED
      BY <1>1, <1>2, <1>4, <3>1, <3>2 DEF CurrentIds
  <2>2. ASSUME NEW k \in 1..N, messages[k].id > last
        PROVE  \E j \in 1..(N - c) : messages'[j].id = messages[k].id
    <3>1. ~(k = c) /\ ~(k < c)
      BY <1>1, <1>2, <2>2
    <3>2. k - c \in 1..(N - c) /\ c + (k - c) = k
      BY <1>1, <1>2, <3>1
    <3>3. QED
      BY <1>4, <3>2
  <2>3. /\ CurrentIds = {messages[k].id : k \in 1..N}
        /\ CurrentIds' = {messages'[k].id : k \in 1..(N - c)}
    BY <1>1, <1>4 DEF CurrentIds
  <2> HIDE DEF last
  <2>4. ASSUME NEW i \in CurrentIds' PROVE i \in CurrentIds /\ i > last
    BY <2>1, <2>3, <2>4
  <2>5. ASSUME NEW i \in CurrentIds, i > last PROVE i \in CurrentIds'
    BY <2>2, <2>3, <2>5
  <2>6. QED
    BY <2>4, <2>5
<1>6. {i \in CurrentIds : i <= last} = {messages[k].id : k \in 1..c}
  <2>1. ASSUME NEW k \in 1..N, messages[k].id <= last
        PROVE  k \in 1..c
    <3>1. ~(c < k)
      BY <1>1, <1>2, <2>1
    <3>2. QED
      BY <1>1, <1>2, <3>1
  <2>2. ASSUME NEW k \in 1..c
        PROVE  k \in 1..N /\ messages[k].id <= last
    <3>1. k \in 1..N /\ (k = c \/ k < c)
      BY <1>1, <1>2
    <3>2. QED
      BY <1>1, <1>2, <3>1
  <2>3. QED
    BY <1>1, <2>1, <2>2 DEF CurrentIds
<1>7. HandedOver' = HandedOver \cup {messages[k].id : k \in 1..c}
  <2>1. \A k \in 1..c : mirrored[TurnOf(messages[k].id)] = messages[k].id
    <3>1. \A k \in 1..c : messages[k].id \in ToSet(mirrored)
      BY <1>1, <1>2
    <3>2. QED
      BY <3>1, TurnOfMirrored
  <2>2. HandedOver' = {mirrored[turn] : turn \in recorded'}
    BY <1>3 DEF HandedOver
  <2> DEFINE turns == {TurnOf(messages[k].id) : k \in 1..c}
  <2>3. {mirrored[turn] : turn \in turns} = {messages[k].id : k \in 1..c}
    BY <2>1
  <2>4. recorded' = recorded \cup turns
    BY <1>3
  <2> HIDE DEF turns
  <2>5. {mirrored[turn] : turn \in recorded'}
          = {mirrored[turn] : turn \in recorded} \cup {mirrored[turn] : turn \in turns}
    BY <2>4
  <2>6. QED
    BY <2>2, <2>3, <2>5 DEF HandedOver
<1>8. last \in CurrentIds
  BY <1>1, <1>2 DEF CurrentIds
<1>9. CurrentIds' # {}
  <2>1. 1 \in 1..(N - c)
    BY <1>1, <1>2
  <2>2. messages'[1].id \in CurrentIds'
    BY <1>4, <2>1 DEF CurrentIds
  <2>3. QED
    BY <2>2
<1> HIDE DEF last
<1>10. QED
  BY <1>5, <1>6, <1>7, <1>8, <1>9

(* New messages are in context.                                            *)
LEMMA GrowthIsSaid ==
  ASSUME AgentInv, GrowthStep
  PROVE  /\ said' >= said
         /\ CurrentIds' = CurrentIds \cup (said + 1)..said'
         /\ UNCHANGED HandedOver
<1>1. PICK n \in Nat : /\ Grown(messages, messages', said, n) /\ said' = said + n
                       /\ UNCHANGED <<mirrored, recorded>>
  BY DEF GrowthStep
<1> DEFINE N == Len(messages)
<1>2. said \in Nat /\ N \in Nat /\ DOMAIN messages = 1..N
  BY DEF AgentInv, AgentTypeOK
<1>3. /\ DOMAIN messages' = 1..(N + n)
      /\ \A k \in 1..N : messages'[k] = messages[k]
      /\ \A k \in (N + 1)..(N + n) : messages'[k].id = said + (k - N)
  <2>1. messages' \in Seq(Message) /\ Len(messages') = N + n
    BY <1>1 DEF Grown
  <2>2. DOMAIN messages' = 1..(N + n)
    BY <2>1
  <2>3. QED
    BY <1>1, <2>2 DEF Grown
<1> HIDE DEF N
<1>4. ASSUME NEW k \in 1..(N + n)
      PROVE  messages'[k].id \in CurrentIds \cup (said + 1)..said'
  <2>1. CASE k \in 1..N
    BY <1>2, <1>3, <2>1 DEF CurrentIds
  <2>2. CASE k \in (N + 1)..(N + n)
    BY <1>1, <1>2, <1>3, <2>2
  <2>3. QED
    BY <1>2, <2>1, <2>2
<1>5. ASSUME NEW i \in CurrentIds
      PROVE  i \in CurrentIds'
  <2>1. PICK k \in 1..N : i = messages[k].id
    BY <1>2 DEF CurrentIds
  <2>2. k \in 1..(N + n) /\ messages'[k].id = i
    BY <1>2, <1>3, <2>1
  <2>3. QED
    BY <1>3, <2>2 DEF CurrentIds
<1>6. ASSUME NEW i \in (said + 1)..said'
      PROVE  i \in CurrentIds'
  <2>1. N + (i - said) \in (N + 1)..(N + n) /\ (N + (i - said)) - N = i - said
    BY <1>1, <1>2
  <2>2. messages'[N + (i - said)].id = i
    BY <1>2, <1>3, <2>1
  <2>3. N + (i - said) \in 1..(N + n)
    BY <1>2, <2>1
  <2>4. QED
    BY <1>3, <2>2, <2>3 DEF CurrentIds
<1>7. CurrentIds' = CurrentIds \cup (said + 1)..said'
  <2>1. \A i \in CurrentIds' : \E k \in 1..(N + n) : i = messages'[k].id
    BY <1>3 DEF CurrentIds
  <2>2. QED
    BY <1>4, <1>5, <1>6, <2>1
<1>8. QED
  BY <1>1, <1>2, <1>7 DEF HandedOver

(* "Never loses messages on failure": every message is in the agent's      *)
(* state or in the turns of a committed update, never in both, and the     *)
(* oldest leave first, whatever updates fail and wherever a run breaks off.*)
THEOREM MiddlewareImplementsHandover ==
  HybridSpec => ImplementsHandover
<1>1. HybridInit => Conversation!Init
  <2> SUFFICES ASSUME HybridInit PROVE Conversation!Init
    OBVIOUS
  <2>1. /\ messages \in Seq(Message) /\ said = Len(messages) /\ recorded = {}
        /\ \A k \in DOMAIN messages : messages[k].id = k
    BY EvictionAssumption DEF HybridInit, Init, EvictionAssumption
  <2>2. DOMAIN messages = 1..said /\ said \in Nat
    BY <2>1
  <2>3. QED
    BY <2>1, <2>2 DEF Conversation!Init
<1>2. AgentInv /\ [HybridNext]_hybridVars => [Conversation!Next]_Conversation!vars
  <2> SUFFICES ASSUME AgentInv, [HybridNext]_hybridVars
               PROVE  [Conversation!Next]_Conversation!vars
    OBVIOUS
  <2>1. CASE Mirror
    <3>1. mirrored \in Seq(Nat) /\ recorded \subseteq 1..Len(mirrored)
      BY DEF AgentInv, AgentTypeOK
    <3>2. \A turn \in 1..Len(mirrored) : mirrored'[turn] = mirrored[turn]
      <4>1. AgentTypeOK'
        BY <2>1, MirrorKeepsAgentInv DEF AgentInv
      <4> DEFINE missing == IdSeq(UnseenMessages)
      <4>2. mirrored' = mirrored \o missing
        BY <2>1 DEF Mirror, IdSeq
      <4>3. DOMAIN missing = DOMAIN UnseenMessages
        BY DEF IdSeq
      <4> HIDE DEF missing
      <4>4. QED
        BY <3>1, <4>2
    <3>3. UNCHANGED <<messages, said, recorded>>
      BY <2>1 DEF Mirror
    <3>4. HandedOver' = HandedOver
      BY <3>1, <3>2, <3>3 DEF HandedOver
    <3>5. UNCHANGED Conversation!vars
      BY <3>3, <3>4 DEF Conversation!vars, HandedOver
    <3>6. QED
      BY <3>5
  <2>2. CASE EvictCommitted
    <3>1. UNCHANGED said
      BY <2>2 DEF EvictCommitted
    <3>2. Conversation!HandOver
      BY <2>2, <3>1, EvictionAssumption, EvictionHandsOver
         DEF Conversation!HandOver, CurrentIds, HandedOver
    <3>3. QED
      BY <3>2 DEF Conversation!Next
  <2>3. CASE GrowthStep
    <3>1. Conversation!Say
      BY <2>3, GrowthIsSaid DEF Conversation!Say, CurrentIds, HandedOver
    <3>2. QED
      BY <3>1 DEF Conversation!Next
  <2>4. CASE UNCHANGED <<messages, said, mirrored, recorded>>
    BY <2>4 DEF Conversation!vars
  <2>5. QED
    BY <2>1, <2>2, <2>3, <2>4, EvictionAssumption, StepsOfConversation
<1>3. QED
  BY <1>1, <1>2, ConversationInvariant, PTL DEF HybridSpec, ImplementsHandover, Conversation!Spec

-----------------------------------------------------------------------------
(* What LongTermMemoryMiddleware stores.                                   *)

(* The ids of what the user and the assistant said.                        *)
LEMMA PayloadIds ==
  ASSUME NEW ms \in Seq(Message), IdsInOrder(ms)
  PROVE  /\ Payloads(ms) \in Seq(Nat)
         /\ Increasing(Payloads(ms))
         /\ \A x : x \in ToSet(Payloads(ms))
                     <=> \E k \in 1..Len(ms) : ms[k] \in Spoken /\ x = ms[k].id
<1> DEFINE S == {m \in ToSet(ms) : HasPayload(m)}
<1>1. Payloads(ms) = IdSeq(Keep(ms, S))
  BY DEF Payloads, IdSeq
<1>2. \A k \in 1..Len(ms) : ms[k] \in S <=> ms[k] \in Spoken
  BY DEF Spoken, ToSet
<1> HIDE DEF S
<1>3. /\ IdSeq(Keep(ms, S)) \in Seq(Nat)
      /\ Increasing(IdSeq(Keep(ms, S)))
      /\ \A x : x \in ToSet(IdSeq(Keep(ms, S)))
                  <=> \E k \in 1..Len(ms) : ms[k] \in S /\ x = ms[k].id
  BY KeptIds
<1>4. QED
  BY <1>1, <1>2, <1>3

(* What a push that mem0 accepts or refuses makes of the ids pushed.       *)
Batch(ids) == /\ ids \in Seq(Nat) /\ Increasing(ids)
              /\ ToSet(ids) \subseteq ToSet(tracked) \ pushed

(* What before_model and flush push is in order, tracked and not pushed    *)
(* before.                                                                 *)
LEMMA BatchesAreInOrder ==
  ASSUME RecallInv
  PROVE  /\ Batch(Disappeared) /\ ToSet(Disappeared) = ToSet(tracked) \ (CurrentIds \cup pushed)
         /\ Batch(NotYetPushed) /\ ToSet(NotYetPushed) = ToSet(tracked) \ pushed
<1> DEFINE gone == Keep(tracked, ToSet(tracked) \ CurrentIds)
<1>1. tracked \in Seq(Nat) /\ Increasing(tracked)
  BY DEF RecallInv, RecallTypeOK, KeptUpTo
<1>2. gone \in Seq(Nat) /\ Increasing(gone) /\ ToSet(gone) = ToSet(tracked) \ CurrentIds
  BY <1>1, KeepIncreasing, KeepElements
<1> HIDE DEF gone
<1>3. \A ids \in Seq(Nat) : Increasing(ids) =>
        /\ Unpushed(ids) \in Seq(Nat) /\ Increasing(Unpushed(ids))
        /\ ToSet(Unpushed(ids)) = ToSet(ids) \ pushed
  BY KeepIncreasing, KeepElements DEF Unpushed
<1>4. Disappeared = Unpushed(gone) /\ NotYetPushed = Unpushed(tracked)
  BY DEF Disappeared, NotYetPushed, gone
<1>5. QED
  BY <1>1, <1>2, <1>3, <1>4 DEF Batch

(* A push of unpushed ids, or none: the ids pushed are stored.             *)
Push(ids) ==
  \/ UNCHANGED <<pushed, longTerm>>
  \/ \E outcome \in AddOutcomes : PushBatch(ids, outcome)

(* An add either counts as pushed, with everything it was given stored, or *)
(* does not count at all; unless an add stores what it does not confirm,   *)
(* nothing is stored that is not pushed.                                   *)
LEMMA PushKeepsStored ==
  ASSUME RecallInv, HybridAssumption, NEW ids, Batch(ids), Push(ids)
  PROVE  /\ pushed' \in {pushed, pushed \cup ToSet(ids)}
         /\ pushed' \subseteq ToSet(longTerm') /\ longTerm' \in Seq(Nat)
         /\ "unconfirmed" \notin AddOutcomes /\ StoredIsPushed => StoredIsPushed'
<1>1. /\ longTerm \in Seq(Nat) /\ ids \in Seq(Nat) /\ Increasing(ids)
      /\ ToSet(ids) \subseteq ToSet(tracked) \ pushed
      /\ pushed \subseteq ToSet(longTerm) /\ pushed \subseteq ToSet(tracked)
      /\ tracked \in Seq(Nat) /\ OldestPushed
  BY DEF RecallInv, RecallTypeOK, Batch
<1>2. /\ longTerm \o ids \in Seq(Nat)
      /\ ToSet(longTerm \o ids) = ToSet(longTerm) \cup ToSet(ids)
  <2>1. \A a, b \in Seq(Nat) :
          a \o b \in Seq(Nat) /\ ToSet(a \o b) = ToSet(a) \cup ToSet(b)
    BY ConcatElements
  <2>2. QED
    BY <1>1, <2>1
<1>3. CASE UNCHANGED <<pushed, longTerm>>
  BY <1>1, <1>3 DEF StoredIsPushed
<1>4. ASSUME NEW outcome \in AddOutcomes, PushBatch(ids, outcome)
      PROVE  /\ pushed' \in {pushed, pushed \cup ToSet(ids)}
             /\ pushed' \subseteq ToSet(longTerm') /\ longTerm' \in Seq(Nat)
             /\ "unconfirmed" \notin AddOutcomes /\ StoredIsPushed => StoredIsPushed'
  <2>1. CASE outcome = "lost"
    BY <1>1, <1>4, <2>1 DEF PushBatch, StoredIsPushed
  <2>2. CASE outcome = "unconfirmed"
    BY <1>1, <1>2, <1>4, <2>2 DEF PushBatch
  <2>3. CASE outcome = "stored"
    <3>1. longTerm' = longTerm \o ids /\ pushed' = pushed \cup ToSet(ids)
      BY <1>4, <2>3 DEF PushBatch
    <3>2. ASSUME StoredIsPushed PROVE StoredIsPushed'
      <4>1. ASSUME NEW x \in ToSet(longTerm), NEW y \in ToSet(ids)
            PROVE  x < y
        <5>1. x \in pushed /\ y \in ToSet(tracked) /\ y \notin pushed
          BY <1>1, <3>2 DEF StoredIsPushed
        <5>2. ~(y <= x)
          BY <1>1, <5>1 DEF OldestPushed
        <5>3. x \in Nat /\ y \in Nat
          <6>1. longTerm \in Seq(Nat) /\ ids \in Seq(Nat)
            BY <1>1
          <6>2. \A i \in DOMAIN longTerm : longTerm[i] \in Nat
            BY <6>1
          <6>3. \A i \in DOMAIN ids : ids[i] \in Nat
            BY <6>1
          <6>4. QED
            BY <6>2, <6>3 DEF ToSet
        <5>4. ASSUME x \in Nat, y \in Nat, ~(y <= x) PROVE x < y
          BY <5>4
        <5>5. QED
          BY <5>2, <5>3, <5>4
      <4>2. Increasing(longTerm \o ids)
        BY <1>1, <3>2, <4>1, ConcatIncreasing DEF StoredIsPushed
      <4>3. QED
        BY <1>2, <3>1, <3>2, <4>2 DEF StoredIsPushed
    <3>3. QED
      BY <1>1, <1>2, <3>1, <3>2
  <2>4. QED
    BY <2>1, <2>2, <2>3 DEF HybridAssumption
<1>5. QED
  BY <1>3, <1>4 DEF Push

(* What a before_model tracks.                                             *)
LEMMA RecallTracksAll ==
  ASSUME AgentInv, RecallInv, Recall
  PROVE  /\ tracked' \in Seq(Nat)
         /\ ToSet(tracked) \subseteq ToSet(tracked')
         /\ \A x \in ToSet(tracked') \ ToSet(tracked) :
              x \in CurrentIds /\ \A y \in ToSet(tracked) : y < x
         /\ KeptUpTo(tracked', Spoken, messages, said)
         /\ \A k \in 1..Len(messages) : messages[k] \in Spoken => messages[k].id \in ToSet(tracked')
<1> DEFINE all == Payloads(messages)
           missing == Keep(all, ToSet(all) \ ToSet(tracked))
<1>1. /\ messages \in Seq(Message) /\ InOrder(messages, said) /\ IdsInOrder(messages)
      /\ tracked \in Seq(Nat) /\ KeptUpTo(tracked, Spoken, messages, said)
  BY DEF AgentInv, AgentTypeOK, InOrder, RecallInv, RecallTypeOK
<1>2. /\ all \in Seq(Nat) /\ Increasing(all)
      /\ \A x : x \in ToSet(all)
                  <=> \E k \in 1..Len(messages) : messages[k] \in Spoken /\ x = messages[k].id
  BY <1>1, PayloadIds
<1>3. tracked' = tracked \o missing
  BY DEF Recall
<1> HIDE DEF all
<1>4. /\ missing \in Seq(Nat) /\ Increasing(missing)
      /\ ToSet(missing) = ToSet(all) \ ToSet(tracked)
  BY <1>2, KeepIncreasing, KeepElements
<1> HIDE DEF missing
<1>5. \A x : x \in ToSet(missing) <=>
        \E k \in 1..Len(messages) : /\ messages[k] \in Spoken /\ x = messages[k].id
                                    /\ x \notin ToSet(tracked)
  BY <1>2, <1>4
<1>6. /\ tracked \o missing \in Seq(Nat)
      /\ ToSet(tracked \o missing) = ToSet(tracked) \cup ToSet(missing)
      /\ KeptUpTo(tracked \o missing, Spoken, messages, said)
      /\ \A k \in 1..Len(messages) :
           messages[k] \in Spoken => messages[k].id \in ToSet(tracked \o missing)
  BY <1>1, <1>4, <1>5, KeptExtends
<1>7. \A x \in ToSet(missing) : x \in CurrentIds /\ \A y \in ToSet(tracked) : y < x
  BY <1>1, <1>5 DEF KeptUpTo, CurrentIds
<1>8. QED
  BY <1>3, <1>6, <1>7

(* The steps that are not the long-term middleware's.                      *)
LEMMA ConversationKeepsRecallInv ==
  ASSUME EvictionAssumption, AgentInv, RecallInv, [HybridNext]_hybridVars,
         UNCHANGED <<tracked, pushed, longTerm>>
  PROVE  RecallInv'
<1> DEFINE N == Len(messages)
<1>1. /\ messages \in Seq(Message) /\ N \in Nat /\ said \in Nat
      /\ InOrder(messages, said)
      /\ tracked \in Seq(Nat) /\ KeptUpTo(tracked, Spoken, messages, said)
  BY DEF AgentInv, AgentTypeOK, RecallInv, RecallTypeOK
<1>2. /\ messages' \in Seq(Message) /\ Len(messages') \in Nat
      /\ \A k \in 1..Len(messages') : messages'[k].id \in CurrentIds'
  <2>1. messages' \in Seq(Message)
    BY HybridNextKeepsAgentInv DEF AgentInv, AgentTypeOK
  <2>2. DOMAIN messages' = 1..Len(messages')
    BY <2>1
  <2>3. QED
    BY <2>1, <2>2 DEF CurrentIds
<1>3. \A x \in ToSet(tracked) : x \in Nat /\ x <= said
  <2>1. \A i \in DOMAIN tracked : tracked[i] \in Nat
    BY <1>1
  <2>2. QED
    BY <1>1, <2>1 DEF ToSet, KeptUpTo
<1>4. \A x \in CurrentIds : \E k \in 1..N : x = messages[k].id
  <2>1. DOMAIN messages = 1..N
    BY <1>1
  <2>2. QED
    BY <2>1 DEF CurrentIds
<1>5. \A x \in CurrentIds : x \in Nat
  <2>1. \A k \in 1..N : messages[k] \in Message
    BY <1>1
  <2>2. QED
    BY <1>4, <2>1 DEF Message
<1>6. KeptUpTo(tracked, Spoken, messages', said') /\ GoneAreOlder'
  <2>1. CASE EvictCommitted
    <3> DEFINE c == Cutoff
    <3>1. c \in 0..N /\ messages' = From(messages, c) /\ UNCHANGED said
      BY <2>1, CutoffOfConversation DEF EvictCommitted
    <3> HIDE DEF c
    <3>2. KeptUpTo(tracked, Spoken, messages', said')
      BY <1>1, <3>1, CutInOrder
    <3>3. PICK last \in CurrentIds : CurrentIds' = {i \in CurrentIds : i > last}
      BY <2>1, EvictionHandsOver
    <3>4. ASSUME NEW x \in ToSet(tracked), x \notin CurrentIds', NEW k \in 1..Len(messages')
          PROVE  x < messages'[k].id
      <4>1. messages'[k].id \in CurrentIds /\ messages'[k].id > last
        BY <1>2, <3>3
      <4>2. CASE x \in CurrentIds
        <5>1. ~(x > last)
          BY <3>3, <3>4, <4>2
        <5>2. QED
          BY <1>5, <4>1, <4>2, <5>1
      <4>3. CASE x \notin CurrentIds
        BY <1>4, <4>1, <4>3 DEF RecallInv, GoneAreOlder
      <4>4. QED
        BY <4>2, <4>3
    <3>5. GoneAreOlder'
      BY <3>4 DEF GoneAreOlder
    <3>6. QED
      BY <3>2, <3>5
  <2>2. CASE GrowthStep
    <3>1. PICK n \in Nat : Grown(messages, messages', said, n) /\ said' = said + n
      BY <2>2 DEF GrowthStep
    <3>2. KeptUpTo(tracked, Spoken, messages', said')
      BY <1>1, <3>1, GrownKept
    <3>3. CurrentIds' = CurrentIds \cup (said + 1)..said'
      BY <2>2, GrowthIsSaid
    <3>4. ASSUME NEW x \in ToSet(tracked), x \notin CurrentIds', NEW k \in 1..Len(messages')
          PROVE  x < messages'[k].id
      <4>1. CASE messages'[k].id \in CurrentIds
        BY <1>4, <3>3, <3>4, <4>1 DEF RecallInv, GoneAreOlder
      <4>2. CASE messages'[k].id \in (said + 1)..said'
        BY <1>1, <1>3, <4>2
      <4>3. QED
        BY <1>2, <3>3, <4>1, <4>2
    <3>5. GoneAreOlder'
      BY <3>4 DEF GoneAreOlder
    <3>6. QED
      BY <3>2, <3>5
  <2>3. CASE UNCHANGED <<messages, said>>
    BY <2>3 DEF RecallInv, GoneAreOlder, CurrentIds
  <2>4. QED
    BY <2>1, <2>2, <2>3, StepsOfConversation DEF Mirror
<1>7. QED
  BY <1>6 DEF RecallInv, RecallTypeOK, OldestPushed

(* The long-term middleware's before_model, which pushes what disappeared  *)
(* and tracks what is new, keeps its invariant.                            *)
LEMMA RecallKeepsRecallInv ==
  ASSUME HybridAssumption, AgentInv, RecallInv, Recall
  PROVE  RecallInv'
<1>1. /\ tracked' \in Seq(Nat)
      /\ ToSet(tracked) \subseteq ToSet(tracked')
      /\ \A x \in ToSet(tracked') \ ToSet(tracked) :
           x \in CurrentIds /\ \A y \in ToSet(tracked) : y < x
      /\ KeptUpTo(tracked', Spoken, messages, said)
  BY RecallTracksAll
<1>2. Batch(Disappeared) /\ ToSet(Disappeared) = ToSet(tracked) \ (CurrentIds \cup pushed)
  BY BatchesAreInOrder
<1>3. Push(Disappeared) /\ UNCHANGED <<messages, said>>
  BY DEF Recall, Push
<1>4. /\ pushed' \in {pushed, pushed \cup ToSet(Disappeared)}
      /\ pushed' \subseteq ToSet(longTerm') /\ longTerm' \in Seq(Nat)
  BY <1>2, <1>3, PushKeepsStored
<1>5. /\ pushed \subseteq ToSet(tracked) /\ OldestPushed /\ GoneAreOlder
      /\ tracked \in Seq(Nat)
  BY DEF RecallInv, RecallTypeOK
<1>6. pushed' \subseteq ToSet(tracked)
  BY <1>2, <1>4, <1>5
<1>7. \A x \in ToSet(tracked') : x \in Nat
  <2>1. \A i \in DOMAIN tracked' : tracked'[i] \in Nat
    BY <1>1
  <2>2. QED
    BY <2>1 DEF ToSet
<1>8. ASSUME NEW newer \in pushed', NEW i \in ToSet(tracked'), i <= newer
      PROVE  i \in pushed'
  <2>1. newer \in ToSet(tracked) /\ newer \in Nat /\ i \in Nat
    BY <1>1, <1>6, <1>7
  <2>2. i \in ToSet(tracked)
    <3>1. ~(newer < i)
      BY <1>8, <2>1
    <3>2. QED
      BY <1>1, <2>1, <3>1
  <2>3. CASE newer \in pushed
    BY <1>4, <1>5, <1>8, <2>2, <2>3 DEF OldestPushed
  <2>4. CASE newer \notin pushed
    <3>1. newer \in ToSet(Disappeared) /\ pushed' = pushed \cup ToSet(Disappeared)
      BY <1>4, <2>4
    <3>2. newer \notin CurrentIds
      BY <1>2, <3>1
    <3>3. i \notin CurrentIds
      <4>1. SUFFICES ASSUME i \in CurrentIds PROVE FALSE
        OBVIOUS
      <4>2. PICK k \in 1..Len(messages) : i = messages[k].id
        <5>1. DOMAIN messages = 1..Len(messages)
          BY DEF AgentInv, AgentTypeOK
        <5>2. QED
          BY <4>1, <5>1 DEF CurrentIds
      <4>3. newer < i
        BY <1>5, <2>1, <3>2, <4>2 DEF GoneAreOlder
      <4>4. QED
        BY <1>8, <2>1, <4>3
    <3>4. QED
      BY <1>2, <2>2, <3>1, <3>3
  <2>5. QED
    BY <2>3, <2>4
<1>9. GoneAreOlder'
  BY <1>1, <1>3, <1>5 DEF GoneAreOlder, CurrentIds
<1>10. QED
  BY <1>1, <1>3, <1>4, <1>6, <1>8, <1>9 DEF RecallInv, RecallTypeOK, OldestPushed

(* A flush, which pushes all that is tracked and not pushed, keeps the     *)
(* invariant.                                                              *)
LEMMA FlushKeepsRecallInv ==
  ASSUME HybridAssumption, RecallInv, Flush
  PROVE  RecallInv'
<1>1. Batch(NotYetPushed) /\ ToSet(NotYetPushed) = ToSet(tracked) \ pushed
  BY BatchesAreInOrder
<1>2. Push(NotYetPushed) /\ UNCHANGED <<vars, tracked>>
  BY DEF Flush, Push
<1>3. /\ pushed' \in {pushed, pushed \cup ToSet(NotYetPushed)}
      /\ pushed' \subseteq ToSet(longTerm') /\ longTerm' \in Seq(Nat)
  BY <1>1, <1>2, PushKeepsStored
<1>4. pushed' = pushed \/ pushed' = ToSet(tracked)
  BY <1>1, <1>3 DEF RecallInv, RecallTypeOK
<1>5. QED
  BY <1>2, <1>3, <1>4
     DEF RecallInv, RecallTypeOK, OldestPushed, GoneAreOlder, CurrentIds, vars

(* The steps of the two middlewares and the agent, seen from the long-term *)
(* middleware.                                                             *)
LEMMA HybridStepsPush ==
  ASSUME RecallInv, [HybridNext]_hybridVars
  PROVE  \/ Recall
         \/ Flush
         \/ UNCHANGED <<tracked, pushed, longTerm>>
BY DEF HybridNext, hybridVars, recallVars, Structured

(* LongTermMemoryMiddleware tracks spoken messages once and in order,      *)
(* those that left the context are older than those in it, and what is     *)
(* pushed is stored and older than what is not.                            *)
THEOREM RecallInvariant ==
  HybridSpec => []RecallInv
<1>1. HybridInit => RecallInv
  BY DEF HybridInit, RecallInv, RecallTypeOK, KeptUpTo, Increasing, ToSet, OldestPushed,
         GoneAreOlder
<1>2. AgentInv /\ RecallInv /\ [HybridNext]_hybridVars => RecallInv'
  BY EvictionAssumption, HybridAssumption, HybridStepsPush, ConversationKeepsRecallInv,
     RecallKeepsRecallInv, FlushKeepsRecallInv
<1>3. QED
  BY <1>1, <1>2, ConversationInvariant, PTL DEF HybridSpec

(* As long as an add that raises has stored nothing, what is stored is in  *)
(* pushed, in order.                                                       *)
LEMMA StoredInvariant ==
  ASSUME "unconfirmed" \notin AddOutcomes
  PROVE  HybridSpec => []StoredIsPushed
<1>1. HybridInit => StoredIsPushed
  BY DEF HybridInit, StoredIsPushed, Increasing, ToSet
<1>2. RecallInv /\ StoredIsPushed /\ [HybridNext]_hybridVars => StoredIsPushed'
  <2> SUFFICES ASSUME RecallInv, StoredIsPushed, [HybridNext]_hybridVars
               PROVE  StoredIsPushed'
    OBVIOUS
  <2>1. CASE Recall
    <3>1. Batch(Disappeared) /\ Push(Disappeared)
      BY <2>1, BatchesAreInOrder DEF Recall, Push
    <3>2. QED
      BY <3>1, HybridAssumption, PushKeepsStored
  <2>2. CASE Flush
    <3>1. Batch(NotYetPushed) /\ Push(NotYetPushed)
      BY <2>2, BatchesAreInOrder DEF Flush, Push
    <3>2. QED
      BY <3>1, HybridAssumption, PushKeepsStored
  <2>3. CASE UNCHANGED <<tracked, pushed, longTerm>>
    BY <2>3 DEF StoredIsPushed
  <2>4. QED
    BY <2>1, <2>2, <2>3, HybridStepsPush
<1>3. QED
  BY <1>1, <1>2, RecallInvariant, PTL DEF HybridSpec

(* mem0 gets the conversation in the order it was said, and each message   *)
(* once, whatever mix of evictions, flushes and retries of refused adds    *)
(* stores it, as long as an add that raises has stored nothing.            *)
THEOREM LongTermMemoryInOrder ==
  ASSUME "unconfirmed" \notin AddOutcomes
  PROVE  HybridSpec => []StoredInOrder
<1>1. RecallInv /\ StoredIsPushed => StoredInOrder
  <2> SUFFICES ASSUME RecallInv, StoredIsPushed PROVE StoredInOrder
    OBVIOUS
  <2>1. Increasing(longTerm) /\ DOMAIN longTerm = 1..Len(longTerm)
    BY DEF RecallInv, RecallTypeOK, StoredIsPushed
  <2>2. QED
    BY <2>1 DEF Increasing, StoredInOrder
<1>2. QED
  BY <1>1, RecallInvariant, StoredInvariant, PTL

-----------------------------------------------------------------------------
(* Nothing that was evicted is forgotten.  This needs the two latest       *)
(* messages to stay: with keep_messages = 1, the last answer may be        *)
(* evicted by the before_model that runs right after the next user message *)
(* and so leaves before the long-term middleware has ever seen it.         *)

SeenFromStart ==
  /\ KeepMessages >= 2
  /\ \A ms \in Imported : \A k \in DOMAIN ms : ms[k] \notin Spoken

(* What is said in a step is not tracked yet.                              *)
LEMMA GrowthKeepsUntrackedTail ==
  ASSUME AgentInv, UntrackedTail, NEW n \in Nat, Grown(messages, messages', said, n),
         UNCHANGED tracked,
         \/ pc = "tools" /\ pc' = "mirror"
              /\ \A k \in (Len(messages) + 1)..(Len(messages) + n) :
                   messages'[k] \notin Spoken /\ messages'[k].kind = "tool"
         \/ pc = "model" /\ pc' \in {"tools", "user"} /\ n = 1
              /\ messages'[Len(messages) + 1].kind \in {"answer", "call"}
         \/ pc = "user" /\ pc' = "mirror" /\ n = 1
  PROVE  UntrackedTail'
<1> DEFINE N == Len(messages)
           AreTools(k) == \A j \in (k + 1)..(N + n) : messages'[j].kind = "tool"
<1>1. /\ N \in Nat /\ Len(messages') = N + n
      /\ \A k \in 1..N : messages'[k] = messages[k]
  BY DEF AgentInv, AgentTypeOK, Grown
<1>2. SUFFICES ASSUME NEW k \in 1..(N + n),
                      messages'[k] \in Spoken, messages'[k].id \notin ToSet(tracked)
               PROVE  IF pc' \in {"mirror", "evict", "recall"}
                        THEN k > N + n - 2 \/ AreTools(k)
                        ELSE /\ pc' \in {"user", "tools"}
                             /\ k = N + n /\ messages'[k].kind \in {"answer", "call"}
  BY <1>1 DEF UntrackedTail
<1>3. CASE k \in 1..N
  <2>1. messages[k] \in Spoken /\ messages[k].id \notin ToSet(tracked)
    BY <1>1, <1>2, <1>3
  <2>2. pc \in {"user", "tools"} /\ pc' = "mirror" /\ k = N
    BY <1>3, <2>1 DEF UntrackedTail
  <2>3. CASE pc = "tools"
    <3>1. AreTools(k)
      BY <2>2, <2>3
    <3>2. QED
      BY <2>2, <3>1
  <2>4. CASE pc = "user"
    BY <1>1, <2>2, <2>4
  <2>5. QED
    BY <2>2, <2>3, <2>4
<1>4. CASE k \in (N + 1)..(N + n)
  <2>1. pc # "tools"
    BY <1>2, <1>4
  <2>2. n = 1 /\ k = N + 1
    BY <1>1, <1>4, <2>1
  <2>3. QED
    BY <1>1, <2>1, <2>2
<1>5. QED
  BY <1>1, <1>3, <1>4

(* The agent's own steps.                                                  *)
LEMMA AgentKeepsUntrackedTail ==
  ASSUME EvictionAssumption, AgentInv, UntrackedTail, Agent, UNCHANGED tracked
  PROVE  UntrackedTail'
<1>1. ASSUME NEW size \in Sizes, UserSays(size) PROVE UntrackedTail'
  <2>1. Append1("human", size) /\ pc = "user" /\ pc' = "mirror"
    BY <1>1 DEF UserSays
  <2>2. Grown(messages, messages', said, 1)
    BY <2>1, OneMessageGrows
  <2>3. QED
    BY <2>1, <2>2, GrowthKeepsUntrackedTail
<1>2. ASSUME NEW size \in Sizes, ModelAnswers(size) \/ ModelCalls(size) PROVE UntrackedTail'
  <2>1. PICK kind \in {"answer", "call"} :
          /\ Append1(kind, size) /\ pc = "model"
          /\ pc' = IF kind = "answer" THEN "user" ELSE "tools"
    BY <1>2 DEF ModelAnswers, ModelCalls
  <2>2. Grown(messages, messages', said, 1) /\ Last(messages').kind = kind
    BY <2>1, OneMessageGrows
  <2>3. Len(messages') = Len(messages) + 1
    BY <2>2 DEF Grown
  <2>4. messages'[Len(messages) + 1].kind = kind
    BY <2>2, <2>3 DEF Last
  <2>5. QED
    BY <2>1, <2>2, <2>4, GrowthKeepsUntrackedTail
<1>3. ASSUME NEW n \in 1..MaxCalls, NEW size \in Sizes, ToolsReply(n, size)
      PROVE  UntrackedTail'
  <2>1. /\ Grown(messages, messages', said, n)
        /\ \A k \in (Len(messages) + 1)..(Len(messages) + n) :
             messages'[k].kind = "tool"
    BY <1>3, RepliesGrow
  <2>2. \A k \in (Len(messages) + 1)..(Len(messages) + n) : messages'[k] \notin Spoken
    BY <2>1 DEF Spoken, HasPayload
  <2>3. n \in Nat
    BY DEF EvictionAssumption
  <2>4. pc = "tools" /\ pc' = "mirror"
    BY <1>3 DEF ToolsReply
  <2>5. QED
    BY <2>1, <2>2, <2>3, <2>4, GrowthKeepsUntrackedTail
<1>4. CASE RunFails
  BY <1>4 DEF RunFails, UntrackedTail
<1>5. QED
  BY <1>1, <1>2, <1>3, <1>4 DEF Agent

(* An eviction takes only what is tracked.                                 *)
LEMMA EvictionTakesTracked ==
  ASSUME EvictionAssumption, SeenFromStart, AgentInv, UntrackedTail, EvictCommitted
  PROVE  /\ ToSet(Payloads(messages)) \ ToSet(Payloads(messages')) \subseteq ToSet(tracked)
         /\ UNCHANGED tracked /\ pc' = "recall" => UntrackedTail'
<1> DEFINE c == Cutoff
           N == Len(messages)
<1>1. /\ messages \in Seq(Message) /\ N \in Nat /\ IdsInOrder(messages)
  BY DEF AgentInv, AgentTypeOK, InOrder
<1>2. /\ messages' \in Seq(Message) /\ IdsInOrder(messages')
  BY EvictKeepsAgentInv DEF AgentInv, AgentTypeOK, InOrder
<1>3. c \in 1..MaxCutoff(messages) /\ c \in 0..N /\ c < N /\ c > 0
  BY CutoffOfConversation DEF EvictCommitted
<1>4. MaxCutoff(messages) <= N - 2 /\ MaxCutoff(messages) \in 0..N
  <2>1. N >= 2
    BY <1>1, <1>3
  <2>2. QED
    BY <1>1, <2>1, MaxCutoffBound DEF SeenFromStart
<1>5. messages' = From(messages, c) /\ pc = "evict"
  BY DEF EvictCommitted
<1> HIDE DEF c
<1>6. /\ Len(messages') = N - c
      /\ \A k \in 1..(N - c) : messages'[k] = messages[c + k]
  BY <1>1, <1>3, <1>5, FromTail
<1> HIDE DEF N
<1>7. \A k \in 1..N : messages[k] \in Spoken /\ messages[k].id \notin ToSet(tracked)
                        => \/ k > N - 2
                           \/ \A j \in (k + 1)..N : messages[j].kind = "tool"
  BY <1>5 DEF UntrackedTail, N
<1>8. messages[c + 1].kind # "tool" /\ c + 1 \in 1..N
  <2>1. ~IsTool(messages, c)
    BY <1>1, <1>3, EvictionAssumption, FindCutoffIsSafe DEF c, Cutoff
  <2>2. QED
    BY <1>1, <1>3, <2>1 DEF IsTool
<1>9. ASSUME NEW x \in ToSet(Payloads(messages)), x \notin ToSet(Payloads(messages'))
      PROVE  x \in ToSet(tracked)
  <2>1. PICK k \in 1..N : messages[k] \in Spoken /\ x = messages[k].id
    BY <1>1, <1>9, PayloadIds DEF N
  <2>2. k <= c
    <3>1. SUFFICES ASSUME k > c PROVE FALSE
      BY <1>1, <1>3
    <3>2. k - c \in 1..(N - c) /\ c + (k - c) = k
      BY <1>1, <1>3, <3>1
    <3>3. messages'[k - c] = messages[k]
      BY <1>6, <3>2
    <3>4. x \in ToSet(Payloads(messages'))
      BY <1>2, <1>6, <2>1, <3>2, <3>3, PayloadIds
    <3>5. QED
      BY <1>9, <3>4
  <2>3. ~(k > N - 2)
    BY <1>1, <1>3, <1>4, <2>2
  <2>4. c + 1 \in (k + 1)..N
    BY <1>1, <1>3, <2>2
  <2>5. QED
    BY <1>7, <1>8, <2>1, <2>3, <2>4
<1>10. ASSUME UNCHANGED tracked, pc' = "recall" PROVE UntrackedTail'
  <2>1. ASSUME NEW k \in 1..(N - c), messages'[k] \in Spoken,
               messages'[k].id \notin ToSet(tracked)
        PROVE  \/ k > N - c - 2
               \/ \A j \in (k + 1)..(N - c) : messages'[j].kind = "tool"
    <3>1. c + k \in 1..N /\ messages[c + k] = messages'[k]
      <4>1. k \in Nat /\ k >= 1 /\ k <= N - c /\ c \in Nat
        BY <1>1, <1>3
      <4>2. c + k \in 1..N
        BY <1>1, <4>1
      <4>3. QED
        BY <1>6, <4>2
    <3>2. \/ c + k > N - 2
          \/ \A j \in (c + k + 1)..N : messages[j].kind = "tool"
      BY <1>7, <2>1, <3>1
    <3>3. ASSUME NEW j \in (k + 1)..(N - c)
          PROVE  c + j \in (c + k + 1)..N /\ messages'[j] = messages[c + j]
      <4>1. j \in 1..(N - c) /\ c + j \in (c + k + 1)..N
        BY <1>1, <1>3
      <4>2. QED
        BY <1>6, <4>1
    <3>4. QED
      BY <1>1, <1>3, <3>2, <3>3
  <2>2. QED
    BY <1>6, <1>10, <2>1 DEF UntrackedTail
<1>11. QED
  BY <1>9, <1>10

(* If at least two messages are kept and the middleware sees the           *)
(* conversation from its start, every spoken message that is dropped was   *)
(* tracked first: only the last two of the context can be untracked.       *)
LEMMA NothingLeavesUntracked ==
  ASSUME SeenFromStart
  PROVE  HybridSpec => []DroppedIsTracked
<1>1. HybridInit => DroppedIsTracked
  <2> SUFFICES ASSUME HybridInit PROVE DroppedIsTracked
    OBVIOUS
  <2>1. messages \in Imported /\ messages \in Seq(Message) /\ dropped = {}
    BY EvictionAssumption DEF HybridInit, Init, EvictionAssumption
  <2>2. \A k \in DOMAIN messages : messages[k] \notin Spoken
    BY <2>1 DEF SeenFromStart
  <2>3. DOMAIN messages = 1..Len(messages)
    BY <2>1
  <2>4. QED
    BY <2>1, <2>2, <2>3 DEF DroppedIsTracked, UntrackedTail
<1>2. AgentInv /\ RecallInv /\ DroppedIsTracked /\ [HybridNext]_hybridVars
        => DroppedIsTracked'
  <2> SUFFICES ASSUME AgentInv, RecallInv, DroppedIsTracked, [HybridNext]_hybridVars
               PROVE  DroppedIsTracked'
    OBVIOUS
  <2>1. UntrackedTail /\ dropped \subseteq ToSet(tracked)
    BY DEF DroppedIsTracked
  <2>2. CASE Structured /\ EvictCommitted
    <3>1. pc' = "recall" /\ UNCHANGED tracked
      BY <2>2, HybridAssumption DEF Structured, EvictCommitted, HybridAssumption
    <3>2. ToSet(Payloads(messages)) \ ToSet(Payloads(messages')) \subseteq ToSet(tracked)
          /\ UntrackedTail'
      BY <2>1, <2>2, <3>1, EvictionAssumption, EvictionTakesTracked
    <3>3. QED
      BY <2>1, <2>2, <3>1, <3>2 DEF DroppedIsTracked, Structured
  <2>3. CASE Structured /\ ~EvictCommitted
    <3>1. /\ UNCHANGED <<messages, tracked>>
          /\ pc \in {"mirror", "evict"} /\ pc' \in {"evict", "recall"}
      BY <2>3, HybridAssumption
         DEF Structured, BeforeModel, Mirror, WithinBudget, EvictNotCommitted, KeepAll,
             HybridAssumption
    <3>2. UntrackedTail'
      BY <2>1, <3>1 DEF UntrackedTail
    <3>3. dropped' = dropped
      BY <2>3, <3>1 DEF Structured
    <3>4. QED
      BY <2>1, <3>1, <3>2, <3>3 DEF DroppedIsTracked
  <2>4. CASE Agent /\ UNCHANGED recallVars
    BY <2>1, <2>4, EvictionAssumption, AgentKeepsUntrackedTail
       DEF DroppedIsTracked, recallVars
  <2>5. CASE Recall
    <3>1. /\ ToSet(tracked) \subseteq ToSet(tracked')
          /\ \A k \in 1..Len(messages) :
               messages[k] \in Spoken => messages[k].id \in ToSet(tracked')
      BY <2>5, RecallTracksAll
    <3>2. UNCHANGED <<messages, dropped>>
      BY <2>5 DEF Recall
    <3>3. QED
      BY <2>1, <3>1, <3>2 DEF DroppedIsTracked, UntrackedTail
  <2>6. CASE Flush \/ UNCHANGED hybridVars
    BY <2>1, <2>6 DEF Flush, hybridVars, recallVars, vars, DroppedIsTracked, UntrackedTail
  <2>7. QED
    BY <2>2, <2>3, <2>4, <2>5, <2>6 DEF HybridNext
<1>3. QED
  BY <1>1, <1>2, ConversationInvariant, RecallInvariant, PTL DEF HybridSpec

(* "Persist the message IDs that disappeared from the active context       *)
(* window": what was said and evicted is in mem0 or tracked for the next   *)
(* push, however often adds and updates fail and runs break off.           *)
THEOREM EvictedMessagesStayRecallable ==
  ASSUME SeenFromStart
  PROVE  HybridSpec => []EvictedStaysRecallable
<1>1. RecallInv /\ DroppedIsTracked => EvictedStaysRecallable
  BY DEF RecallInv, DroppedIsTracked, EvictedStaysRecallable
<1>2. QED
  BY <1>1, RecallInvariant, NothingLeavesUntracked, PTL

(* After a flush that mem0 accepts, only what the model said in its last   *)
(* call is not in it.                                                      *)
THEOREM FlushIsComplete ==
  ASSUME SeenFromStart
  PROVE  HybridSpec => FlushStoresAllButLastAnswer
<1>1. ASSUME AgentInv, RecallInv, RecallInv', DroppedIsTracked, Flush, pushed' # pushed
      PROVE  LET seen == IF Last(messages).kind \in {"answer", "call"} THEN Front(messages)
                                                                     ELSE messages
             IN  dropped \cup ToSet(Payloads(seen)) \subseteq ToSet(longTerm')
  <2> DEFINE seen == IF Last(messages).kind \in {"answer", "call"} THEN Front(messages)
                                                                   ELSE messages
             N == Len(messages)
  <2>1. messages \in Seq(Message) /\ IdsInOrder(messages) /\ N \in Nat
    BY <1>1 DEF AgentInv, AgentTypeOK, InOrder
  <2>2. /\ seen \in Seq(Message) /\ Len(seen) <= N
        /\ \A k \in 1..Len(seen) : seen[k] = messages[k]
        /\ N > 0 /\ Len(seen) = N => Last(messages).kind \notin {"answer", "call"}
    <3>1. CASE N = 0
      <4>1. Front(messages) = <<>> /\ messages = <<>>
        BY <2>1, <3>1 DEF Front
      <4>2. QED
        BY <2>1, <3>1, <4>1
    <3>2. CASE N > 0
      <4>1. Front(messages) = [k \in 1..(N - 1) |-> messages[k]]
        BY <2>1, <3>2 DEF Front
      <4>2. /\ Front(messages) \in Seq(Message) /\ Len(Front(messages)) = N - 1
            /\ \A k \in 1..(N - 1) : Front(messages)[k] = messages[k]
        BY <2>1, <3>2, <4>1
      <4>3. QED
        BY <2>1, <3>2, <4>2
    <3>3. QED
      BY <2>1, <3>1, <3>2
  <2> HIDE DEF seen
  <2>3. IdsInOrder(seen)
    BY <2>1, <2>2 DEF IdsInOrder
  <2>4. pushed' = pushed \cup ToSet(NotYetPushed) /\ ToSet(NotYetPushed) = ToSet(tracked) \ pushed
    BY <1>1, BatchesAreInOrder DEF Flush, PushBatch
  <2>5. ToSet(tracked) \subseteq ToSet(longTerm')
    BY <1>1, <2>4 DEF RecallInv
  <2>6. ASSUME NEW x \in ToSet(Payloads(seen))
        PROVE  x \in ToSet(tracked)
    <3>1. PICK k \in 1..Len(seen) : seen[k] \in Spoken /\ x = seen[k].id
      BY <2>2, <2>3, PayloadIds
    <3>2. k \in 1..N /\ messages[k] \in Spoken /\ x = messages[k].id
      BY <2>1, <2>2, <3>1
    <3>3. ~(k = N /\ messages[k].kind \in {"answer", "call"})
      BY <2>1, <2>2, <3>1, <3>2 DEF Last
    <3>4. QED
      BY <1>1, <3>2, <3>3 DEF DroppedIsTracked, UntrackedTail, Flush
  <2>7. dropped \subseteq ToSet(tracked)
    BY <1>1 DEF DroppedIsTracked
  <2>8. QED
    BY <2>5, <2>6, <2>7 DEF seen
<1>2. AgentInv /\ RecallInv /\ RecallInv' /\ DroppedIsTracked /\ [HybridNext]_hybridVars =>
        [Flush /\ pushed' # pushed =>
           LET seen == IF Last(messages).kind \in {"answer", "call"} THEN Front(messages)
                                                                   ELSE messages
           IN  dropped \cup ToSet(Payloads(seen)) \subseteq ToSet(longTerm')]_hybridVars
  BY <1>1
<1>3. QED
  BY <1>2, ConversationInvariant, RecallInvariant, NothingLeavesUntracked, PTL
     DEF HybridSpec, FlushStoresAllButLastAnswer

-----------------------------------------------------------------------------
(* The working window of a MemorySession.                                  *)

(* The window holds turns of the transcript, oldest first.                 *)
WindowInv ==
  /\ transcript \in Seq(Nat)
  /\ window \in Seq(Nat)
  /\ Increasing(window)
  /\ \A k \in 1..Len(window) : window[k] \in 1..Len(transcript)
  /\ rendered \in Nat

-----------------------------------------------------------------------------
(* eviction_batch and remove.                                              *)

Size ==
  LET evictable == SubSeq(window, 1, Len(window) - KeepLast)
      Enough(k) == ReachesTarget(TotalTokens(window) + PromptOverhead
                                   - TotalTokens(SubSeq(evictable, 1, k)))
  IN  CHOOSE k \in 0..Len(evictable) :
        /\ k = Len(evictable) \/ Enough(k)
        /\ \A j \in 0..k-1 : ~Enough(j)

(* A batch is a prefix of the window without the last two turns.           *)
LEMMA BatchIsPrefix ==
  ASSUME WindowInv, Len(window) > KeepLast
  PROVE  /\ Size \in 0..(Len(window) - 2)
         /\ EvictionBatch = [k \in 1..Size |-> window[k]]
         /\ Size < Len(window) - 2 =>
              ReachesTarget(TotalTokens(window) + PromptOverhead - TotalTokens(EvictionBatch))
<1> DEFINE n == Len(window)
           evictable == SubSeq(window, 1, Len(window) - KeepLast)
           Enough(k) == ReachesTarget(TotalTokens(window) + PromptOverhead
                                        - TotalTokens(SubSeq(evictable, 1, k)))
           T == {k \in 0..(n - 2) : k = n - 2 \/ Enough(k)}
<1>1. n \in Nat /\ n > 2 /\ window \in Seq(Nat)
  BY DEF WindowInv, KeepLast
<1>2. evictable = [k \in 1..(n - 2) |-> window[k]] /\ Len(evictable) = n - 2
      /\ evictable \in Seq(Nat)
  BY <1>1 DEF KeepLast
<1>3. PICK least \in T : \A j \in T : least <= j
  <2>1. T \in SUBSET Nat /\ n - 2 \in T
    BY <1>1
  <2> HIDE DEF T
  <2>2. QED
    BY <2>1, LeastNatural
<1>4. Size = CHOOSE k \in 0..Len(evictable) : /\ k = Len(evictable) \/ Enough(k)
                                              /\ \A j \in 0..k-1 : ~Enough(j)
  BY DEF Size
<1>5. EvictionBatch = SubSeq(evictable, 1, Size)
  <2>1. EvictionBatch = IF Len(window) <= KeepLast THEN <<>> ELSE SubSeq(evictable, 1, Size)
    BY DEF EvictionBatch, Size
  <2>2. ~(Len(window) <= KeepLast)
    BY <1>1 DEF KeepLast
  <2>3. QED
    BY <2>1, <2>2
<1> HIDE DEF Enough, n
<1>6. \A j \in 0..(least - 1) : ~Enough(j)
  <2> TAKE j \in 0..(least - 1)
  <2>1. j \in 0..(n - 2) /\ ~(least <= j)
    BY <1>1, <1>3
  <2>2. QED
    BY <1>3, <2>1
<1> HIDE DEF evictable
<1>7. Size \in 0..(n - 2) /\ (Size = n - 2 \/ Enough(Size))
  BY <1>2, <1>3, <1>4, <1>6
<1>8. EvictionBatch = [k \in 1..Size |-> window[k]]
  <2> DEFINE m == Size
  <2> HIDE DEF m
  <2>1. m \in 0..(n - 2)
    BY <1>7 DEF m
  <2>2. SubSeq(evictable, 1, m) = [k \in 1..m |-> evictable[k]]
    BY <1>1, <1>2, <2>1
  <2>3. \A k \in 1..m : evictable[k] = window[k]
    BY <1>1, <1>2, <2>1
  <2>4. QED
    BY <1>5, <2>2, <2>3 DEF m
<1>9. Size < n - 2 =>
        ReachesTarget(TotalTokens(window) + PromptOverhead - TotalTokens(EvictionBatch))
  <2>1. Size < n - 2 => Enough(Size)
    BY <1>1, <1>7
  <2>2. QED
    BY <1>5, <2>1 DEF Enough, n
<1>10. QED
  BY <1>7, <1>8, <1>9 DEF n

(* Without a prefix: the rest of the window, in order.                     *)
LEMMA RemainingTurns ==
  ASSUME WindowInv, NEW m \in 0..Len(window), NEW batch,
         batch = [k \in 1..m |-> window[k]]
  PROVE  /\ Remaining(batch) \in Seq(Nat) /\ Increasing(Remaining(batch))
         /\ ToSet(batch) = {window[k] : k \in 1..m}
         /\ ToSet(Remaining(batch)) = {window[k] : k \in (m + 1)..Len(window)}
<1> DEFINE n == Len(window)
<1>1. n \in Nat /\ m \in Nat /\ m <= n /\ window \in Seq(Nat) /\ Increasing(window)
      /\ DOMAIN window = 1..n
  BY DEF WindowInv
<1>2. \A k \in 1..n : window[k] \in Nat
  BY <1>1
<1>3. ToSet(batch) = {window[k] : k \in 1..m}
  BY DEF ToSet
<1>4. ToSet(window) = {window[k] : k \in 1..n}
  BY <1>1 DEF ToSet
<1>5. \A j \in 1..m, k \in (m + 1)..n : window[j] # window[k]
  <2> TAKE j \in 1..m, k \in (m + 1)..n
  <2>1. j \in 1..n /\ k \in 1..n /\ j < k
    BY <1>1
  <2>2. window[j] < window[k]
    BY <1>1, <2>1 DEF Increasing
  <2>3. QED
    BY <1>2, <2>1, <2>2
<1>6. 1..n = (1..m) \cup (m + 1)..n
  BY <1>1
<1> DEFINE rest == ToSet(window) \ ToSet(batch)
<1>7. rest = {window[k] : k \in (m + 1)..n}
  BY <1>3, <1>4, <1>5, <1>6
<1> HIDE DEF rest, n
<1>8. /\ Keep(window, rest) \in Seq(Nat) /\ Increasing(Keep(window, rest))
      /\ ToSet(Keep(window, rest)) = ToSet(window) \cap rest
  BY <1>1, KeepIncreasing, KeepElements
<1>9. ToSet(Keep(window, rest)) = {window[k] : k \in (m + 1)..n}
  BY <1>4, <1>6, <1>7, <1>8
<1>10. QED
  BY <1>3, <1>8, <1>9 DEF Remaining, rest, n

(* What is left of a committed eviction, and what is recorded.             *)
LEMMA EvictionTurns ==
  ASSUME WindowInv, UpdateCommitted
  PROVE  /\ Len(window) > 2 /\ Size \in 1..(Len(window) - 2)
         /\ EvictionBatch = [k \in 1..Size |-> window[k]]
         /\ window' \in Seq(Nat) /\ Increasing(window')
         /\ ToSet(window') = {window[k] : k \in (Size + 1)..Len(window)}
         /\ committed' = committed \cup {window[k] : k \in 1..Size}
<1>1. Len(window) > KeepLast /\ Len(window) \in Nat
  <2>1. Len(window) \in Nat /\ EvictionBatch # <<>>
    BY DEF WindowInv, UpdateCommitted
  <2>2. ~(Len(window) <= KeepLast)
    BY <2>1 DEF EvictionBatch
  <2>3. QED
    BY <2>1, <2>2 DEF KeepLast
<1>2. Size \in 0..(Len(window) - 2) /\ EvictionBatch = [k \in 1..Size |-> window[k]]
  BY <1>1, BatchIsPrefix
<1>3. Size # 0
  <2>1. SUFFICES ASSUME Size = 0 PROVE FALSE
    OBVIOUS
  <2>2. EvictionBatch = <<>>
    BY <1>2, <2>1
  <2>3. QED
    BY <2>2 DEF UpdateCommitted
<1>4. Size \in 0..Len(window) /\ Len(window) > 2
  BY <1>1, <1>2 DEF KeepLast
<1>5. /\ Remaining(EvictionBatch) \in Seq(Nat) /\ Increasing(Remaining(EvictionBatch))
      /\ ToSet(EvictionBatch) = {window[k] : k \in 1..Size}
      /\ ToSet(Remaining(EvictionBatch)) = {window[k] : k \in (Size + 1)..Len(window)}
  BY <1>2, <1>4, RemainingTurns
<1>6. committed' = committed \cup ToSet(EvictionBatch) /\ window' = Remaining(EvictionBatch)
  BY DEF UpdateCommitted
<1>7. QED
  BY <1>2, <1>3, <1>4, <1>5, <1>6

-----------------------------------------------------------------------------
(* The steps.                                                              *)

Says(chars) ==
  /\ transcript' = Append(transcript, chars)
  /\ window' = Append(window, NextTurnId)
  /\ UNCHANGED committed

(* A turn that is said goes to the end of transcript and window under the  *)
(* next id; everything before it stays.                                    *)
LEMMA SayingKeepsWindow ==
  ASSUME SessionAssumption, WindowInv, NEW chars \in TurnChars, Says(chars)
  PROVE  /\ transcript' \in Seq(Nat) /\ Len(transcript') = Len(transcript) + 1
         /\ Len(transcript) \in Nat
         /\ window' \in Seq(Nat) /\ Increasing(window')
         /\ Len(window') = Len(window) + 1
         /\ \A k \in 1..Len(window) : window'[k] = window[k]
         /\ window'[Len(window) + 1] = Len(transcript) + 1
         /\ \A k \in 1..Len(window') : window'[k] \in 1..Len(transcript')
<1> DEFINE n == Len(window)
           t == Len(transcript)
<1>1. /\ transcript \in Seq(Nat) /\ t \in Nat /\ window \in Seq(Nat) /\ n \in Nat
      /\ \A j, k \in 1..n : j < k => window[j] < window[k]
      /\ \A k \in 1..n : window[k] \in 1..t
  BY DEF WindowInv, Increasing
<1>2. chars \in Nat
  BY DEF SessionAssumption
<1>3. transcript' \in Seq(Nat) /\ Len(transcript') = t + 1
  BY <1>1, <1>2 DEF Says
<1>4. /\ window' \in Seq(Nat) /\ Len(window') = n + 1
      /\ \A k \in 1..n : window'[k] = window[k]
      /\ window'[n + 1] = t + 1
  <2>1. window' = Append(window, t + 1)
    BY DEF Says, NextTurnId
  <2>2. t + 1 \in Nat
    BY <1>1
  <2> HIDE DEF t
  <2>3. QED
    BY <1>1, <2>1, <2>2
<1> HIDE DEF n, t
<1>5. \A k \in 1..(n + 1) : k \in 1..n \/ k = n + 1
  BY <1>1
<1>6. \A k \in 1..(n + 1) : window'[k] \in 1..(t + 1)
  <2> TAKE k \in 1..(n + 1)
  <2>1. CASE k \in 1..n
    <3>1. window[k] \in 1..t /\ window'[k] = window[k]
      BY <1>1, <1>4, <2>1
    <3>2. QED
      BY <1>1, <3>1
  <2>2. CASE k = n + 1
    BY <1>1, <1>4, <2>2
  <2>3. QED
    BY <1>5, <2>1, <2>2
<1>7. ASSUME NEW j \in 1..(n + 1), NEW k \in 1..(n + 1), j < k
      PROVE  window'[j] < window'[k]
  <2>1. j \in 1..n
    BY <1>1, <1>7
  <2>2. CASE k \in 1..n
    BY <1>1, <1>4, <1>7, <2>1, <2>2
  <2>3. CASE k = n + 1
    <3>1. window[j] \in 1..t /\ window'[j] = window[j] /\ window'[k] = t + 1
      BY <1>1, <1>4, <2>1, <2>3
    <3>2. QED
      BY <1>1, <3>1
  <2>4. QED
    BY <1>5, <2>2, <2>3
<1>8. QED
  BY <1>1, <1>3, <1>4, <1>6, <1>7 DEF Increasing, n, t

(* What a step does to the session.                                        *)
LEMMA StepsOfSession ==
  ASSUME [SessionNext]_sessionVars
  PROVE  \/ \E chars \in TurnChars : Says(chars)
         \/ UpdateCommitted
         \/ UNCHANGED <<transcript, window, committed>>
BY DEF SessionNext, sessionVars, Send, Reply, Says, NothingToEvict, UpdateNotCommitted, ReplyFails

(* Every step of a session keeps the window a list of turns of the         *)
(* transcript, oldest first.                                               *)
LEMMA NextKeepsWindowInv ==
  ASSUME SessionAssumption, WindowInv, [SessionNext]_sessionVars
  PROVE  WindowInv'
<1>1. rendered' \in Nat
  <2>1. \A done : Renders(done) \in SUBSET Nat
    BY DEF Renders, SessionAssumption
  <2>2. rendered' = rendered \/ \E done : rendered' \in Renders(done)
    BY DEF SessionNext, sessionVars, Send, Reply, NothingToEvict, UpdateCommitted,
           UpdateNotCommitted, ReplyFails
  <2>3. QED
    BY <2>1, <2>2 DEF WindowInv
<1>2. ASSUME NEW chars \in TurnChars, Says(chars)
      PROVE  WindowInv'
  BY <1>1, <1>2, SayingKeepsWindow DEF WindowInv
<1>3. CASE UpdateCommitted
  <2>1. /\ window' \in Seq(Nat) /\ Increasing(window')
        /\ ToSet(window') = {window[k] : k \in (Size + 1)..Len(window)}
        /\ Size \in 1..(Len(window) - 2) /\ Len(window) > 2
    BY <1>3, EvictionTurns
  <2>2. Len(window) \in Nat /\ \A k \in 1..Len(window) : window[k] \in 1..Len(transcript)
    BY DEF WindowInv
  <2> DEFINE m == Size
  <2> HIDE DEF m
  <2>3. m \in 1..(Len(window) - 2) /\ ToSet(window') = {window[k] : k \in (m + 1)..Len(window)}
    BY <2>1 DEF m
  <2>4. \A k \in (m + 1)..Len(window) : window[k] \in 1..Len(transcript)
    <3>1. \A k \in (m + 1)..Len(window) : k \in 1..Len(window)
      BY <2>2, <2>3
    <3>2. QED
      BY <2>2, <3>1
  <2>5. \A k \in 1..Len(window') : window'[k] \in ToSet(window')
    BY <2>1 DEF ToSet
  <2>6. UNCHANGED transcript
    BY <1>3 DEF UpdateCommitted
  <2>7. QED
    BY <1>1, <2>1, <2>3, <2>4, <2>5, <2>6 DEF WindowInv
<1>4. CASE UNCHANGED <<transcript, window, committed>>
  BY <1>1, <1>4 DEF WindowInv
<1>5. QED
  BY <1>2, <1>3, <1>4, StepsOfSession

(* Throughout a session the working window holds turns of the transcript,  *)
(* each once, oldest first.                                                *)
THEOREM WindowInvariant == SessionSpec => []WindowInv
<1>1. SessionInit => WindowInv
  BY DEF SessionInit, WindowInv, Increasing
<1>2. WindowInv /\ [SessionNext]_sessionVars => WindowInv'
  BY SessionAssumption, NextKeepsWindowInv
<1>3. QED
  BY <1>1, <1>2, PTL DEF SessionSpec

-----------------------------------------------------------------------------
(* The turn being answered and the one before it are never evicted.        *)
THEOREM LatestTurnsAreKept == SessionSpec => LatestTurnsStay
<1>1. ASSUME WindowInv, [SessionNext]_sessionVars,
             NEW k \in {Len(window) - 1, Len(window)} \cap 1..Len(window)
      PROVE  Contains(window', window[k])
  <2>1. window \in Seq(Nat) /\ Len(window) \in Nat /\ k \in 1..Len(window)
    BY <1>1 DEF WindowInv
  <2>2. ASSUME NEW chars \in TurnChars, Says(chars)
        PROVE  Contains(window', window[k])
    <3>1. Len(window') = Len(window) + 1 /\ window'[k] = window[k]
      BY <1>1, <2>1, <2>2, SessionAssumption, SayingKeepsWindow
    <3>2. k \in 1..Len(window')
      BY <2>1, <3>1
    <3>3. QED
      BY <3>1, <3>2 DEF Contains
  <2>3. CASE UpdateCommitted
    <3>1. /\ window' \in Seq(Nat)
          /\ ToSet(window') = {window[i] : i \in (Size + 1)..Len(window)}
          /\ Size \in 1..(Len(window) - 2)
      BY <1>1, <2>3, EvictionTurns
    <3>2. k \in (Size + 1)..Len(window)
      BY <1>1, <2>1, <3>1
    <3>3. window[k] \in ToSet(window')
      BY <3>1, <3>2
    <3>4. QED
      BY <3>1, <3>3 DEF ToSet, Contains
  <2>4. CASE UNCHANGED window
    BY <2>1, <2>4 DEF Contains
  <2>5. QED
    BY <1>1, <2>2, <2>3, <2>4, StepsOfSession
<1>2. WindowInv /\ [SessionNext]_sessionVars =>
        [LET n == Len(window)
         IN  \A k \in {n - 1, n} \cap 1..n : Contains(window', window[k])]_sessionVars
  BY <1>1
<1>3. QED
  BY <1>2, WindowInvariant, PTL DEF SessionSpec, LatestTurnsStay

(* "Turns are only actually removed after a caller confirms the memory     *)
(* update succeeded": every turn said is in the window or recorded by a    *)
(* committed update, never both, and the oldest leave first.               *)
THEOREM SessionImplementsHandover == SessionSpec => WindowImplementsHandover
<1>1. SessionInit => Session!Init
  <2> SUFFICES ASSUME SessionInit PROVE Session!Init
    OBVIOUS
  <2>1. Len(transcript) = 0 /\ ToSet(window) = {} /\ committed = {}
    BY DEF SessionInit, ToSet
  <2>2. QED
    BY <2>1 DEF Session!Init
<1>2. WindowInv /\ [SessionNext]_sessionVars => [Session!Next]_Session!vars
  <2> SUFFICES ASSUME WindowInv, [SessionNext]_sessionVars PROVE [Session!Next]_Session!vars
    OBVIOUS
  <2> DEFINE n == Len(window)
             t == Len(transcript)
  <2>1. /\ window \in Seq(Nat) /\ n \in Nat /\ DOMAIN window = 1..n /\ t \in Nat
        /\ \A j, k \in 1..n : j < k => window[j] < window[k]
        /\ \A k \in 1..n : window[k] \in Nat
    BY DEF WindowInv, Increasing
  <2>2. ToSet(window) = {window[k] : k \in 1..n}
    BY <2>1 DEF ToSet
  <2>3. ASSUME NEW chars \in TurnChars, Says(chars)
        PROVE  Session!Say
    <3>1. /\ Len(transcript') = t + 1 /\ Len(window') = n + 1 /\ window' \in Seq(Nat)
          /\ \A k \in 1..n : window'[k] = window[k]
          /\ window'[n + 1] = t + 1
      BY <2>3, SessionAssumption, SayingKeepsWindow
    <3>2. DOMAIN window' = 1..(n + 1)
      BY <3>1
    <3>3. ToSet(window') = {window'[k] : k \in 1..(n + 1)}
      BY <3>2 DEF ToSet
    <3>4. 1..(n + 1) = 1..n \cup {n + 1} /\ (t + 1)..(t + 1) = {t + 1}
      BY <2>1
    <3> HIDE DEF n, t
    <3>5. ToSet(window') = ToSet(window) \cup {t + 1}
      BY <2>2, <3>1, <3>3, <3>4
    <3>6. Len(transcript') >= t /\ UNCHANGED committed
      BY <2>1, <2>3, <3>1 DEF Says
    <3>7. QED
      BY <3>1, <3>4, <3>5, <3>6 DEF Session!Say, t
  <2>4. CASE UpdateCommitted
    <3>1. /\ n > 2 /\ Size \in 1..(n - 2)
          /\ ToSet(window') = {window[k] : k \in (Size + 1)..n}
          /\ committed' = committed \cup {window[k] : k \in 1..Size}
      BY <2>4, EvictionTurns
    <3> DEFINE m == Size
               last == window[m]
    <3> HIDE DEF m, n
    <3>2. /\ m \in 1..n /\ m < n
          /\ ToSet(window') = {window[k] : k \in (m + 1)..n}
          /\ committed' = committed \cup {window[k] : k \in 1..m}
      BY <2>1, <3>1 DEF m
    <3>3. last \in ToSet(window)
      BY <2>2, <3>2
    <3>4. ASSUME NEW k \in 1..n PROVE window[k] > last <=> k \in (m + 1)..n
      <4>1. CASE k < m
        <5>1. window[k] < last
          BY <2>1, <3>2, <4>1
        <5>2. QED
          BY <2>1, <3>2, <4>1, <5>1
      <4>2. CASE k = m
        BY <2>1, <3>2, <4>2
      <4>3. CASE k > m
        <5>1. last < window[k]
          BY <2>1, <3>2, <4>3
        <5>2. QED
          BY <2>1, <3>2, <4>3, <5>1
      <4>4. QED
        BY <2>1, <3>2, <4>1, <4>2, <4>3
    <3>5. \A k \in (m + 1)..n : k \in 1..n
      BY <2>1, <3>2
    <3>6. ToSet(window') = {i \in ToSet(window) : i > last}
      BY <2>2, <3>2, <3>4, <3>5
    <3>7. \A k \in 1..n : window[k] <= last <=> k \in 1..m
      <4> TAKE k \in 1..n
      <4>1. window[k] <= last <=> ~(window[k] > last)
        BY <2>1, <3>2
      <4>2. k \in 1..m <=> k \notin (m + 1)..n
        BY <2>1, <3>2
      <4>3. QED
        BY <3>4, <4>1, <4>2
    <3>8. \A k \in 1..m : k \in 1..n
      BY <2>1, <3>2
    <3>9. {window[k] : k \in 1..m} = {i \in ToSet(window) : i <= last}
      BY <2>2, <3>7, <3>8
    <3>10. window[n] \in ToSet(window')
      <4>1. n \in (m + 1)..n
        BY <2>1, <3>2
      <4>2. QED
        BY <3>2, <4>1
    <3>11. UNCHANGED transcript
      BY <2>4 DEF UpdateCommitted
    <3> HIDE DEF last
    <3>12. Session!HandOver
      BY <3>2, <3>3, <3>6, <3>9, <3>10, <3>11 DEF Session!HandOver
    <3>13. QED
      BY <3>12 DEF Session!Next
  <2>5. CASE UNCHANGED <<transcript, window, committed>>
    BY <2>5 DEF Session!vars
  <2>6. QED
    BY <2>3, <2>4, <2>5, StepsOfSession DEF Session!Next
<1>3. QED
  BY <1>1, <1>2, WindowInvariant, PTL DEF SessionSpec, WindowImplementsHandover, Session!Spec

-----------------------------------------------------------------------------
(* Token counts.                                                           *)

Total(tr, ids) == FoldLeft(LAMBDA sum, i : sum + Tokens(tr[i]), 0, ids)

(* The running totals of a list of turns.                                  *)
Sums(p, tr, ids) ==
  /\ p \in [0..Len(ids) -> Nat]
  /\ p[0] = 0
  /\ \A k \in 1..Len(ids) : p[k] = p[k - 1] + Tokens(tr[ids[k]])
  /\ p[Len(ids)] = Total(tr, ids)

(* TotalTokens as a table of partial sums, for any list of turns of a      *)
(* transcript.                                                             *)
LEMMA TotalSums ==
  ASSUME NEW tr \in Seq(Nat), NEW ids \in Seq(Nat),
         \A k \in 1..Len(ids) : ids[k] \in 1..Len(tr)
  PROVE  \E p : Sums(p, tr, ids)
<1> DEFINE N == Len(ids)
           Cost(k) == Tokens(tr[ids[k]])
           step == [q \in Nat \X (1..N) |-> q[1] + Cost(q[2])]
           Eq(g) == g = [t \in SUBSET DOMAIN ids |->
                           IF t = {} THEN 0 ELSE g[t \ {Max(t)}] + Tokens(tr[ids[Max(t)]])]
           g == CHOOSE f : Eq(f)
<1>1. N \in Nat /\ DOMAIN ids = 1..N
  OBVIOUS
<1>2. \A k \in 1..N : Cost(k) \in Nat
  <2> TAKE k \in 1..N
  <2>1. tr[ids[k]] \in Nat
    OBVIOUS
  <2>2. QED
    BY <2>1 DEF Tokens
<1>3. Total(tr, ids) = g[DOMAIN ids]
  BY DEF Total, FoldLeft, MapThenFoldSet
<1> HIDE DEF N, g
<1>4. IsStep(step, Nat, N) /\ \A r \in Nat, k \in 1..N : step[<<r, k>>] = r + Cost(k)
  <2> HIDE DEF Cost
  <2>1. \A r \in Nat, k \in 1..N : r + Cost(k) \in Nat
    BY <1>2
  <2>2. QED
    BY <2>1 DEF IsStep
<1> HIDE DEF step
<1>5. Recurses(g, Nat, 0, N, step)
  <2>1. PICK f : f \in [SUBSET (1..N) -> Nat] /\ Recurses(f, Nat, 0, N, step)
    BY <1>1, <1>4, SubsetRecursion
  <2>2. \A t \in SUBSET (1..N) : t # {} => /\ Max(t) \in 1..N
                                           /\ t \ {Max(t)} \in SUBSET (1..N)
    BY <1>1, MaxOfInterval
  <2> DEFINE Table(q) == [t \in SUBSET (1..N) |->
                            IF t = {} THEN 0 ELSE q[t \ {Max(t)}] + Cost(Max(t))]
  <2>3. \A q : Eq(q) <=> q = Table(q)
    BY <1>1
  <2> HIDE DEF Eq, Cost
  <2>4. f = Table(f)
    BY <1>4, <2>1, <2>2 DEF Recurses
  <2>5. Eq(g)
    BY <2>3, <2>4 DEF g
  <2>6. g = Table(g)
    BY <2>3, <2>5
  <2>7. QED
    BY <1>4, <2>2, <2>6 DEF Recurses
<1>6. PICK h : IsTable(h, Nat, 0, N, step) /\ h[N] = g[1..N]
  <2> DEFINE R == Nat
             base == 0
  <2>1. base \in R /\ IsStep(step, R, N) /\ Recurses(g, R, base, N, step)
    BY <1>4, <1>5
  <2> HIDE DEF R, base
  <2>2. \E h : IsTable(h, R, base, N, step) /\ h[N] = g[1..N]
    BY <1>1, <2>1, FoldTable
  <2>3. QED
    BY <2>2 DEF R, base
<1>7. h \in [0..N -> Nat] /\ h[0] = 0 /\ h[N] = Total(tr, ids)
  BY <1>1, <1>3, <1>6 DEF IsTable
<1>8. ASSUME NEW k \in 1..N PROVE h[k] = h[k - 1] + Tokens(tr[ids[k]])
  <2>1. k - 1 \in 0..N
    BY <1>1
  <2>2. h[k] = h[k - 1] + Cost(k)
    <3> HIDE DEF Cost
    <3> QED
      BY <1>4, <1>6, <1>7, <2>1 DEF IsTable
  <2>3. QED
    BY <2>2
<1>9. QED
  BY <1>7, <1>8 DEF Sums, N

(* A list is as long as its prefix and its suffix together.                *)
LEMMA TotalSplits ==
  ASSUME NEW tr \in Seq(Nat), NEW w \in Seq(Nat),
         \A k \in 1..Len(w) : w[k] \in 1..Len(tr), NEW m \in 0..Len(w)
  PROVE  LET head == [k \in 1..m |-> w[k]]
             tail == [k \in 1..(Len(w) - m) |-> w[m + k]]
         IN  /\ Total(tr, head) \in Nat /\ Total(tr, tail) \in Nat
             /\ Total(tr, w) = Total(tr, head) + Total(tr, tail)
<1> DEFINE n == Len(w)
           head == [k \in 1..m |-> w[k]]
           tail == [k \in 1..(n - m) |-> w[m + k]]
<1>1. n \in Nat /\ m \in Nat /\ m <= n /\ n - m \in Nat
  OBVIOUS
<1>2. \A k \in 1..n : w[k] \in Nat
  OBVIOUS
<1>3. head \in Seq(Nat) /\ Len(head) = m /\ \A k \in 1..m : k \in 1..n /\ head[k] = w[k]
  BY <1>1, <1>2
<1>4. tail \in Seq(Nat) /\ Len(tail) = n - m
      /\ \A k \in 1..(n - m) : m + k \in 1..n /\ tail[k] = w[m + k]
  BY <1>1, <1>2
<1> HIDE DEF head, tail
<1>5. PICK p : Sums(p, tr, w)
  BY TotalSums
<1>6. PICK a : Sums(a, tr, head)
  BY <1>3, TotalSums
<1>7. PICK b : Sums(b, tr, tail)
  BY <1>4, TotalSums
<1>8. /\ p \in [0..n -> Nat] /\ p[0] = 0 /\ p[n] = Total(tr, w)
      /\ \A k \in 1..n : p[k] = p[k - 1] + Tokens(tr[w[k]])
  BY <1>5 DEF Sums
<1>9. /\ a \in [0..m -> Nat] /\ a[0] = 0 /\ a[m] = Total(tr, head)
      /\ \A k \in 1..m : a[k] = a[k - 1] + Tokens(tr[w[k]])
  BY <1>3, <1>6 DEF Sums
<1>10. /\ b \in [0..(n - m) -> Nat] /\ b[0] = 0 /\ b[n - m] = Total(tr, tail)
       /\ \A k \in 1..(n - m) : b[k] = b[k - 1] + Tokens(tr[w[m + k]])
  BY <1>4, <1>7 DEF Sums
<1> HIDE DEF n
<1>11. a[m] = p[m]
  <2> DEFINE S == {k \in 0..m : a[k] = p[k]}
  <2>1. 0 \in S
    BY <1>1, <1>8, <1>9
  <2>2. ASSUME NEW k \in 1..m, k - 1 \in S PROVE k \in S
    <3>1. k \in 1..n /\ k \in 0..m /\ a[k - 1] = p[k - 1]
      BY <1>1, <2>2
    <3>2. QED
      BY <1>8, <1>9, <3>1
  <2> HIDE DEF S
  <2>3. m \in S
    <3>1. \A k \in 0..m : k \in S
      BY <1>1, <2>1, <2>2, Induction
    <3>2. QED
      BY <1>1, <3>1
  <2>4. QED
    BY <2>3 DEF S
<1>12. p[n] = p[m] + b[n - m]
  <2> DEFINE S == {k \in 0..(n - m) : p[m + k] = p[m] + b[k]}
  <2>1. 0 \in S
    BY <1>1, <1>8, <1>10
  <2>2. ASSUME NEW k \in 1..(n - m), k - 1 \in S PROVE k \in S
    <3>1. /\ m + k \in 1..n /\ k \in 0..(n - m) /\ (m + k) - 1 = m + (k - 1)
          /\ m + (k - 1) \in 0..n /\ k - 1 \in 0..(n - m) /\ m \in 0..n
      BY <1>1
    <3>2. p[m + (k - 1)] = p[m] + b[k - 1]
      BY <2>2
    <3>3. p[m + k] = p[m + (k - 1)] + Tokens(tr[w[m + k]])
      BY <1>8, <3>1
    <3>4. b[k] = b[k - 1] + Tokens(tr[w[m + k]])
      BY <1>10
    <3>5. p[m] \in Nat /\ b[k - 1] \in Nat /\ p[m + k] \in Nat /\ b[k] \in Nat
      <4>1. m + k \in 0..n
        BY <1>1, <3>1
      <4>2. p[m] \in Nat /\ p[m + k] \in Nat
        BY <1>8, <3>1, <4>1
      <4>3. b[k - 1] \in Nat /\ b[k] \in Nat
        BY <1>10, <3>1
      <4>4. QED
        BY <4>2, <4>3
    <3> DEFINE c == Tokens(tr[w[m + k]])
    <3>6. c \in Int
      <4>1. w[m + k] \in 1..Len(tr)
        BY <3>1 DEF n
      <4>2. tr[w[m + k]] \in Nat
        BY <4>1
      <4>3. QED
        BY <4>2 DEF Tokens
    <3> HIDE DEF c
    <3>7. p[m + k] = p[m] + b[k]
      BY <3>2, <3>3, <3>4, <3>5, <3>6 DEF c
    <3>8. QED
      BY <3>1, <3>7
  <2> HIDE DEF S
  <2>3. n - m \in S
    <3>1. \A k \in 0..(n - m) : k \in S
      BY <1>1, <2>1, <2>2, Induction
    <3>2. QED
      BY <1>1, <3>1
  <2>4. m + (n - m) = n
    BY <1>1
  <2>5. QED
    BY <2>3, <2>4 DEF S
<1>13. a[m] \in Nat /\ b[n - m] \in Nat
  BY <1>1, <1>9, <1>10
<1>14. QED
  BY <1>8, <1>9, <1>10, <1>11, <1>12, <1>13 DEF head, tail, n

(* The estimate of two texts together exceeds the sum of their estimates   *)
(* by at most one.                                                         *)
LEMMA TokensOfConcat ==
  ASSUME NEW a \in Nat, NEW b \in Nat
  PROVE  /\ Tokens(a) \in Nat /\ Tokens(a + b) \in Nat
         /\ Tokens(a) <= Tokens(a + b)
         /\ Tokens(a + b) <= Tokens(a) + Tokens(b) + 1
BY DEF Tokens

(* What an eviction leaves is the tail of the window after the batch.      *)
LEMMA TailStays ==
  ASSUME WindowInv, UpdateCommitted
  PROVE  window' = [k \in 1..(Len(window) - Size) |-> window[Size + k]]
<1> DEFINE n == Len(window)
           m == Size
           tail == [k \in 1..(n - m) |-> window[m + k]]
<1>1. /\ window' \in Seq(Nat) /\ Increasing(window')
      /\ ToSet(window') = {window[k] : k \in (m + 1)..n}
      /\ m \in 1..(n - 2)
  BY EvictionTurns
<1>2. /\ n \in Nat /\ window \in Seq(Nat)
      /\ \A j, k \in 1..n : j < k => window[j] < window[k]
  BY DEF WindowInv, Increasing
<1> HIDE DEF m
<1>3. \A k \in 1..(n - m) : m + k \in 1..n /\ window[m + k] \in Nat
  <2> TAKE k \in 1..(n - m)
  <2>1. m + k \in 1..n
    BY <1>1, <1>2
  <2>2. QED
    BY <1>2, <2>1
<1>4. n - m \in Nat
  BY <1>1, <1>2
<1> HIDE DEF n
<1>5. tail \in Seq(Nat) /\ Len(tail) = n - m /\ DOMAIN tail = 1..(n - m)
      /\ \A k \in 1..(n - m) : tail[k] = window[m + k]
  BY <1>3, <1>4
<1> HIDE DEF tail
<1>6. Increasing(tail)
  <2> SUFFICES ASSUME NEW j \in 1..(n - m), NEW k \in 1..(n - m), j < k
               PROVE  tail[j] < tail[k]
    BY <1>5 DEF Increasing
  <2>1. m + j < m + k /\ m + j \in 1..n /\ m + k \in 1..n
    BY <1>1, <1>2, <1>3
  <2>2. QED
    BY <1>2, <1>5, <2>1
<1>7. ToSet(tail) = {window[k] : k \in (m + 1)..n}
  <2>1. ToSet(tail) = {window[m + k] : k \in 1..(n - m)}
    BY <1>5 DEF ToSet
  <2>2. \A k \in 1..(n - m) : m + k \in (m + 1)..n
    BY <1>1, <1>2
  <2>3. \A k \in (m + 1)..n : k - m \in 1..(n - m) /\ m + (k - m) = k
    BY <1>1, <1>2
  <2>4. QED
    BY <2>1, <2>2, <2>3
<1>8. window' = tail
  BY <1>1, <1>5, <1>6, <1>7, IncreasingDetermined
<1>9. QED
  BY <1>8 DEF tail, m, n

(* After an eviction that leaves more than the two turns that always stay, *)
(* the prompt fits the budget with whatever memory is rendered next, but   *)
(* for one token of rounding.                                              *)
THEOREM EvictionsMakeRoom == SessionSpec => EvictionMakesRoom
<1>1. ASSUME WindowInv, UpdateCommitted, Len(window') > 2
      PROVE  TotalTokens(window)' + PromptOverhead' <= MaxPromptTokens + 1
  <2> DEFINE n == Len(window)
             m == Size
             head == [k \in 1..m |-> window[k]]
             tail == [k \in 1..(n - m) |-> window[m + k]]
             all == Total(transcript, window)
             out == Total(transcript, head)
             left == Total(transcript, tail)
             over == Tokens(BaseChars + rendered)
  <2>1. /\ n \in Nat /\ n > 2 /\ m \in 1..(n - 2) /\ m \in 0..n /\ EvictionBatch = head
        /\ transcript \in Seq(Nat) /\ window \in Seq(Nat) /\ rendered \in Nat
        /\ \A k \in 1..n : window[k] \in 1..Len(transcript)
    <3>1. n > 2 /\ m \in 1..(n - 2) /\ EvictionBatch = head
      BY <1>1, EvictionTurns
    <3>2. n \in Nat
      BY <1>1 DEF WindowInv
    <3>3. m \in 0..n
      BY <3>1, <3>2
    <3>4. QED
      BY <1>1, <3>1, <3>2, <3>3 DEF WindowInv
  <2>2. window' = tail /\ UNCHANGED transcript
    BY <1>1, TailStays DEF UpdateCommitted
  <2>3. out \in Nat /\ left \in Nat /\ all = out + left
    <3> HIDE DEF m
    <3> QED
      BY <2>1, TotalSplits
  <2>4. m < n - 2
    <3>1. Len(tail) = n - m
      <4> HIDE DEF m, n
      <4>1. n - m \in Nat
        BY <2>1
      <4>2. QED
        BY <4>1
    <3>2. QED
      BY <1>1, <2>1, <2>2, <3>1
  <2>5. /\ TotalTokens(window) = all /\ TotalTokens(EvictionBatch) = out
        /\ TotalTokens(window)' = left
    <3>1. \A ids : TotalTokens(ids) = Total(transcript, ids)
      BY DEF TotalTokens, Total
    <3>2. TotalTokens(window)' = Total(transcript', window')
      BY DEF TotalTokens, Total, FoldLeft, MapThenFoldSet
    <3>3. EvictionBatch = head /\ window' = tail /\ transcript' = transcript
      BY <2>1, <2>2
    <3> HIDE DEF head, tail
    <3>4. QED
      BY <3>1, <3>2, <3>3
  <2>6. ReachesTarget(all + over - out)
    <3>1. ReachesTarget(TotalTokens(window) + PromptOverhead - TotalTokens(EvictionBatch))
      BY <1>1, <2>1, <2>4, BatchIsPrefix DEF KeepLast
    <3> HIDE DEF all, out, head
    <3>2. QED
      BY <2>5, <3>1 DEF PromptOverhead
  <2> HIDE DEF all, out, left, n, m, head, tail
  <2>7. /\ BaseChars \in Nat /\ MaxPromptTokens \in Nat /\ rendered' \in Nat
        /\ rendered' = 0 \/ Tokens(rendered') <= MaxPromptTokens \div 2
    <3>1. rendered' \in Renders(committed')
      BY <1>1 DEF UpdateCommitted
    <3>2. QED
      BY <3>1, SessionAssumption DEF Renders, SessionAssumption
  <2>8. Tokens(BaseChars) \in Nat /\ Tokens(BaseChars) <= over /\ over \in Nat
    BY <2>1, <2>7, TokensOfConcat
  <2> HIDE DEF over
  <2>9. 2 * (left + over) <= MaxPromptTokens
    BY <2>3, <2>6, <2>8 DEF ReachesTarget
  <2>10. left + Tokens(BaseChars) <= MaxPromptTokens \div 2
    BY <2>3, <2>7, <2>8, <2>9
  <2>11. Tokens(BaseChars + rendered') <= Tokens(BaseChars) + MaxPromptTokens \div 2 + 1
    <3>1. CASE rendered' = 0
      <4>1. Tokens(BaseChars + rendered') = Tokens(BaseChars)
        BY <2>7, <3>1
      <4>2. QED
        BY <2>7, <2>8, <4>1
    <3>2. CASE Tokens(rendered') <= MaxPromptTokens \div 2
      <4>1. /\ Tokens(BaseChars + rendered') <= Tokens(BaseChars) + Tokens(rendered') + 1
            /\ Tokens(rendered') \in Nat /\ Tokens(BaseChars + rendered') \in Nat
        BY <2>7, TokensOfConcat
      <4>2. QED
        BY <2>7, <2>8, <3>2, <4>1
    <3>3. QED
      BY <2>7, <3>1, <3>2
  <2>12. PromptOverhead' = Tokens(BaseChars + rendered')
    BY DEF PromptOverhead
  <2>13. Tokens(BaseChars + rendered') \in Nat
    BY <2>7, TokensOfConcat
  <2>14. left + Tokens(BaseChars + rendered') <= MaxPromptTokens + 1
    <3> DEFINE x == Tokens(BaseChars + rendered')
               y == Tokens(BaseChars)
    <3>1. x \in Nat /\ y \in Nat /\ left \in Nat /\ MaxPromptTokens \in Nat
          /\ x <= y + MaxPromptTokens \div 2 + 1 /\ left + y <= MaxPromptTokens \div 2
      BY <2>3, <2>7, <2>8, <2>10, <2>11, <2>13
    <3> HIDE DEF x, y
    <3>2. left + x <= MaxPromptTokens + 1
      BY <3>1
    <3>3. QED
      BY <3>2 DEF x
  <2>15. QED
    BY <2>5, <2>12, <2>14
<1>2. WindowInv /\ [SessionNext]_sessionVars =>
        [UpdateCommitted /\ Len(window') > 2
           => TotalTokens(window)' + PromptOverhead' <= MaxPromptTokens + 1]_sessionVars
  BY <1>1
<1>3. QED
  BY <1>2, WindowInvariant, PTL DEF SessionSpec, EvictionMakesRoom
=============================================================================
