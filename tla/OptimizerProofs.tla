-------------------------- MODULE OptimizerProofs --------------------------
(***************************************************************************)
(* Proofs about the optimizer, the router and the prompt cache, for any    *)
(* requests, limits, windows and likeness of prompts.                      *)
(***************************************************************************)
EXTENDS Optimizer, FunctionTheorems, FiniteSetTheorems, SequenceTheorems,
        WellFoundedInduction, TLAPS

(* Lemmas about data                                                       *)

\* A set of numbers has a least element.
LEMMA NatMinimum ==
  ASSUME NEW T \in SUBSET Nat, T # {}
  PROVE  \E m \in T : \A n \in T : m <= n
<1> DEFINE R == {p \in Nat \X Nat : p[1] < p[2]}
<1>1. IsWellFoundedOn(R, Nat)
  BY NatLessThanWellFounded DEF OpToRel
<1> HIDE DEF R
<1>2. PICK m \in T : \A n \in T : ~(<<n, m>> \in R)
  BY <1>1, WFMin
<1>3. ASSUME NEW n \in T, n < m PROVE FALSE
  BY <1>2, <1>3 DEF R
<1> QED
  BY <1>3

\* A sequence without repetition has as many elements as slots.
LEMMA LenIsCardinality ==
  ASSUME NEW S, NEW s \in Seq(S), IsInjective(s)
  PROVE  IsFiniteSet(Range(s)) /\ Cardinality(Range(s)) = Len(s)
<1>1. Len(s) \in Nat /\ s \in [1..Len(s) -> S] /\ DOMAIN s = 1..Len(s)
  BY LenProperties
<1>2. s \in Bijection(1..Len(s), Range(s))
  BY <1>1 DEF Bijection, Injection, Surjection, IsInjective, Range
<1>3. ExistsBijection(1..Len(s), Range(s))
  BY <1>2 DEF ExistsBijection
<1>4. IsFiniteSet(1..Len(s)) /\ Cardinality(1..Len(s)) = Len(s)
  BY <1>1, FS_Interval
<1> QED
  BY <1>3, <1>4, FS_Bijection

\* Appending an element that is not there adds it to the range and keeps the
\* sequence free of repetition.
LEMMA AppendFresh ==
  ASSUME NEW S, NEW s \in Seq(S), IsInjective(s), NEW e \in S, e \notin Range(s)
  PROVE  /\ IsInjective(Append(s, e))
         /\ Range(Append(s, e)) = Range(s) \cup {e}
<1>1. /\ Len(Append(s, e)) = Len(s) + 1
      /\ \A k \in 1..Len(s) : Append(s, e)[k] = s[k]
      /\ Append(s, e)[Len(s) + 1] = e
      /\ DOMAIN Append(s, e) = 1..(Len(s) + 1)
  BY AppendProperties, LenProperties
<1>2. Len(s) \in Nat /\ DOMAIN s = 1..Len(s)
  BY LenProperties
<1>3. \A k \in 1..Len(s) : s[k] \in Range(s)
  BY <1>2 DEF Range
<1> QED
  BY <1>1, <1>2, <1>3 DEF IsInjective, Range

-----------------------------------------------------------------------------
(* The window of the detector                                              *)

\* The detector's list is the record of its requests without a beginning, and
\* what is missing was out of the window already.
RecentIsSuffix ==
  \E k \in 0..Len(arrivals) :
    /\ Len(recent) = Len(arrivals) - k
    /\ \A i \in 1..Len(recent) : recent[i] = arrivals[i + k]
    /\ \A i \in 1..k : arrivals[i] <= now - RequestCountWindow

\* Trimming drops a beginning, and drops nothing that is in the window.
LEMMA TrimmedIsSuffix ==
  ASSUME NEW s \in Seq(Nat), NEW t \in Nat
  PROVE  \E d \in 0..Len(s) :
           /\ Trimmed(s, t) \in Seq(Nat)
           /\ Len(Trimmed(s, t)) = Len(s) - d
           /\ \A i \in 1..(Len(s) - d) : Trimmed(s, t)[i] = s[i + d]
           /\ \A i \in 1..d : s[i] <= t - RequestCountWindow
<1>0. Len(s) \in Nat /\ \A i \in 1..Len(s) : s[i] \in Nat
  BY LenProperties, ElementOfSeq
<1>w. RequestCountWindow \in Nat
  BY RouterAssumption
<1>1. CASE InWindow(s, t) = {}
  BY <1>0, <1>1 DEF Trimmed
<1>2. CASE InWindow(s, t) # {}
  <2> DEFINE first == CHOOSE i \in InWindow(s, t) : \A j \in InWindow(s, t) : i <= j
  <2>1. InWindow(s, t) \in SUBSET Nat
    BY <1>0 DEF InWindow
  <2>2. \E i \in InWindow(s, t) : \A j \in InWindow(s, t) : i <= j
    BY <2>1, <1>2, NatMinimum
  <2>3. first \in InWindow(s, t) /\ \A j \in InWindow(s, t) : first <= j
    BY <2>2
  <2>4. Trimmed(s, t) = SubSeq(s, first, Len(s))
    BY <1>2 DEF Trimmed
  <2> HIDE DEF first
  <2>5. first \in 1..Len(s)
    BY <2>3 DEF InWindow
  <2>6. /\ SubSeq(s, first, Len(s)) \in Seq(Nat)
        /\ Len(SubSeq(s, first, Len(s))) = Len(s) - first + 1
        /\ \A i \in 1..(Len(s) - first + 1) :
             SubSeq(s, first, Len(s))[i] = s[first + i - 1]
    BY <2>5, <1>0, SubSeqProperties
  <2>7. \A i \in 1..(first - 1) : s[i] <= t - RequestCountWindow
    <3> SUFFICES ASSUME NEW i \in 1..(first - 1) PROVE s[i] <= t - RequestCountWindow
      OBVIOUS
    <3>1. i \in 1..Len(s) /\ i \notin InWindow(s, t)
      BY <2>3, <2>5, <1>0
    <3> QED
      BY <3>1, <1>0, <1>w DEF InWindow
  <2>8. first - 1 \in 0..Len(s) /\ Len(s) - (first - 1) = Len(s) - first + 1
    BY <2>5, <1>0
  <2>9. \A i \in 1..(Len(s) - (first - 1)) : Trimmed(s, t)[i] = s[i + (first - 1)]
    BY <2>4, <2>5, <2>6, <2>8, <1>0
  <2> QED
    BY <2>4, <2>6, <2>7, <2>8, <2>9
<1> QED
  BY <1>1, <1>2

\* One more request is recorded in both.
LEMMA SuffixRecorded ==
  ASSUME RouterTypeOK, RecentIsSuffix, now' = now,
         recent' = Recorded(recent, now), arrivals' = Append(arrivals, now)
  PROVE  recent' \in Seq(Nat) /\ arrivals' \in Seq(Nat) /\ RecentIsSuffix'
<1>t. /\ recent \in Seq(Nat) /\ arrivals \in Seq(Nat) /\ now \in Nat
      /\ Len(recent) \in Nat /\ Len(arrivals) \in Nat
  BY LenProperties DEF RouterTypeOK
<1>w. RequestCountWindow \in Nat
  BY RouterAssumption
<1>1. PICK k \in 0..Len(arrivals) :
        /\ Len(recent) = Len(arrivals) - k
        /\ \A i \in 1..Len(recent) : recent[i] = arrivals[i + k]
        /\ \A i \in 1..k : arrivals[i] <= now - RequestCountWindow
  BY DEF RecentIsSuffix
<1>2. PICK d \in 0..Len(recent) :
        /\ Trimmed(recent, now) \in Seq(Nat)
        /\ Len(Trimmed(recent, now)) = Len(recent) - d
        /\ \A i \in 1..(Len(recent) - d) : Trimmed(recent, now)[i] = recent[i + d]
        /\ \A i \in 1..d : recent[i] <= now - RequestCountWindow
  BY <1>t, TrimmedIsSuffix
<1>3. /\ recent' \in Seq(Nat)
      /\ Len(recent') = Len(recent) - d + 1
      /\ \A i \in 1..(Len(recent) - d) : recent'[i] = recent[i + d]
      /\ recent'[Len(recent) - d + 1] = now
  BY <1>t, <1>2, AppendProperties DEF Recorded
<1>4. /\ arrivals' \in Seq(Nat)
      /\ Len(arrivals') = Len(arrivals) + 1
      /\ \A i \in 1..Len(arrivals) : arrivals'[i] = arrivals[i]
      /\ arrivals'[Len(arrivals) + 1] = now
  BY <1>t, AppendProperties
<1>5. k + d \in 0..Len(arrivals') /\ Len(recent') = Len(arrivals') - (k + d)
  BY <1>t, <1>1, <1>2, <1>3, <1>4
<1>6. ASSUME NEW i \in 1..Len(recent') PROVE recent'[i] = arrivals'[i + (k + d)]
  <2>1. CASE i \in 1..(Len(recent) - d)
    <3>0. recent'[i] = recent[i + d]
      BY <2>1, <1>3
    <3>1. recent'[i] = recent[i + d] /\ i + d \in 1..Len(recent)
      BY <3>0, <2>1, <1>t
    <3>2. recent[i + d] = arrivals[(i + d) + k] /\ (i + d) + k \in 1..Len(arrivals)
      BY <3>1, <1>1, <1>t
    <3>3. (i + d) + k = i + (k + d)
      BY <1>1, <1>2
    <3> QED
      BY <3>1, <3>2, <3>3, <1>4
  <2>2. CASE i = Len(recent) - d + 1
    <3>1. i + (k + d) = Len(arrivals) + 1
      BY <2>2, <1>1, <1>2, <1>t
    <3> QED
      BY <2>2, <3>1, <1>3, <1>4
  <2>3. i \in 1..(Len(recent) - d + 1)
    BY <1>3
  <2>4. i \in 1..(Len(recent) - d) \/ i = Len(recent) - d + 1
    <3>1. d \in Nat
      BY <1>2, <1>t
    <3> DEFINE n == Len(recent)
    <3>2. n \in Nat /\ i \in 1..(n - d + 1)
      BY <2>3, <1>t
    <3> HIDE DEF n
    <3>3. i \in 1..(n - d) \/ i = n - d + 1
      BY <3>1, <3>2
    <3> QED
      BY <3>3 DEF n
  <2> QED
    BY <2>1, <2>2, <2>4
<1>7. ASSUME NEW i \in 1..(k + d) PROVE arrivals'[i] <= now - RequestCountWindow
  <2>1. i \in 1..Len(arrivals) /\ arrivals'[i] = arrivals[i]
    BY <1>1, <1>2, <1>4, <1>t
  <2>2. CASE i \in 1..k
    BY <2>1, <2>2, <1>1
  <2>3. CASE i \in (k + 1)..(k + d)
    <3>1. i - k \in 1..d /\ i - k \in 1..Len(recent) /\ (i - k) + k = i
      BY <2>3, <1>1, <1>2, <1>t
    <3> QED
      BY <2>1, <3>1, <1>1, <1>2
  <2> QED
    BY <2>2, <2>3, <1>1, <1>2
<1> QED
  BY <1>3, <1>4, <1>5, <1>6, <1>7 DEF RecentIsSuffix

\* The suffix counts as the whole record does, from now on.
LEMMA SuffixCounts ==
  ASSUME RouterTypeOK, RecentIsSuffix
  PROVE  VolumeExact
<1>t. /\ recent \in Seq(Nat) /\ arrivals \in Seq(Nat) /\ now \in Nat
      /\ Len(recent) \in Nat /\ Len(arrivals) \in Nat
      /\ \A i \in 1..Len(recent) : recent[i] \in Nat
      /\ \A i \in 1..Len(arrivals) : arrivals[i] \in Nat
  BY LenProperties, ElementOfSeq DEF RouterTypeOK
<1>w. RequestCountWindow \in Nat
  BY RouterAssumption
<1> SUFFICES ASSUME NEW t \in now..(now + RequestCountWindow)
             PROVE  Cardinality(InWindow(recent, t)) = Cardinality(InWindow(arrivals, t))
  BY DEF VolumeExact
<1>1. PICK k \in 0..Len(arrivals) :
        /\ Len(recent) = Len(arrivals) - k
        /\ \A i \in 1..Len(recent) : recent[i] = arrivals[i + k]
        /\ \A i \in 1..k : arrivals[i] <= now - RequestCountWindow
  BY DEF RecentIsSuffix
<1> DEFINE A == InWindow(recent, t)
           B == InWindow(arrivals, t)
           f == [i \in A |-> i + k]
<1>2. ASSUME NEW i \in A PROVE i + k \in B
  BY <1>t, <1>1 DEF InWindow
<1>3. ASSUME NEW j \in B PROVE \E i \in A : i + k = j
  <2>1. j \in 1..Len(arrivals) /\ arrivals[j] > t - RequestCountWindow
    BY DEF InWindow
  <2>2. ~(j \in 1..k)
    BY <2>1, <1>1, <1>t, <1>w
  <2>3. j - k \in 1..Len(recent) /\ (j - k) + k = j
    BY <2>1, <2>2, <1>1, <1>t
  <2>4. recent[j - k] = arrivals[j]
    BY <2>3, <1>1
  <2> QED
    BY <2>1, <2>3, <2>4 DEF InWindow
<1>4. A \subseteq 1..Len(recent) /\ IsFiniteSet(A)
  <2>1. A \subseteq 1..Len(recent)
    BY DEF InWindow
  <2>2. IsFiniteSet(1..Len(recent))
    BY <1>t, FS_Interval
  <2> QED
    BY <2>1, <2>2, FS_Subset
<1>5. f \in Bijection(A, B)
  <2> HIDE DEF A, B
  <2>1. f \in [A -> B]
    BY <1>2
  <2>2. \A i, j \in A : f[i] = f[j] => i = j
    BY <1>4
  <2>3. \A j \in B : \E i \in A : f[i] = j
    BY <1>3
  <2> QED
    BY <2>1, <2>2, <2>3, Fun_IsBij
<1>6. ExistsBijection(A, B)
  BY <1>5 DEF ExistsBijection
<1> QED
  BY <1>4, <1>6, FS_Bijection

-----------------------------------------------------------------------------
(* The prompt cache                                                        *)

\* A cache that holds anything has an oldest entry.
LEMMA OldestExists ==
  ASSUME NEW f, DOMAIN f # {}, \A h \in DOMAIN f : f[h].at \in Nat
  PROVE  Oldest(f) # {}
<1>1. PICK t \in {f[h].at : h \in DOMAIN f} : \A u \in {f[h].at : h \in DOMAIN f} : t <= u
  BY NatMinimum
<1>2. PICK h \in DOMAIN f : f[h].at = t
  OBVIOUS
<1> QED
  BY <1>1, <1>2 DEF Oldest

\* The prompts, their number and the emptiness of the other map: what storing
\* a prompt and clearing preserve when responses are never stored.
PromptsOnly ==
  owner # "cache" => /\ DOMAIN responses = {}
                     /\ Cardinality(DOMAIN prompts) <= MaxCacheSize

\* Whatever is stored, both maps keep their types: an eviction only removes.
LEMMA EvictTypes ==
  ASSUME NEW f, NEW g, EvictIfNeeded(f, g),
         DOMAIN f \subseteq Prompt, f \in [DOMAIN f -> Entry],
         DOMAIN g \subseteq Prompt, g \in [DOMAIN g -> Entry]
  PROVE  CacheTypeOK'
<1>1. CASE prompts' = f /\ responses' = g
  BY <1>1 DEF CacheTypeOK
<1>2. CASE \E h \in Victims(f, g) : prompts' = Without(f, h) /\ responses' = Without(g, h)
  <2>1. PICK h \in Victims(f, g) : prompts' = Without(f, h) /\ responses' = Without(g, h)
    BY <1>2
  <2>2. /\ DOMAIN prompts' = DOMAIN f \ {h} /\ \A k \in DOMAIN prompts' : prompts'[k] = f[k]
        /\ DOMAIN responses' = DOMAIN g \ {h} /\ \A k \in DOMAIN responses' : responses'[k] = g[k]
    BY <2>1 DEF Without
  <2>3. prompts' = [k \in DOMAIN prompts' |-> prompts'[k]]
        /\ responses' = [k \in DOMAIN responses' |-> responses'[k]]
    BY <2>1 DEF Without
  <2> QED
    BY <2>2, <2>3 DEF CacheTypeOK
<1> QED
  BY <1>1, <1>2 DEF EvictIfNeeded

LEMMA WithTypes ==
  ASSUME NEW f, NEW h \in Prompt, NEW e \in Entry,
         DOMAIN f \subseteq Prompt, f \in [DOMAIN f -> Entry]
  PROVE  /\ DOMAIN With(f, h, e) = DOMAIN f \cup {h}
         /\ With(f, h, e) \in [DOMAIN f \cup {h} -> Entry]
BY DEF With

\* Where only prompts are kept, storing one more leaves no more than the limit:
\* an eviction finds an oldest prompt, and removes it.
LEMMA PromptStored ==
  ASSUME CacheTypeOK, PromptsOnly, owner # "cache", owner' = owner, now \in Nat,
         NEW p \in Prompt, NEW m \in Model, CachePrompt(p, m, now)
  PROVE  PromptsOnly'
<1> DEFINE f == With(prompts, p, [model |-> m, at |-> now])
<1>1. /\ DOMAIN f = DOMAIN prompts \cup {p}
      /\ f \in [DOMAIN prompts \cup {p} -> Entry]
  BY WithTypes DEF CacheTypeOK, Entry
<1>2. IsFiniteSet(DOMAIN prompts) /\ Cardinality(DOMAIN prompts) \in Nat
  BY CacheAssumption, FS_Subset, FS_CardinalityType DEF CacheTypeOK
<1>3. /\ IsFiniteSet(DOMAIN f) /\ Cardinality(DOMAIN f) \in Nat
      /\ Cardinality(DOMAIN f) <= Cardinality(DOMAIN prompts) + 1
  BY <1>1, <1>2, FS_AddElement, FS_CardinalityType
<1>4. DOMAIN responses = {} /\ Cardinality(DOMAIN prompts) <= MaxCacheSize
  BY DEF PromptsOnly
<1>5. Size(f, responses) = Cardinality(DOMAIN f)
  BY <1>3, <1>4, FS_EmptySet DEF Size
<1>6. Victims(f, responses) = Oldest(f)
  BY <1>4 DEF Victims, Oldest
<1>7. EvictIfNeeded(f, responses)
  BY DEF CachePrompt
<1>8. MaxCacheSize \in Nat
  BY CacheAssumption
<1> HIDE DEF f
<1>9. CASE Size(f, responses) > MaxCacheSize
  <2>1. Oldest(f) # {}
    <3>1. \A h \in DOMAIN f : f[h].at \in Nat
      BY <1>1 DEF Entry
    <3>2. DOMAIN f # {}
      BY <1>1
    <3> QED
      BY <3>1, <3>2, OldestExists
  <2>2. PICK h \in Oldest(f) : prompts' = Without(f, h) /\ responses' = Without(responses, h)
    BY <2>1, <1>6, <1>7, <1>9 DEF EvictIfNeeded
  <2>3. DOMAIN prompts' = DOMAIN f \ {h} /\ DOMAIN responses' = {} /\ h \in DOMAIN f
    BY <2>2, <1>4 DEF Without, Oldest
  <2>4. Cardinality(DOMAIN prompts') = Cardinality(DOMAIN f) - 1
    BY <2>3, <1>3, FS_RemoveElement
  <2>5. Cardinality(DOMAIN prompts') <= MaxCacheSize
    BY <2>4, <1>2, <1>3, <1>4, <1>8
  <2> QED
    BY <2>3, <2>5 DEF PromptsOnly
<1>10. CASE ~(Size(f, responses) > MaxCacheSize)
  <2>1. prompts' = f /\ responses' = responses
    BY <1>7, <1>10 DEF EvictIfNeeded
  <2>2. Cardinality(DOMAIN f) <= MaxCacheSize
    BY <1>10, <1>3, <1>5, <1>8
  <2> QED
    BY <2>1, <2>2, <1>4 DEF PromptsOnly
<1> QED
  BY <1>9, <1>10

\* What is stored next to responses keeps its types as well.
LEMMA StoreTypes ==
  ASSUME CacheTypeOK, now \in Nat, NEW p \in Prompt, NEW m \in Model,
         CachePrompt(p, m, now) \/ CacheResponse(p, m, now)
  PROVE  CacheTypeOK'
<1> DEFINE e == [model |-> m, at |-> now]
<1>1. e \in Entry
  BY DEF Entry
<1>2. CASE CachePrompt(p, m, now)
  <2>1. /\ DOMAIN With(prompts, p, e) = DOMAIN prompts \cup {p}
        /\ With(prompts, p, e) \in [DOMAIN prompts \cup {p} -> Entry]
    BY <1>1, WithTypes DEF CacheTypeOK
  <2>2. EvictIfNeeded(With(prompts, p, e), responses)
    BY <1>2 DEF CachePrompt
  <2> QED
    BY <2>1, <2>2, EvictTypes DEF CacheTypeOK
<1>3. CASE CacheResponse(p, m, now)
  <2>1. /\ DOMAIN With(responses, p, e) = DOMAIN responses \cup {p}
        /\ With(responses, p, e) \in [DOMAIN responses \cup {p} -> Entry]
    BY <1>1, WithTypes DEF CacheTypeOK
  <2>2. EvictIfNeeded(prompts, With(responses, p, e))
    BY <1>3 DEF CacheResponse
  <2> QED
    BY <2>1, <2>2, EvictTypes DEF CacheTypeOK
<1> QED
  BY <1>2, <1>3

\* Clearing what is expired removes, and nothing else.
LEMMA ClearedCache ==
  ASSUME CacheTypeOK, PromptsOnly, owner' = owner, ClearExpired(now)
  PROVE  CacheTypeOK' /\ PromptsOnly'
<1>1. /\ DOMAIN prompts' \subseteq DOMAIN prompts
      /\ prompts' = [h \in DOMAIN prompts' |-> prompts[h]]
      /\ DOMAIN responses' \subseteq DOMAIN responses
      /\ responses' = [h \in DOMAIN responses' |-> responses[h]]
  BY DEF ClearExpired
<1>2. CacheTypeOK'
  BY <1>1 DEF CacheTypeOK
<1>3. /\ IsFiniteSet(DOMAIN prompts) /\ Cardinality(DOMAIN prompts) \in Nat
      /\ Cardinality(DOMAIN prompts') \in Nat
      /\ Cardinality(DOMAIN prompts') <= Cardinality(DOMAIN prompts)
  BY <1>1, CacheAssumption, FS_Subset, FS_CardinalityType DEF CacheTypeOK
<1>4. MaxCacheSize \in Nat
  BY CacheAssumption
<1>5. PromptsOnly'
  <2> SUFFICES ASSUME owner # "cache"
               PROVE  /\ DOMAIN responses' = {}
                      /\ Cardinality(DOMAIN prompts') <= MaxCacheSize
    BY DEF PromptsOnly
  <2>1. DOMAIN responses = {} /\ Cardinality(DOMAIN prompts) <= MaxCacheSize
    BY DEF PromptsOnly
  <2>2. DOMAIN responses' = {}
    BY <2>1, <1>1
  <2>3. Cardinality(DOMAIN prompts') <= MaxCacheSize
    BY <2>1, <1>3, <1>4
  <2> QED
    BY <2>2, <2>3
<1> QED
  BY <1>2, <1>5

\* The suggestions, whatever the cache holds: the age asked afterwards and the
\* higher threshold leave nothing a lookup would not find.
LEMMA SuggestionsSound == CacheTypeOK => SuggestionsAreLive
<1> SUFFICES ASSUME CacheTypeOK, NEW p \in Prompt, NEW m \in Model
             PROVE  /\ Usable(p, m, now) \subseteq Similar(p, m, 85, now)
                    /\ \A h \in Similar(p, m, 85, now) : Live(prompts[h], now)
  BY DEF SuggestionsAreLive
<1>1. \A h \in Similar(p, m, 85, now) : Live(prompts[h], now)
  BY DEF Similar
<1>2. ASSUME NEW h \in Usable(p, m, now) PROVE h \in Similar(p, m, 85, now)
  <2> DEFINE live == {k \in DOMAIN prompts \cap {p} :
                        prompts[k].model = m /\ Live(prompts[k], now)}
             same == {k \in DOMAIN prompts \cap {p} : prompts[k].model = m}
  <2>1. h \in SimilarLocked(p, m, 90) /\ Live(prompts[h], now)
    BY DEF Usable
  <2>2. CASE same # {}
    <3>1. h \in same
      BY <2>1, <2>2 DEF SimilarLocked
    <3>2. h \in live
      BY <2>1, <3>1
    <3> QED
      BY <3>2 DEF Similar
  <2>3. CASE same = {}
    <3>1. h \in DOMAIN prompts /\ prompts[h].model = m /\ Likeness[<<h, p>>] >= 90
      BY <2>1, <2>3 DEF SimilarLocked
    <3>2. Likeness[<<h, p>>] \in 0..100
      BY <3>1, CacheAssumption DEF CacheTypeOK
    <3>3. Likeness[<<h, p>>] >= 85
      BY <3>1, <3>2
    <3>4. live = {}
      BY <2>3
    <3> QED
      BY <2>1, <3>1, <3>3, <3>4 DEF Similar
  <2> QED
    BY <2>2, <2>3
<1> QED
  BY <1>1, <1>2
-----------------------------------------------------------------------------
(* The router's queue                                                      *)

\* The queue holds the batched requests that were not flushed, each once.
QueueHoldsBatched ==
  /\ IsInjective(queue)
  /\ \A r \in Request : r \in Range(queue) <=> outcome[r] \in {"auto", "always"}

\* The inductive invariant of the router's part.
RouterInv ==
  /\ RouterTypeOK
  /\ RecentIsSuffix
  /\ QueueHoldsBatched
  /\ AutoWithinLimit

\* Everything of the router that a decision about r may change, and how: r has
\* its outcome, and is queued when that is a batch.
Decided(r, o) ==
  /\ outcome' = [outcome EXCEPT ![r] = o]
  /\ queue' = IF o \in {"auto", "always"} THEN Append(queue, r) ELSE queue
  /\ o = "auto" => Len(queue) < MaxQueueSize
  /\ UNCHANGED <<strategy, minSavingsPercent, useDetector, detectorConfidence, now>>

Decisions == {"auto", "always", "direct", "switched", "failed"}

\* A routing decision is one of five, and the detector records the request or
\* is off.
LEMMA RouteIsDecision ==
  ASSUME RouterInv, NEW r \in Request, NEW q, MakeRoutingDecision(r, q), now' = now
  PROVE  /\ \E o \in Decisions : Decided(r, o)
         /\ recent' \in Seq(Nat) /\ arrivals' \in Seq(Nat) /\ RecentIsSuffix'
<1>1. CASE q.model \notin Priced
  <2>1. Decided(r, "failed") /\ recent' = recent /\ arrivals' = arrivals
    BY <1>1 DEF MakeRoutingDecision, Decided
  <2> QED
    BY <2>1 DEF Decisions, RouterInv, RouterTypeOK, RecentIsSuffix
<1>2. CASE q.model \in Priced
  <2> DEFINE seen == IF useDetector THEN Recorded(recent, now) ELSE recent
             route == Route(q, Cardinality(InWindow(seen, now)))
  <2>1. /\ recent' = seen
        /\ arrivals' = IF useDetector THEN Append(arrivals, now) ELSE arrivals
        /\ outcome' = [outcome EXCEPT ![r] = route]
        /\ queue' = IF route \in {"auto", "always"} THEN Append(queue, r) ELSE queue
        /\ UNCHANGED <<strategy, minSavingsPercent, useDetector, detectorConfidence>>
    BY <1>2 DEF MakeRoutingDecision
  <2>2. route \in Decisions /\ (route = "auto" => Len(queue) < MaxQueueSize)
    BY DEF Route, Decisions, AutoBatches, Strategies
  <2> HIDE DEF route
  <2>3. Decided(r, route)
    BY <2>1, <2>2 DEF Decided
  <2>4. recent' \in Seq(Nat) /\ arrivals' \in Seq(Nat) /\ RecentIsSuffix'
    <3>1. CASE useDetector
      BY <2>1, <3>1, SuffixRecorded DEF RouterInv
    <3>2. CASE ~useDetector
      BY <2>1, <3>2 DEF RouterInv, RouterTypeOK, RecentIsSuffix
    <3> QED
      BY <3>1, <3>2
  <2> QED
    BY <2>2, <2>3, <2>4
<1> QED
  BY <1>1, <1>2

\* What a decision, or a hit of the cache, leaves of the queue.
LEMMA DecidedQueue ==
  ASSUME RouterInv, NEW r \in Request, outcome[r] = "new",
         NEW o \in Decisions \cup {"hit"}, Decided(r, o)
  PROVE  /\ queue' \in Seq(Request) /\ outcome' \in [Request -> Outcomes]
         /\ Range(queue') = IF o \in {"auto", "always"} THEN Range(queue) \cup {r}
                            ELSE Range(queue)
         /\ QueueHoldsBatched' /\ AutoWithinLimit'
<1>0. /\ queue \in Seq(Request) /\ Len(queue) \in Nat
      /\ outcome \in [Request -> Outcomes]
      /\ \A i \in 1..Len(queue) : queue[i] \in Range(queue) /\ queue[i] \in Request
      /\ r \notin Range(queue) /\ IsInjective(queue)
  BY LenProperties, ElementOfSeq DEF RouterInv, RouterTypeOK, QueueHoldsBatched, Range
<1>1. outcome' \in [Request -> Outcomes]
  BY <1>0 DEF Decided, Decisions, Outcomes
<1>2. \A x \in Request : outcome'[x] = IF x = r THEN o ELSE outcome[x]
  BY <1>0 DEF Decided
<1>m. MaxQueueSize \in Nat
  BY RouterAssumption
<1>3. CASE o \in {"auto", "always"}
  <2>1. queue' = Append(queue, r)
    BY <1>3 DEF Decided
  <2>2. /\ queue' \in Seq(Request) /\ Len(queue') = Len(queue) + 1
        /\ \A i \in 1..Len(queue) : queue'[i] = queue[i]
        /\ queue'[Len(queue) + 1] = r
    BY <2>1, <1>0, AppendProperties
  <2>3. IsInjective(queue') /\ Range(queue') = Range(queue) \cup {r}
    BY <2>1, <1>0, AppendFresh
  <2>4. QueueHoldsBatched'
    BY <2>3, <1>2, <1>3 DEF RouterInv, QueueHoldsBatched
  <2>5. AutoWithinLimit'
    <3> SUFFICES ASSUME NEW i \in 1..Len(queue')
                 PROVE  IF i > MaxQueueSize THEN outcome'[queue'[i]] = "always"
                        ELSE outcome'[queue'[i]] \in {"auto", "always"}
      BY DEF AutoWithinLimit
    <3>1. CASE i \in 1..Len(queue)
      <4>1. queue'[i] = queue[i] /\ queue[i] # r /\ queue[i] \in Request
        BY <3>1, <2>2, <1>0
      <4>2. outcome'[queue'[i]] = outcome[queue[i]]
        BY <4>1, <1>2
      <4> QED
        BY <4>2, <3>1 DEF RouterInv, AutoWithinLimit
    <3>2. CASE i = Len(queue) + 1
      <4>1. outcome'[queue'[i]] = o
        BY <3>2, <2>2, <1>2
      <4>2. o = "auto" => i <= MaxQueueSize
        BY <3>2, <1>0, <1>m DEF Decided
      <4> QED
        BY <4>1, <4>2, <1>3, <1>m, <3>2, <1>0
    <3>3. i \in 1..(Len(queue) + 1)
      BY <2>2
    <3>4. i \in 1..Len(queue) \/ i = Len(queue) + 1
      BY <3>3, <1>0
    <3> QED
      BY <3>1, <3>2, <3>4
  <2> QED
    BY <1>1, <1>3, <2>2, <2>3, <2>4, <2>5
<1>4. CASE o \notin {"auto", "always"}
  <2>1. queue' = queue
    BY <1>4 DEF Decided
  <2>2. QueueHoldsBatched'
    BY <2>1, <1>0, <1>2, <1>4 DEF RouterInv, QueueHoldsBatched
  <2>3. \A i \in 1..Len(queue) : outcome'[queue'[i]] = outcome[queue[i]]
    BY <2>1, <1>0, <1>2
  <2>4. AutoWithinLimit'
    BY <2>1, <2>3 DEF RouterInv, AutoWithinLimit
  <2> QED
    BY <1>0, <1>1, <1>4, <2>1, <2>2, <2>4
<1> QED
  BY <1>3, <1>4

\* A flush empties the queue and marks exactly what was in it.
LEMMA FlushedQueue ==
  ASSUME RouterInv, FlushQueue, now' = now
  PROVE  RouterInv'
<1>1. /\ queue' = <<>> /\ recent' = recent /\ arrivals' = arrivals
      /\ \A r \in Request : outcome'[r] = IF r \in Range(queue) THEN "flushed" ELSE outcome[r]
      /\ outcome' = [r \in Request |-> outcome'[r]]
      /\ UNCHANGED <<strategy, minSavingsPercent, useDetector, detectorConfidence>>
  BY DEF FlushQueue
<1>2. <<>> \in Seq(Request) /\ Len(<<>>) = 0 /\ Range(<<>>) = {} /\ IsInjective(<<>>)
  BY EmptySeq DEF Range, IsInjective
<1>3. RouterTypeOK'
  <2>1. \A r \in Request : outcome'[r] \in Outcomes
    BY <1>1 DEF RouterInv, RouterTypeOK, Outcomes
  <2>2. outcome' \in [Request -> Outcomes]
    BY <1>1, <2>1
  <2> QED
    BY <1>1, <1>2, <2>2 DEF RouterInv, RouterTypeOK
<1>4. RecentIsSuffix'
  BY <1>1 DEF RouterInv, RecentIsSuffix
<1>5. QueueHoldsBatched'
  BY <1>1, <1>2 DEF RouterInv, QueueHoldsBatched
<1>6. AutoWithinLimit'
  BY <1>1, <1>2 DEF AutoWithinLimit
<1> QED
  BY <1>3, <1>4, <1>5, <1>6 DEF RouterInv

\* The settings may change at any time: what is queued stays as it was queued.
LEMMA ConfiguredRouter ==
  ASSUME RouterInv, Configure
  PROVE  RouterInv'
<1>1. /\ UNCHANGED <<queue, recent, outcome, arrivals, now>>
      /\ strategy' \in Strategies /\ minSavingsPercent' \in Int
      /\ useDetector' \in BOOLEAN /\ detectorConfidence' \in 0..100
  <2>0. /\ strategy \in Strategies /\ minSavingsPercent \in Int
        /\ useDetector \in BOOLEAN /\ detectorConfidence \in 0..100
    BY DEF RouterInv, RouterTypeOK
  <2> QED
    BY <2>0, RouterAssumption
    DEF Configure, SetStrategy, SetMinSavingsPercent, SetDetectorConfidence, EnableDetector
<1> QED
  BY <1>1 DEF RouterInv, RouterTypeOK, RecentIsSuffix, QueueHoldsBatched, AutoWithinLimit
-----------------------------------------------------------------------------
(* The counters                                                            *)

\* A request that gets its outcome is one more that is not new, and no flush.
LEMMA OutcomeCounts ==
  ASSUME RouterTypeOK, NEW r \in Request, outcome[r] = "new",
         NEW o \in Decisions \cup {"hit"}, Decided(r, o)
  PROVE  /\ Cardinality({x \in Request : outcome'[x] # "new"})
              = Cardinality({x \in Request : outcome[x] # "new"}) + 1
         /\ {x \in Request : outcome'[x] = "flushed"} = {x \in Request : outcome[x] = "flushed"}
<1> DEFINE known == {x \in Request : outcome[x] # "new"}
<1>1. \A x \in Request : outcome'[x] = IF x = r THEN o ELSE outcome[x]
  BY DEF Decided, RouterTypeOK
<1>2. o \notin {"new", "flushed"}
  BY DEF Decisions
<1>3. IsFiniteSet(known) /\ r \notin known
  BY RouterAssumption, FS_Subset
<1>4. {x \in Request : outcome'[x] # "new"} = known \cup {r}
  BY <1>1, <1>2
<1>5. {x \in Request : outcome'[x] = "flushed"} = {x \in Request : outcome[x] = "flushed"}
  BY <1>1, <1>2
<1> QED
  BY <1>3, <1>4, <1>5, FS_AddElement

\* Which counter an outcome goes to.
CounterOf(o) ==
  CASE o \in {"auto", "always"} -> "batchRequests"
    [] o = "switched" -> "modelSwitches"
    [] o = "hit" -> "cacheHits"
    [] OTHER -> "directRequests"

\* A request that is decided and recorded keeps the accounts.
LEMMA RecordedAccounts ==
  ASSUME RouterInv, metrics \in [Counters -> Nat], MetricsAccount, owner = "optimizer",
         NEW r \in Request, outcome[r] = "new",
         NEW o \in Decisions \cup {"hit"}, Decided(r, o), Record(CounterOf(o))
  PROVE  metrics' \in [Counters -> Nat] /\ MetricsAccount'
<1> DEFINE known == {x \in Request : outcome[x] # "new"}
           flushed == {x \in Request : outcome[x] = "flushed"}
<1>1. /\ metrics["totalRequests"] = Cardinality(known)
      /\ metrics["totalRequests"] = metrics["cacheHits"] + metrics["batchRequests"]
                              + metrics["modelSwitches"] + metrics["directRequests"]
      /\ metrics["batchRequests"] = Len(queue) + Cardinality(flushed)
  BY DEF MetricsAccount
<1>2. Cardinality(known') = Cardinality(known) + 1 /\ flushed' = flushed
  BY OutcomeCounts DEF RouterInv
<1>10. Len(queue) \in Nat /\ Cardinality(flushed) \in Nat
  BY RouterAssumption, FS_Subset, FS_CardinalityType, LenProperties DEF RouterInv, RouterTypeOK
<1> HIDE DEF known, flushed
<1>3. \A k \in Counters : metrics[k] \in Nat
  OBVIOUS
<1>4. \A k \in Counters : metrics'[k] = IF k \in {"totalRequests", CounterOf(o)}
                                        THEN metrics[k] + 1 ELSE metrics[k]
  BY DEF Record
<1>5. metrics' \in [Counters -> Nat]
  BY <1>3 DEF Record
<1>6. metrics'["totalRequests"] = metrics["totalRequests"] + 1
  BY <1>4 DEF Counters
<1>7. /\ metrics'["cacheHits"] = metrics["cacheHits"] + IF o = "hit" THEN 1 ELSE 0
      /\ metrics'["batchRequests"] = metrics["batchRequests"]
                                       + IF o \in {"auto", "always"} THEN 1 ELSE 0
      /\ metrics'["modelSwitches"] = metrics["modelSwitches"] + IF o = "switched" THEN 1 ELSE 0
      /\ metrics'["directRequests"] = metrics["directRequests"]
                                       + IF o \in {"direct", "failed"} THEN 1 ELSE 0
  BY <1>3, <1>4 DEF Counters, CounterOf, Decisions
<1>8. metrics'["totalRequests"] = metrics'["cacheHits"] + metrics'["batchRequests"]
                              + metrics'["modelSwitches"] + metrics'["directRequests"]
  <2>0. metrics["totalRequests"] = metrics["cacheHits"] + metrics["batchRequests"]
                              + metrics["modelSwitches"] + metrics["directRequests"]
    BY <1>1
  <2>1. /\ metrics["cacheHits"] \in Nat /\ metrics["batchRequests"] \in Nat
        /\ metrics["modelSwitches"] \in Nat /\ metrics["directRequests"] \in Nat
    BY <1>3 DEF Counters
  <2>2. CASE o = "hit"
    <3>1. /\ metrics'["cacheHits"] = metrics["cacheHits"] + 1
          /\ metrics'["batchRequests"] = metrics["batchRequests"]
          /\ metrics'["modelSwitches"] = metrics["modelSwitches"]
          /\ metrics'["directRequests"] = metrics["directRequests"]
      BY <2>1, <2>2, <1>7
    <3> QED
      BY <3>1, <2>1, <2>0, <1>6
  <2>3. CASE o \in {"auto", "always"}
    <3>1. /\ metrics'["cacheHits"] = metrics["cacheHits"]
          /\ metrics'["batchRequests"] = metrics["batchRequests"] + 1
          /\ metrics'["modelSwitches"] = metrics["modelSwitches"]
          /\ metrics'["directRequests"] = metrics["directRequests"]
      BY <2>1, <2>3, <1>7
    <3> QED
      BY <3>1, <2>1, <2>0, <1>6
  <2>4. CASE o = "switched"
    <3>1. /\ metrics'["cacheHits"] = metrics["cacheHits"]
          /\ metrics'["batchRequests"] = metrics["batchRequests"]
          /\ metrics'["modelSwitches"] = metrics["modelSwitches"] + 1
          /\ metrics'["directRequests"] = metrics["directRequests"]
      BY <2>1, <2>4, <1>7
    <3> QED
      BY <3>1, <2>1, <2>0, <1>6
  <2>5. CASE o \in {"direct", "failed"}
    <3>1. /\ metrics'["cacheHits"] = metrics["cacheHits"]
          /\ metrics'["batchRequests"] = metrics["batchRequests"]
          /\ metrics'["modelSwitches"] = metrics["modelSwitches"]
          /\ metrics'["directRequests"] = metrics["directRequests"] + 1
      BY <2>1, <2>5, <1>7
    <3> QED
      BY <3>1, <2>1, <2>0, <1>6
  <2> QED
    BY <2>2, <2>3, <2>4, <2>5 DEF Decisions
<1>9. Len(queue') = Len(queue) + IF o \in {"auto", "always"} THEN 1 ELSE 0
  BY AppendProperties, LenProperties DEF Decided, RouterInv, RouterTypeOK
<1>11. metrics'["batchRequests"] = Len(queue') + Cardinality(flushed')
  BY <1>1, <1>2, <1>7, <1>9, <1>10
<1>12. metrics'["totalRequests"] = Cardinality(known')
  BY <1>1, <1>2, <1>6
<1> QED
  BY <1>5, <1>8, <1>11, <1>12 DEF MetricsAccount, known, flushed

\* A flush moves requests from one term of the batch account to the other.
LEMMA FlushedAccounts ==
  ASSUME RouterInv, MetricsAccount, FlushQueue, UNCHANGED <<metrics, owner>>
  PROVE  MetricsAccount'
<1> DEFINE known == {x \in Request : outcome[x] # "new"}
           flushed == {x \in Request : outcome[x] = "flushed"}
<1>1. /\ queue' = <<>> /\ Len(<<>>) = 0
      /\ \A r \in Request : outcome'[r] = IF r \in Range(queue) THEN "flushed" ELSE outcome[r]
  BY EmptySeq DEF FlushQueue
<1>2. \A r \in Range(queue) : r \in Request /\ outcome[r] \in {"auto", "always"}
  BY RangeOfSeq DEF RouterInv, RouterTypeOK, QueueHoldsBatched
<1>3. known' = known
  BY <1>1, <1>2
<1>4. flushed' = flushed \cup Range(queue) /\ flushed \cap Range(queue) = {}
  BY <1>1, <1>2
<1>5. IsFiniteSet(Range(queue)) /\ Cardinality(Range(queue)) = Len(queue)
  BY LenIsCardinality DEF RouterInv, RouterTypeOK, QueueHoldsBatched
<1>6. IsFiniteSet(flushed) /\ Cardinality(flushed) \in Nat /\ Len(queue) \in Nat
  BY RouterAssumption, FS_Subset, FS_CardinalityType, LenProperties DEF RouterInv, RouterTypeOK
<1> HIDE DEF known, flushed
<1>7. Cardinality(flushed') = Cardinality(flushed) + Len(queue)
  <2>1. Cardinality(flushed \cap Range(queue)) = 0
    BY <1>4, FS_EmptySet
  <2>2. Cardinality(flushed \cup Range(queue))
          = Cardinality(flushed) + Cardinality(Range(queue)) - Cardinality(flushed \cap Range(queue))
    BY <1>5, <1>6, FS_Union
  <2> QED
    BY <2>1, <2>2, <1>4, <1>5, <1>6
<1> QED
  <2>1. Cardinality(known') = Cardinality(known)
    BY <1>3
  <2>2. Len(queue') + Cardinality(flushed') = Len(queue) + Cardinality(flushed)
    BY <1>1, <1>6, <1>7
  <2> QED
    BY <2>1, <2>2 DEF MetricsAccount, known, flushed

-----------------------------------------------------------------------------
(* The invariant                                                           *)

\* The optimizer decides for valid requests only.
AskedIsValid ==
  \A r \in Request : owner = "optimizer" /\ outcome[r] # "new" => Valid(Info[r])

\* The inductive invariant of the three layers together.
OptimizerInv ==
  /\ RouterInv
  /\ CacheTypeOK
  /\ PromptsOnly
  /\ owner \in {"optimizer", "router", "cache"}
  /\ metrics \in [Counters -> Nat]
  /\ MetricsAccount
  /\ AskedIsValid

LEMMA InitInv == Init => OptimizerInv
<1> SUFFICES ASSUME Init PROVE OptimizerInv
  OBVIOUS
<1>1. <<>> \in Seq(Request) /\ <<>> \in Seq(Nat) /\ Len(<<>>) = 0 /\ Range(<<>>) = {}
      /\ IsInjective(<<>>)
  BY EmptySeq DEF Range, IsInjective
<1>2. RouterInv
  <2>1. RouterTypeOK
    BY <1>1 DEF Init, RouterInit, RouterTypeOK, Outcomes
  <2>2. RecentIsSuffix
    BY <1>1 DEF Init, RouterInit, RecentIsSuffix
  <2>3. QueueHoldsBatched /\ AutoWithinLimit
    BY <1>1 DEF Init, RouterInit, QueueHoldsBatched, AutoWithinLimit
  <2> QED
    BY <2>1, <2>2, <2>3 DEF RouterInv
<1>3. DOMAIN prompts = {} /\ DOMAIN responses = {}
      /\ prompts = [h \in {} |-> 0] /\ responses = [h \in {} |-> 0]
  BY DEF Init, CacheInit
<1>4. CacheTypeOK /\ PromptsOnly
  BY <1>3, FS_EmptySet, CacheAssumption DEF CacheTypeOK, PromptsOnly
<1>5. metrics \in [Counters -> Nat] /\ owner \in {"optimizer", "router", "cache"}
  BY DEF Init
<1>6. /\ {r \in Request : outcome[r] # "new"} = {} /\ {r \in Request : outcome[r] = "flushed"} = {}
  BY DEF Init, RouterInit
<1>7. MetricsAccount
  <2>1. /\ metrics["totalRequests"] = 0 /\ metrics["cacheHits"] = 0
        /\ metrics["batchRequests"] = 0 /\ metrics["modelSwitches"] = 0
        /\ metrics["directRequests"] = 0 /\ Len(queue) = 0
    BY <1>1 DEF Init, RouterInit, Counters
  <2>2. /\ Cardinality({r \in Request : outcome[r] # "new"}) = 0
        /\ Cardinality({r \in Request : outcome[r] = "flushed"}) = 0
    BY <1>6, FS_EmptySet
  <2> QED
    BY <2>1, <2>2 DEF MetricsAccount
<1>8. AskedIsValid
  BY DEF Init, RouterInit, AskedIsValid
<1> QED
  BY <1>2, <1>4, <1>5, <1>7, <1>8 DEF OptimizerInv

\* Optimize ends in a decision, whichever layer answers.
LEMMA OptimizeIsDecision ==
  ASSUME OptimizerInv, NEW r \in Request, Optimize(r)
  PROVE  /\ owner = "optimizer" /\ outcome[r] = "new" /\ Valid(Info[r])
         /\ UNCHANGED <<prompts, responses, now, owner>>
         /\ \E o \in Decisions \cup {"hit"} : Decided(r, o) /\ Record(CounterOf(o))
         /\ recent' \in Seq(Nat) /\ arrivals' \in Seq(Nat) /\ RecentIsSuffix'
<1>1. /\ owner = "optimizer" /\ outcome[r] = "new" /\ Valid(Info[r])
      /\ UNCHANGED <<prompts, responses, now, owner>>
  BY DEF Optimize, cacheVars
<1>t. outcome \in [Request -> Outcomes]
  BY DEF OptimizerInv, RouterInv, RouterTypeOK
<1>2. CASE HitCache(r)
  <2>1. Decided(r, "hit") /\ Record(CounterOf("hit")) /\ recent' = recent /\ arrivals' = arrivals
    BY <1>1, <1>2 DEF HitCache, Decided, CounterOf
  <2> QED
    BY <1>1, <2>1 DEF OptimizerInv, RouterInv, RouterTypeOK, RecentIsSuffix
<1>3. CASE MakeRoutingDecision(r, ForRouter(Info[r])) /\ RecordRoute(r)
  <2>1. PICK o \in Decisions : Decided(r, o)
    BY <1>1, <1>3, RouteIsDecision DEF OptimizerInv
  <2>2. outcome'[r] = o
    BY <2>1, <1>t DEF Decided
  <2>3. Record(CounterOf(o))
    BY <1>3, <2>2 DEF RecordRoute, CounterOf, Decisions
  <2>4. recent' \in Seq(Nat) /\ arrivals' \in Seq(Nat) /\ RecentIsSuffix'
    BY <1>1, <1>3, RouteIsDecision DEF OptimizerInv
  <2> QED
    BY <1>1, <2>1, <2>3, <2>4
<1> QED
  BY <1>2, <1>3 DEF Optimize

\* A decision keeps the router's invariant.
LEMMA DecidedRouter ==
  ASSUME RouterInv, NEW r \in Request, outcome[r] = "new",
         NEW o \in Decisions \cup {"hit"}, Decided(r, o),
         recent' \in Seq(Nat), arrivals' \in Seq(Nat), RecentIsSuffix'
  PROVE  RouterInv'
<1>1. /\ queue' \in Seq(Request) /\ outcome' \in [Request -> Outcomes]
      /\ QueueHoldsBatched' /\ AutoWithinLimit'
  BY DecidedQueue
<1>2. RouterTypeOK'
  BY <1>1 DEF Decided, RouterInv, RouterTypeOK
<1> QED
  BY <1>1, <1>2 DEF RouterInv

LEMMA NextInv == OptimizerInv /\ [Next]_vars => OptimizerInv'
<1> SUFFICES ASSUME OptimizerInv, [Next]_vars PROVE OptimizerInv'
  OBVIOUS
<1>0. now \in Nat /\ outcome \in [Request -> Outcomes]
  BY DEF OptimizerInv, RouterInv, RouterTypeOK
<1>1. ASSUME NEW r \in Request, Optimize(r) PROVE OptimizerInv'
  <2>0. /\ owner = "optimizer" /\ outcome[r] = "new" /\ Valid(Info[r])
        /\ UNCHANGED <<prompts, responses, now, owner>>
        /\ recent' \in Seq(Nat) /\ arrivals' \in Seq(Nat) /\ RecentIsSuffix'
    BY <1>1, OptimizeIsDecision
  <2>1. PICK o \in Decisions \cup {"hit"} : Decided(r, o) /\ Record(CounterOf(o))
    BY <1>1, OptimizeIsDecision
  <2>2. RouterInv'
    BY <2>0, <2>1, DecidedRouter DEF OptimizerInv
  <2>3. metrics' \in [Counters -> Nat] /\ MetricsAccount'
    BY <2>0, <2>1, RecordedAccounts DEF OptimizerInv
  <2>4. AskedIsValid'
    BY <2>0, <2>1, <1>0 DEF OptimizerInv, AskedIsValid, Decided
  <2>5. CacheTypeOK' /\ PromptsOnly' /\ owner' \in {"optimizer", "router", "cache"}
    BY <2>0 DEF OptimizerInv, CacheTypeOK, PromptsOnly
  <2> QED
    BY <2>2, <2>3, <2>4, <2>5 DEF OptimizerInv
<1>2. ASSUME NEW r \in Request, StoreResponse(r) PROVE OptimizerInv'
  <2>1. /\ UNCHANGED <<routerVars, now, owner, metrics>>
        /\ Info[r].prompt \in Prompt /\ Info[r].model \in Model
        /\ CachePrompt(Info[r].prompt, Info[r].model, now) /\ owner = "optimizer"
    BY <1>2, InfoAssumption DEF StoreResponse, OptimizerInv, AskedIsValid, Valid
  <2>2. CacheTypeOK'
    BY <2>1, <1>0, StoreTypes DEF OptimizerInv
  <2>3. PromptsOnly'
    BY <2>1, <1>0, PromptStored DEF OptimizerInv
  <2>4. UNCHANGED <<routerVars, now>>
    BY <2>1
  <2> QED
    BY <2>1, <2>2, <2>3
    DEF OptimizerInv, RouterInv, RouterTypeOK, RecentIsSuffix, QueueHoldsBatched,
        AutoWithinLimit, routerVars, MetricsAccount, AskedIsValid
<1>3. ASSUME NEW r \in Request, RouteOnly(r) PROVE OptimizerInv'
  <2>0. /\ owner = "router" /\ outcome[r] = "new" /\ MakeRoutingDecision(r, Info[r])
        /\ UNCHANGED <<prompts, responses, now, owner, metrics>>
    BY <1>3 DEF RouteOnly, cacheVars
  <2>1. /\ \E o \in Decisions : Decided(r, o)
        /\ recent' \in Seq(Nat) /\ arrivals' \in Seq(Nat) /\ RecentIsSuffix'
    BY <2>0, RouteIsDecision DEF OptimizerInv
  <2>2. RouterInv'
    BY <2>0, <2>1, DecidedRouter DEF OptimizerInv
  <2> QED
    BY <2>0, <2>2 DEF OptimizerInv, CacheTypeOK, PromptsOnly, MetricsAccount, AskedIsValid
<1>4. ASSUME NEW p \in Prompt, NEW m \in Model, CacheOnly(p, m) PROVE OptimizerInv'
  <2>1. /\ owner = "cache" /\ UNCHANGED <<routerVars, now, owner, metrics>>
        /\ CachePrompt(p, m, now) \/ CacheResponse(p, m, now)
    BY <1>4 DEF CacheOnly
  <2>2. CacheTypeOK'
    BY <2>1, <1>0, StoreTypes DEF OptimizerInv
  <2> QED
    BY <2>1, <2>2
    DEF OptimizerInv, PromptsOnly, RouterInv, RouterTypeOK, RecentIsSuffix, QueueHoldsBatched,
        AutoWithinLimit, routerVars, MetricsAccount, AskedIsValid
<1>5. CASE Flush
  <2>1. FlushQueue /\ UNCHANGED <<prompts, responses, now, owner, metrics>>
    BY <1>5 DEF Flush, cacheVars
  <2>2. RouterInv' /\ MetricsAccount'
    BY <2>1, FlushedQueue, FlushedAccounts DEF OptimizerInv
  <2>3. AskedIsValid'
    <3>1. \A r \in Request : outcome[r] = "new" => outcome'[r] = "new"
      BY <2>1 DEF FlushQueue, OptimizerInv, RouterInv, QueueHoldsBatched
    <3> QED
      BY <2>1, <3>1 DEF OptimizerInv, AskedIsValid
  <2> QED
    BY <2>1, <2>2, <2>3 DEF OptimizerInv, CacheTypeOK, PromptsOnly
<1>6. CASE Configure
  <2>1. RouterInv'
    BY <1>6, ConfiguredRouter DEF OptimizerInv
  <2>2. UNCHANGED <<prompts, responses, now, owner, metrics, outcome, queue>>
    BY <1>6 DEF Configure, SetStrategy, SetMinSavingsPercent, SetDetectorConfidence,
                EnableDetector, cacheVars
  <2> QED
    BY <2>1, <2>2 DEF OptimizerInv, CacheTypeOK, PromptsOnly, MetricsAccount, AskedIsValid
<1>7. CASE Expire
  <2>1. ClearExpired(now) /\ UNCHANGED <<routerVars, now, owner, metrics>>
    BY <1>7 DEF Expire
  <2>2. CacheTypeOK' /\ PromptsOnly'
    BY <2>1, ClearedCache DEF OptimizerInv
  <2> QED
    BY <2>1, <2>2
    DEF OptimizerInv, RouterInv, RouterTypeOK, RecentIsSuffix, QueueHoldsBatched,
        AutoWithinLimit, routerVars, MetricsAccount, AskedIsValid
<1>8. CASE Tick
  <2>1. now' = now + 1 /\ UNCHANGED <<routerVars, cacheVars, owner, metrics>>
    BY <1>8 DEF Tick
  <2>2. RecentIsSuffix'
    <3>1. \A i \in 1..Len(arrivals) : arrivals[i] \in Nat
      BY ElementOfSeq DEF OptimizerInv, RouterInv, RouterTypeOK
    <3>2. Len(arrivals) \in Nat /\ RequestCountWindow \in Nat
      BY LenProperties, RouterAssumption DEF OptimizerInv, RouterInv, RouterTypeOK
    <3>3. UNCHANGED <<recent, arrivals>>
      BY <2>1 DEF routerVars
    <3>4. PICK k \in 0..Len(arrivals) :
            /\ Len(recent) = Len(arrivals) - k
            /\ \A i \in 1..Len(recent) : recent[i] = arrivals[i + k]
            /\ \A i \in 1..k : arrivals[i] <= now - RequestCountWindow
      BY DEF OptimizerInv, RouterInv, RecentIsSuffix
    <3>5. ASSUME NEW i \in 1..k PROVE arrivals[i] <= (now + 1) - RequestCountWindow
      <4>1. i \in 1..Len(arrivals)
        BY <3>2, <3>4
      <4> QED
        BY <1>0, <3>1, <3>2, <3>4, <4>1
    <3>6. \A i \in 1..k : arrivals'[i] <= now' - RequestCountWindow
      BY <2>1, <3>3, <3>5
    <3> QED
      BY <3>3, <3>4, <3>6 DEF RecentIsSuffix
  <2>3. RouterInv'
    BY <1>0, <2>1, <2>2
    DEF OptimizerInv, RouterInv, RouterTypeOK, QueueHoldsBatched, AutoWithinLimit, routerVars
  <2> QED
    BY <2>1, <2>3
    DEF OptimizerInv, CacheTypeOK, PromptsOnly, MetricsAccount, AskedIsValid, routerVars, cacheVars
<1>9. CASE UNCHANGED vars
  BY <1>9
  DEF OptimizerInv, RouterInv, RouterTypeOK, RecentIsSuffix, QueueHoldsBatched, AutoWithinLimit,
      CacheTypeOK, PromptsOnly, MetricsAccount, AskedIsValid, vars, routerVars, cacheVars
<1> QED
  BY <1>1, <1>2, <1>3, <1>4, <1>5, <1>6, <1>7, <1>8, <1>9 DEF Next

\* Type correctness of every reachable state.
THEOREM OptimizerTypeCorrect == Spec => []TypeOK
<1>1. OptimizerInv => TypeOK
  BY DEF OptimizerInv, RouterInv, TypeOK
<1> QED
  BY <1>1, InitInv, NextInv, PTL DEF Spec

\* The list the detector trims counts as the full record of its requests
\* would, at the present time and at any later one.
THEOREM VolumeIsExact == Spec => []VolumeExact
<1>1. OptimizerInv => VolumeExact
  BY SuffixCounts DEF OptimizerInv, RouterInv
<1> QED
  BY <1>1, InitInv, NextInv, PTL DEF Spec

\* What StrategyAuto queued sits within the limit of the queue, over every
\* change of strategy.
THEOREM AutoStaysWithinLimit == Spec => []AutoWithinLimit
<1>1. OptimizerInv => AutoWithinLimit
  BY DEF OptimizerInv, RouterInv
<1> QED
  BY <1>1, InitInv, NextInv, PTL DEF Spec

\* The router decides by the true volume and within its limit, with or without
\* the optimizer.
THEOREM RouterStaysSound == Spec => []RouterIsSound
<1>1. VolumeExact /\ AutoWithinLimit => RouterIsSound
  BY DEF RouterIsSound
<1> QED BY <1>1, VolumeIsExact, AutoStaysWithinLimit, PTL

\* The optimizer's counters account for its requests and its queue, what it
\* suggests is alive, and the prompts it stores stay within the limit.
THEOREM OptimizerStaysSound == Spec => []OptimizerIsSound
<1>1. OptimizerInv => OptimizerIsSound
  BY SuggestionsSound
  DEF OptimizerInv, RouterInv, TypeOK, OptimizerIsSound, PromptsOnly, PromptsWithinSize
<1> QED
  BY <1>1, InitInv, NextInv, PTL DEF Spec

-----------------------------------------------------------------------------
(* The router implements the ledger                                        *)

\* Where a request is in the ledger: the batched ones are all in the queue.
LEMMA PlaceIs ==
  ASSUME RouterInv
  PROVE  RouterPlace = [r \in Request |->
           IF outcome[r] = "new" THEN "new"
           ELSE IF outcome[r] = "flushed" THEN "handed"
           ELSE IF outcome[r] \in {"auto", "always"} THEN "pending" ELSE "refused"]
BY DEF RouterInv, QueueHoldsBatched, RouterPlace

LEMMA LedgerInit == Init => RouterLedger!Init
<1> SUFFICES ASSUME Init PROVE RouterPlace = [r \in Request |-> "new"]
  BY DEF RouterLedger!Init
<1> QED
  BY DEF Init, RouterInit, RouterPlace

\* A decision is an offer of the ledger, taken or refused.
LEMMA LedgerOffer ==
  ASSUME RouterInv, RouterInv', NEW r \in Request, outcome[r] = "new",
         NEW o \in Decisions \cup {"hit"}, Decided(r, o)
  PROVE  RouterLedger!Next
<1> DEFINE p == IF o \in {"auto", "always"} THEN "pending" ELSE "refused"
<1>1. outcome' = [outcome EXCEPT ![r] = o] /\ outcome \in [Request -> Outcomes]
  BY DEF Decided, RouterInv, RouterTypeOK
<1>2. RouterPlace[r] = "new" /\ RouterPlace = [x \in Request |-> RouterPlace[x]]
  BY PlaceIs
<1>3. RouterPlace' = [x \in Request |->
           IF outcome'[x] = "new" THEN "new"
           ELSE IF outcome'[x] = "flushed" THEN "handed"
           ELSE IF outcome'[x] \in {"auto", "always"} THEN "pending" ELSE "refused"]
  BY DEF RouterInv, QueueHoldsBatched, RouterPlace
<1>4. RouterPlace' = [RouterPlace EXCEPT ![r] = p]
  BY <1>1, <1>3, PlaceIs DEF Decisions
<1> QED
  BY <1>2, <1>4 DEF RouterLedger!Next, RouterLedger!Offer

LEMMA LedgerStep ==
  OptimizerInv /\ OptimizerInv' /\ [Next]_vars
    => [RouterLedger!Next]_(RouterLedger!ledgerVars)
<1> SUFFICES ASSUME OptimizerInv, OptimizerInv', [Next]_vars
             PROVE  RouterLedger!Next \/ RouterPlace' = RouterPlace
  BY DEF RouterLedger!ledgerVars
<1>0. RouterInv /\ RouterInv'
  BY DEF OptimizerInv
<1>1. ASSUME NEW r \in Request, Optimize(r) PROVE RouterLedger!Next
  BY <1>0, <1>1, OptimizeIsDecision, LedgerOffer
<1>2. ASSUME NEW r \in Request, RouteOnly(r) PROVE RouterLedger!Next
  <2>1. outcome[r] = "new" /\ MakeRoutingDecision(r, Info[r]) /\ now' = now
    BY <1>2 DEF RouteOnly
  <2>2. \E o \in Decisions : Decided(r, o)
    BY <1>0, <2>1, RouteIsDecision
  <2> QED
    BY <1>0, <2>1, <2>2, LedgerOffer
<1>3. CASE Flush
  <2>1. /\ queue # <<>>
        /\ \A r \in Request : outcome'[r] = IF r \in Range(queue) THEN "flushed" ELSE outcome[r]
    BY <1>3 DEF Flush, FlushQueue
  <2>2. Range(queue) \subseteq Request
    BY RangeOfSeq DEF OptimizerInv, RouterInv, RouterTypeOK
  <2>3. Range(queue) # {}
    <3>1. Len(queue) \in Nat \ {0} /\ DOMAIN queue = 1..Len(queue)
      BY <2>1, EmptySeq, LenProperties DEF OptimizerInv, RouterInv, RouterTypeOK
    <3>2. queue[1] \in Range(queue)
      BY <3>1 DEF Range
    <3> QED
      BY <3>2
  <2>4. Range(queue) \subseteq RouterLedger!Pending
    BY <1>0, <2>2, PlaceIs DEF RouterLedger!Pending, RouterInv, QueueHoldsBatched
  <2>5. RouterPlace' = [r \in Request |->
           IF outcome'[r] = "new" THEN "new"
           ELSE IF outcome'[r] = "flushed" THEN "handed"
           ELSE IF outcome'[r] \in {"auto", "always"} THEN "pending" ELSE "refused"]
    BY <1>0 DEF RouterInv, QueueHoldsBatched, RouterPlace
  <2>6. RouterPlace' = [r \in Request |->
                          IF r \in Range(queue) THEN "handed" ELSE RouterPlace[r]]
    BY <1>0, <2>1, <2>5, PlaceIs
  <2>7. RouterLedger!Leave(Range(queue), "handed")
    BY <2>3, <2>6 DEF RouterLedger!Leave
  <2> QED
    BY <2>4, <2>7 DEF RouterLedger!Next
<1>4. CASE UNCHANGED <<outcome, queue>>
  BY <1>4 DEF RouterPlace
<1> QED
  BY <1>1, <1>2, <1>3, <1>4
  DEF Next, vars, routerVars, StoreResponse, CacheOnly, Configure, SetStrategy,
      SetMinSavingsPercent, SetDetectorConfidence, EnableDetector, Expire, Tick

\* The router implements the ledger, by itself and under the optimizer: a
\* request is queued or sent directly once, and handed out once.
THEOREM RouterImplementsLedger == Spec => RouterLedgerSpec
BY InitInv, NextInv, LedgerInit, LedgerStep, PTL DEF Spec, RouterLedgerSpec, RouterLedger!Spec
=============================================================================
