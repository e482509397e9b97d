-------------------------- MODULE RadixSortProofs --------------------------
(***************************************************************************)
(* Proofs about RadixSort for every group size, wave size, radix, number   *)
(* of digits, input and value of the uninitialised register.               *)
(***************************************************************************)
EXTENDS RadixSort, FiniteSetTheorems, TLAPS

(* The loop counter agrees with the place of a thread in main.             *)
PassMatchesPc ==
    \A t \in Thread :
        /\ pc[t] = "load" => pass[t] = 0
        /\ pc[t] \in {"store", "done"} => pass[t] = Digits
        /\ pc[t] \notin {"store", "done"} => pass[t] < Digits

IInv == TypeOK /\ PassMatchesPc

(***************************************************************************)
(* A word of a row-major table belongs to one row only.                    *)
(***************************************************************************)
LEMMA RowsAreDisjoint ==
    ASSUME NEW n \in Nat \ {0}, NEW v \in Nat, NEW w \in Nat,
           NEW a \in 0 .. (n - 1), NEW b \in 0 .. (n - 1),
           v * n + a = w * n + b
    PROVE  v = w
<1>1. CASE v < w
  <2>1. PICK k \in Nat : w = v + 1 + k
    <3>1. w - v - 1 \in Nat /\ w = v + 1 + (w - v - 1)
      BY <1>1
    <3> QED
      BY <3>1
  <2>2. w * n = v * n + n + k * n
    BY <2>1
  <2>3. k * n \in Nat /\ v * n \in Nat
    BY <2>1
  <2> QED
    BY <2>2, <2>3
<1>2. CASE w < v
  <2>1. PICK k \in Nat : v = w + 1 + k
    <3>1. v - w - 1 \in Nat /\ v = w + 1 + (v - w - 1)
      BY <1>2
    <3> QED
      BY <3>1
  <2>2. v * n = w * n + n + k * n
    BY <2>1
  <2>3. k * n \in Nat /\ w * n \in Nat
    BY <2>1
  <2> QED
    BY <2>2, <2>3
<1> QED
  BY <1>1, <1>2

(***************************************************************************)
(* Quotient and remainder: how a thread's wave and lane determine it.      *)
(***************************************************************************)
LEMMA DivMod ==
    ASSUME NEW a \in Nat, NEW n \in Nat \ {0}
    PROVE  /\ a \div n \in Nat
           /\ a % n \in 0 .. (n - 1)
           /\ a = n * (a \div n) + (a % n)
  OBVIOUS

(* The input buffer is indexed by 0 .. Count - 1.                          *)
LEMMA InputShape ==
    ASSUME input \in Inputs
    PROVE  /\ Count \in Nat
           /\ DOMAIN input = 0 .. (Count - 1)
           /\ input \in [0 .. (Count - 1) -> Key]
<1>1. IsFiniteSet(DOMAIN input) /\ input \in [0 .. (Count - 1) -> Key]
  BY InputsAssumption DEF Count
<1>2. Count \in Nat
  BY <1>1, FS_CardinalityType DEF Count
<1> QED
  BY <1>1, <1>2

(* A set of threads has a size.                                            *)
LEMMA ThreadCount ==
    ASSUME NEW S \in SUBSET Thread
    PROVE  Cardinality(S) \in Nat
<1>1. IsFiniteSet(Thread)
  BY FS_Interval, SizesAssumption DEF Thread
<1> QED
  BY <1>1, FS_Subset, FS_CardinalityType

(* Digits are buckets, and a key whose digits are all 0 is a key.          *)
LEMMA KeyFacts ==
    /\ ZeroKey \in Key
    /\ 0 \in Bucket
    /\ \A k \in Key, d \in 0 .. (Digits - 1) : k[d] \in Bucket
BY SizesAssumption DEF ZeroKey, Key, Bucket

(* Whatever junk the shared arrays hold, a dispatch starts well formed.    *)
LEMMA InitInv == Init => IInv
<1> SUFFICES ASSUME Init PROVE IInv
  OBVIOUS
<1>1. PICK junk \in JunkKeys : /\ output = [i \in DOMAIN input |-> junk]
                               /\ KeysA = [t \in Thread |-> junk]
                               /\ KeysB = [t \in Thread |-> junk]
  BY DEF Init
<1>2. junk \in Key
  BY JunkAssumption
<1>3. TypeOK
  <2>1. input \in Inputs /\ output \in [DOMAIN input -> Key]
    BY <1>1, <1>2 DEF Init
  <2>2. KeysA \in [Thread -> Key] /\ KeysB \in [Thread -> Key]
    BY <1>1, <1>2
  <2>3. /\ IsArray(Hist, Bucket) /\ IsArray(BucketOffset, Bucket)
        /\ IsArray(WaveBucketCounts, Cell) /\ IsArray(WaveBucketOffsets, Cell)
    BY DEF Init, IsArray
  <2>4. key \in [Thread -> Key] /\ bucket \in [Thread -> Bucket] /\ rank \in [Thread -> Nat]
    BY KeyFacts DEF Init
  <2>5. pc \in [Thread -> DOMAIN Stage]
    BY DEF Init, Stage
  <2>6. pass \in [Thread -> 0 .. Digits]
    BY SizesAssumption DEF Init
  <2> QED
    BY <2>1, <2>2, <2>3, <2>4, <2>5, <2>6 DEF TypeOK
<1>4. PassMatchesPc
  BY SizesAssumption DEF Init, PassMatchesPc
<1> QED
  BY <1>3, <1>4 DEF IInv

(***************************************************************************)
(* A step that moves one thread, or one wave, from a stage that is not the *)
(* last of the pass to the next one keeps the control state well formed.   *)
(***************************************************************************)
LEMMA ThreadControl ==
    ASSUME IInv, NEW t \in Thread, NEW from, NEW to \in DOMAIN Stage, Goto(t, from, to),
           UNCHANGED pass, to # "load",
           from \in {"store", "done"} <=> to \in {"store", "done"}
    PROVE  /\ pc' \in [Thread -> DOMAIN Stage]
           /\ PassMatchesPc'
BY DEF IInv, TypeOK, PassMatchesPc, Goto

(* The same for the stages in which the lanes of a wave move together.     *)
LEMMA WaveControl ==
    ASSUME IInv, NEW w \in Wave, NEW from, NEW to \in DOMAIN Stage, WaveGoto(w, from, to),
           UNCHANGED pass, to \notin {"load", "store", "done"},
           from \notin {"load", "store", "done"}
    PROVE  /\ pc' \in [Thread -> DOMAIN Stage]
           /\ PassMatchesPc'
BY DEF IInv, TypeOK, PassMatchesPc, WaveGoto, Lanes

(* The stages between barriers, from line 41 to line 146.                  *)
LEMMA StageNames ==
    DOMAIN Stage = {"load", "clear", "count", "hist", "offset", "waveoff", "rank", "scatter",
                    "copy", "store", "done"}
BY DEF Stage

(* IInv is inductive: one step per action of RadixSort.                    *)
LEMMA StepInv == IInv /\ [Next]_vars => IInv'
<1> SUFFICES ASSUME IInv, [Next]_vars PROVE IInv'
  OBVIOUS
<1> USE DEF IInv
<1>1. ASSUME NEW t \in Thread, LoadInput(t) PROVE IInv'
  <2>1. pc' \in [Thread -> DOMAIN Stage] /\ PassMatchesPc'
    BY <1>1, ThreadControl, StageNames DEF LoadInput
  <2>2. KeysA' \in [Thread -> Key]
    BY <1>1, InputShape DEF LoadInput, TypeOK, active, Thread
  <2> QED
    BY <1>1, <2>1, <2>2 DEF LoadInput, TypeOK, buffers, tables, registers, IsArray
<1>2. ASSUME NEW t \in Thread, ClearTables(t) PROVE IInv'
  <2>1. pc' \in [Thread -> DOMAIN Stage] /\ PassMatchesPc'
    BY <1>2, ThreadControl, StageNames DEF ClearTables
  <2> QED
    BY <1>2, <2>1 DEF ClearTables, TypeOK, buffers, registers, IsArray
<1>3. ASSUME NEW t \in Thread, SumOverWaves(t) PROVE IInv'
  <2>1. pc' \in [Thread -> DOMAIN Stage] /\ PassMatchesPc'
    BY <1>3, ThreadControl, StageNames DEF SumOverWaves
  <2>2. IsArray(Hist, Bucket)'
    BY <1>3 DEF SumOverWaves, IsArray
  <2> QED
    BY <1>3, <2>1, <2>2 DEF SumOverWaves, TypeOK, buffers, registers, IsArray
<1>4. ASSUME NEW t \in Thread, PrefixOverBuckets(t) PROVE IInv'
  <2>1. pc' \in [Thread -> DOMAIN Stage] /\ PassMatchesPc'
    BY <1>4, ThreadControl, StageNames DEF PrefixOverBuckets
  <2>2. IsArray(BucketOffset, Bucket)'
    BY <1>4 DEF PrefixOverBuckets, IsArray
  <2> QED
    BY <1>4, <2>1, <2>2 DEF PrefixOverBuckets, TypeOK, buffers, registers, IsArray
<1>5. ASSUME NEW t \in Thread, PrefixOverWaves(t) PROVE IInv'
  <2>1. pc' \in [Thread -> DOMAIN Stage] /\ PassMatchesPc'
    BY <1>5, ThreadControl, StageNames DEF PrefixOverWaves
  <2>2. IsArray(WaveBucketOffsets, Cell)'
    BY <1>5 DEF PrefixOverWaves, IsArray
  <2> QED
    BY <1>5, <2>1, <2>2 DEF PrefixOverWaves, TypeOK, buffers, registers, IsArray
<1>6. ASSUME NEW t \in Thread, Scatter(t) PROVE IInv'
  <2>1. pc' \in [Thread -> DOMAIN Stage] /\ PassMatchesPc'
    BY <1>6, ThreadControl, StageNames DEF Scatter
  <2>2. KeysB' \in [Thread -> Key]
    BY <1>6 DEF Scatter, TypeOK
  <2> QED
    BY <1>6, <2>1, <2>2 DEF Scatter, TypeOK, buffers, tables, registers, IsArray
<1>7. ASSUME NEW t \in Thread, CopyBack(t) PROVE IInv'
  <2>1. pc[t] = "copy" /\ pass[t] \in 0 .. (Digits - 1) /\ Digits \in Nat
    BY <1>7, SizesAssumption DEF CopyBack, Goto, TypeOK, PassMatchesPc
  <2>2. pc' \in [Thread -> DOMAIN Stage] /\ pass' \in [Thread -> 0 .. Digits]
    BY <1>7, <2>1, StageNames DEF CopyBack, Goto, TypeOK
  <2>3. PassMatchesPc'
    <3> SUFFICES ASSUME NEW u \in Thread
                 PROVE  /\ pc'[u] = "load" => pass'[u] = 0
                        /\ pc'[u] \in {"store", "done"} => pass'[u] = Digits
                        /\ pc'[u] \notin {"store", "done"} => pass'[u] < Digits
      BY DEF PassMatchesPc
    <3>1. CASE u = t
      BY <1>7, <2>1, <3>1 DEF CopyBack, Goto, TypeOK
    <3>2. CASE u # t
      BY <1>7, <3>2 DEF CopyBack, Goto, TypeOK, PassMatchesPc
    <3> QED
      BY <3>1, <3>2
  <2>4. KeysA' \in [Thread -> Key]
    BY <1>7 DEF CopyBack, TypeOK
  <2> QED
    BY <1>7, <2>2, <2>3, <2>4 DEF CopyBack, TypeOK, buffers, tables, registers, IsArray
<1>8. ASSUME NEW t \in Thread, StoreOutput(t) PROVE IInv'
  <2>1. pc' \in [Thread -> DOMAIN Stage] /\ PassMatchesPc'
    BY <1>8, ThreadControl, StageNames DEF StoreOutput
  <2>2. output' \in [DOMAIN input -> Key]
    BY <1>8 DEF StoreOutput, TypeOK
  <2> QED
    BY <1>8, <2>1, <2>2 DEF StoreOutput, TypeOK, tables, registers, IsArray
<1>9. ASSUME NEW w \in Wave, CountInWave(w) PROVE IInv'
  <2>1. pc' \in [Thread -> DOMAIN Stage] /\ PassMatchesPc'
    BY <1>9, WaveControl, StageNames DEF CountInWave
  <2>2. key' \in [Thread -> Key]
    BY <1>9, KeyFacts DEF CountInWave, TypeOK
  <2>3. bucket' \in [Thread -> Bucket]
    <3> SUFFICES ASSUME NEW t \in Thread, waveIndex(t) = w PROVE DigitOf(t) \in Bucket
      BY <1>9 DEF CountInWave, TypeOK
    <3>1. pass[t] \in 0 .. (Digits - 1)
      BY <1>9, SizesAssumption DEF CountInWave, WaveGoto, Lanes, TypeOK, PassMatchesPc
    <3> QED
      BY <3>1, KeyFacts DEF DigitOf, TypeOK
  <2>4. IsArray(WaveBucketCounts, Cell)'
    BY <1>9 DEF CountInWave, IsArray
  <2> QED
    BY <1>9, <2>1, <2>2, <2>3, <2>4 DEF CountInWave, TypeOK, buffers, IsArray
<1>10. ASSUME NEW w \in Wave, RankInWave(w) PROVE IInv'
  <2>1. pc' \in [Thread -> DOMAIN Stage] /\ PassMatchesPc'
    BY <1>10, WaveControl, StageNames DEF RankInWave
  <2>2. rank' \in [Thread -> Nat]
    <3>1. \A t \in Thread :
            Cardinality({u \in Lanes(w) : u < t /\ active(u) /\ bucket[u] = bucket[t]}) \in Nat
      BY ThreadCount DEF Lanes
    <3> QED
      BY <1>10, <3>1 DEF RankInWave, TypeOK
  <2> QED
    BY <1>10, <2>1, <2>2 DEF RankInWave, TypeOK, buffers, tables, IsArray
<1>11. CASE UNCHANGED vars
  BY <1>11 DEF vars, buffers, tables, registers, TypeOK, PassMatchesPc, IsArray
<1> QED
  BY <1>1, <1>2, <1>3, <1>4, <1>5, <1>6, <1>7, <1>8, <1>9, <1>10, <1>11
     DEF Next, ThreadStep, WaveStep, Finished

(***************************************************************************)
(* The state of the workgroup is well typed in every reachable state:      *)
(* whatever junk the shared arrays and the register hold, no thread reads  *)
(* a digit past the last or leaves the loop at the wrong iteration.        *)
(***************************************************************************)
THEOREM TypeCorrect == Spec => []TypeOK
<1>1. Init => IInv
  BY InitInv
<1>2. IInv /\ [Next]_vars => IInv'
  BY StepInv
<1>3. IInv => TypeOK
  BY DEF IInv
<1> QED
  BY <1>1, <1>2, <1>3, PTL DEF Spec

(***************************************************************************)
(* Two threads that no barrier holds back are in the same stage, up to the *)
(* stages that no barrier separates.                                       *)
(***************************************************************************)
LEMMA Rendezvous ==
    ASSUME IInv, NEW t \in Thread, NEW u \in Thread, Released(t), Released(u)
    PROVE  \/ pc[t] = pc[u]
           \/ pc[t] \in {"rank", "scatter"} /\ pc[u] \in {"rank", "scatter"}
           \/ pc[t] \in {"store", "done"} /\ pc[u] \in {"store", "done"}
<1>1. 7 * pass[t] + Stage[pc[t]] = 7 * pass[u] + Stage[pc[u]]
  <2>1. Interval(t) \in Nat /\ Interval(u) \in Nat
    BY SizesAssumption DEF IInv, TypeOK, Interval, Stage
  <2>2. Interval(t) <= Interval(u) /\ Interval(u) <= Interval(t)
    BY DEF Released
  <2> QED
    BY <2>1, <2>2 DEF Interval
<1>2. /\ pass[t] \in Nat /\ pass[u] \in Nat /\ Digits \in Nat
      /\ pc[t] \in DOMAIN Stage /\ pc[u] \in DOMAIN Stage
  BY SizesAssumption DEF IInv, TypeOK
<1>3. /\ pc[t] = "load" => pass[t] = 0
      /\ pc[u] = "load" => pass[u] = 0
      /\ pc[t] \in {"store", "done"} => pass[t] = Digits
      /\ pc[u] \in {"store", "done"} => pass[u] = Digits
      /\ pc[t] \notin {"store", "done"} => pass[t] < Digits
      /\ pc[u] \notin {"store", "done"} => pass[u] < Digits
  BY DEF IInv, PassMatchesPc
<1>4. /\ Stage[pc[t]] \in 0 .. 7 /\ Stage[pc[u]] \in 0 .. 7
      /\ Stage[pc[t]] = 0 <=> pc[t] = "load"
      /\ Stage[pc[u]] = 0 <=> pc[u] = "load"
      /\ pc[t] \in {"store", "done"} => Stage[pc[t]] = 1
      /\ pc[u] \in {"store", "done"} => Stage[pc[u]] = 1
  BY <1>2, StageNames DEF Stage
<1>5. pass[t] = pass[u] /\ Stage[pc[t]] = Stage[pc[u]]
  <2> DEFINE p == pass[t]  q == pass[u]  a == Stage[pc[t]]  b == Stage[pc[u]]
  <2>1. p \in Nat /\ q \in Nat /\ a \in 0 .. 7 /\ b \in 0 .. 7 /\ 7 * p + a = 7 * q + b
    BY <1>1, <1>2, <1>4
  <2>2. (a = 0 => p = 0) /\ (b = 0 => q = 0)
    BY <1>3, <1>4
  <2> HIDE DEF p, q, a, b
  <2>3. p = q /\ a = b
    BY <2>1, <2>2
  <2> QED
    BY <2>3 DEF p, q, a, b
<1>6. pc[t] \in {"store", "done"} <=> pc[u] \in {"store", "done"}
  BY <1>2, <1>3, <1>5
<1> QED
  BY <1>2, <1>5, <1>6, StageNames DEF Stage

(* The rows that two waves' first lanes store do not overlap.              *)
LEMMA WaveRowsAreDisjoint ==
    ASSUME NEW t \in Thread, NEW u \in Thread, t # u, lane(t) = 0, lane(u) = 0,
           NEW a \in Bucket, NEW b \in Bucket
    PROVE  waveIndex(t) * Radix + a # waveIndex(u) * Radix + b
<1>1. t \in Nat /\ u \in Nat /\ WaveSize \in Nat \ {0} /\ Radix \in Nat \ {0}
  BY SizesAssumption DEF Thread
<1>2. /\ waveIndex(t) \in Nat /\ waveIndex(u) \in Nat
      /\ t = WaveSize * waveIndex(t) + lane(t)
      /\ u = WaveSize * waveIndex(u) + lane(u)
  BY <1>1, DivMod DEF waveIndex, lane
<1>3. waveIndex(t) # waveIndex(u)
  BY <1>1, <1>2
<1> QED
  BY <1>1, <1>2, <1>3, RowsAreDisjoint DEF Bucket

(* Stage by stage, what two threads touch together is disjoint, or read.   *)
LEMMA OnlyScatterConflicts ==
    ASSUME IInv, NEW t \in Thread, NEW u \in Thread, Conflict(t, u)
    PROVE  pc[t] = "scatter" /\ pc[u] = "scatter"
<1>1. t # u /\ Released(t) /\ Released(u)
  BY DEF Conflict
<1>2. PICK word : word \in Writes(t) /\ word \in Reads(u) \cup Writes(u)
  BY DEF Conflict
<1>3. pc[t] \notin {"rank", "done"} /\ pc[u] \notin {"rank", "done"}
  BY <1>2 DEF Writes, Reads
<1>4. pc[t] = pc[u]
  BY <1>1, <1>3, Rendezvous
<1>5. CASE pc[t] = "load"
  BY <1>1, <1>2, <1>4, <1>5 DEF Reads, Writes, If, Words
<1>6. CASE pc[t] = "clear"
  BY <1>1, <1>2, <1>4, <1>6 DEF Reads, Writes, If, Words
<1>7. CASE pc[t] = "count"
  <2>1. /\ word \in If(lane(t) = 0, Words("WaveBucketCounts",
                                          {waveIndex(t) * Radix + b : b \in Bucket}))
        /\ word \in If(active(u), Words("KeysA", {u}))
                    \cup If(lane(u) = 0, Words("WaveBucketCounts",
                                               {waveIndex(u) * Radix + b : b \in Bucket}))
    BY <1>2, <1>4, <1>7 DEF Reads, Writes
  <2>2. lane(t) = 0 /\ \E a \in Bucket : word = <<"WaveBucketCounts", waveIndex(t) * Radix + a>>
    BY <2>1 DEF If, Words
  <2>3. lane(u) = 0 /\ \E b \in Bucket : word = <<"WaveBucketCounts", waveIndex(u) * Radix + b>>
    BY <2>1, <2>2 DEF If, Words
  <2> QED
    BY <1>1, <2>2, <2>3, WaveRowsAreDisjoint
<1>8. CASE pc[t] = "hist"
  BY <1>1, <1>2, <1>4, <1>8 DEF Reads, Writes, If, Words
<1>9. CASE pc[t] = "offset"
  BY <1>1, <1>2, <1>4, <1>9 DEF Reads, Writes, If, Words
<1>10. CASE pc[t] = "waveoff"
  BY <1>1, <1>2, <1>4, <1>10 DEF Reads, Writes, If, Words
<1>11. CASE pc[t] = "scatter"
  BY <1>4, <1>11
<1>12. CASE pc[t] = "copy"
  BY <1>1, <1>2, <1>4, <1>12 DEF Reads, Writes, If, Words
<1>13. CASE pc[t] = "store"
  BY <1>1, <1>2, <1>4, <1>13 DEF Reads, Writes, If, Words
<1>14. pc[t] \in DOMAIN Stage
  BY DEF IInv, TypeOK
<1> QED
  BY <1>3, <1>5, <1>6, <1>7, <1>8, <1>9, <1>10, <1>11, <1>12, <1>13, <1>14, StageNames

(***************************************************************************)
(* For every group size, wave size, radix and input, and whatever the      *)
(* uninitialised register holds, the eight barriers of the shader separate *)
(* every pair of conflicting shared accesses but those of two scatters.    *)
(***************************************************************************)
THEOREM RaceFreeButScatter == Spec => []RacesOnlyInScatter
<1>1. Init => IInv
  BY InitInv
<1>2. IInv /\ [Next]_vars => IInv'
  BY StepInv
<1>3. IInv => RacesOnlyInScatter
  BY OnlyScatterConflicts DEF RacesOnlyInScatter
<1> QED
  BY <1>1, <1>2, <1>3, PTL DEF Spec

-----------------------------------------------------------------------------
(***************************************************************************)
(* Induction, as the existence of a minimal counterexample: a nonempty set *)
(* of numbers has a least element, a nonempty set of subsets of a finite   *)
(* set has one that contains no other.                                     *)
(***************************************************************************)
LEMMA LeastNumber ==
    ASSUME NEW T \in SUBSET Nat, T # {}
    PROVE  \E m \in T : \A n \in T : m <= n
<1> DEFINE lt == {p \in Nat \X Nat : p[1] < p[2]}
<1>1. IsWellFoundedOn(lt, Nat)
  BY NatLessThanWellFounded DEF OpToRel
<1>2. PICK m \in T : \A n \in T : <<n, m>> \notin lt
  BY <1>1, WFMin
<1>3. \A n \in T : ~(n < m)
  BY <1>2
<1> QED
  BY <1>3

(* The second: a smallest set of a collection of subsets.                  *)
LEMMA SmallestSubset ==
    ASSUME NEW S, IsFiniteSet(S), NEW T \in SUBSET SUBSET S, T # {}
    PROVE  \E m \in T : \A u \in T : u \subseteq m => u = m
<1>1. IsWellFoundedOn(StrictSubsetOrdering(S), SUBSET S)
  BY FS_StrictSubsetOrderingWellFounded, FS_FiniteSubsetsOfFinite
<1>2. PICK m \in T : \A u \in T : <<u, m>> \notin StrictSubsetOrdering(S)
  BY <1>1, WFMin
<1>3. \A u \in T : u \subseteq m => u = m
  BY <1>2 DEF StrictSubsetOrdering
<1> QED
  BY <1>3

-----------------------------------------------------------------------------
(***************************************************************************)
(* Sums.  SumFunctionOnSet is defined by a recursive function on the       *)
(* subsets of its set, which takes out an element chosen arbitrarily.      *)
(***************************************************************************)
Chosen(s) == CHOOSE x \in s : TRUE
SumsUp(g, f, D) ==
    g = [s \in D |-> IF s = {} THEN 0 ELSE f[Chosen(s)] + g[s \ {Chosen(s)}]]

(* There is a recursive function: on the subsets of at most n elements it  *)
(* is built from the one on those of fewer.                                *)
LEMMA SumsExist ==
    ASSUME NEW f, NEW S, IsFiniteSet(S)
    PROVE  \E g : SumsUp(g, f, SUBSET S)
<1> DEFINE Upto(n) == {s \in SUBSET S : Cardinality(s) <= n}
           Bad == {n \in Nat : ~\E g : SumsUp(g, f, Upto(n))}
<1>1. \A s \in SUBSET S : IsFiniteSet(s) /\ Cardinality(s) \in Nat /\ Cardinality(s) <= Cardinality(S)
  BY FS_Subset, FS_CardinalityType
<1>2. Cardinality(S) \in Nat
  BY FS_CardinalityType
<1>3. Upto(Cardinality(S)) = SUBSET S
  BY <1>1
<1>4. Bad = {}
  <2> SUFFICES ASSUME Bad # {} PROVE FALSE
    OBVIOUS
  <2>1. PICK n \in Bad : \A m \in Bad : n <= m
    BY LeastNumber
  <2>2. CASE n = 0
    <3>1. Upto(0) = {{}}
      BY <1>1, FS_EmptySet
    <3>2. SumsUp([s \in Upto(0) |-> 0], f, Upto(0))
      BY <3>1 DEF SumsUp
    <3> QED
      BY <2>1, <2>2, <3>2
  <2>3. CASE n # 0
    <3>1. n - 1 \in Nat /\ n - 1 \notin Bad
      <4>1. n \in Nat
        BY <2>1
      <4> HIDE DEF Bad
      <4> QED
        BY <2>1, <2>3, <4>1
    <3>2. PICK g : SumsUp(g, f, Upto(n - 1))
      BY <3>1
    <3> DEFINE h == [s \in Upto(n) |-> IF s = {} THEN 0 ELSE f[Chosen(s)] + g[s \ {Chosen(s)}]]
    <3>3. ASSUME NEW s \in Upto(n), s # {}
          PROVE  s \ {Chosen(s)} \in Upto(n - 1)
      <4>1. Chosen(s) \in s
        BY <3>3 DEF Chosen
      <4>2. Cardinality(s \ {Chosen(s)}) = Cardinality(s) - 1
        BY <1>1, <4>1, FS_RemoveElement
      <4> QED
        BY <1>1, <2>1, <3>1, <4>2
    <3>4. ASSUME NEW s \in Upto(n - 1) PROVE s \in Upto(n) /\ h[s] = g[s]
      <4>1. s \in Upto(n)
        BY <1>1, <2>1
      <4> QED
        BY <3>2, <4>1 DEF SumsUp
    <3>5. h = [s \in Upto(n) |-> IF s = {} THEN 0 ELSE f[Chosen(s)] + h[s \ {Chosen(s)}]]
      <4> HIDE DEF Upto
      <4>1. \A s \in Upto(n) : s # {} => h[s \ {Chosen(s)}] = g[s \ {Chosen(s)}]
        BY <3>3, <3>4
      <4> QED
        BY <4>1
    <3> QED
      BY <2>1, <3>5 DEF SumsUp
  <2> QED
    BY <2>2, <2>3
<1> QED
  BY <1>2, <1>3, <1>4

(* The library sum, unfolded: the value at S of such a function.           *)
LEMMA SumDef ==
    ASSUME NEW f, NEW S
    PROVE  SumFunctionOnSet(f, S) = (CHOOSE g : SumsUp(g, f, SUBSET S))[S]
BY DEF SumFunctionOnSet, FoldFunctionOnSet, MapThenFoldSet, SumsUp, Chosen

(* Two of them agree where both are defined.                               *)
LEMMA SumsAgree ==
    ASSUME NEW f, NEW S, IsFiniteSet(S), NEW s \in SUBSET S, NEW g, NEW h,
           SumsUp(g, f, SUBSET S), SumsUp(h, f, SUBSET s)
    PROVE  g[s] = h[s]
<1> DEFINE Bad == {u \in SUBSET s : g[u] # h[u]}
<1> SUFFICES ASSUME Bad # {} PROVE FALSE
  OBVIOUS
<1>1. Bad \in SUBSET SUBSET S
  OBVIOUS
<1>2. PICK u \in Bad : \A v \in Bad : v \subseteq u => v = u
  <2> HIDE DEF Bad
  <2> QED
    BY <1>1, SmallestSubset
<1>3. u # {}
  BY <1>2 DEF SumsUp
<1>4. Chosen(u) \in u
  BY <1>3 DEF Chosen
<1> DEFINE v == u \ {Chosen(u)}
<1>5. v \subseteq u /\ v # u /\ v \in SUBSET s
  BY <1>4
<1>6. g[v] = h[v]
  BY <1>2, <1>5
<1>7. g[u] = f[Chosen(u)] + g[v] /\ h[u] = f[Chosen(u)] + h[v]
  BY <1>2, <1>3 DEF SumsUp
<1> QED
  BY <1>2, <1>6, <1>7

(* A sum takes out the chosen element.                                     *)
LEMMA SumChosen ==
    ASSUME NEW f, NEW S, IsFiniteSet(S), S # {}
    PROVE  /\ Chosen(S) \in S
           /\ SumFunctionOnSet(f, S) = f[Chosen(S)] + SumFunctionOnSet(f, S \ {Chosen(S)})
<1> DEFINE s == S \ {Chosen(S)}
           g == CHOOSE i : SumsUp(i, f, SUBSET S)
           h == CHOOSE i : SumsUp(i, f, SUBSET s)
<1>1. Chosen(S) \in S
  BY DEF Chosen
<1>2. IsFiniteSet(s) /\ s \in SUBSET S
  BY FS_Subset
<1>3. SumsUp(g, f, SUBSET S) /\ SumsUp(h, f, SUBSET s)
  BY <1>2, SumsExist
<1> HIDE DEF g, h
<1>4. g[s] = h[s]
  <2>1. \A u \in SUBSET S : \A a, b : SumsUp(a, f, SUBSET S) /\ SumsUp(b, f, SUBSET u) => a[u] = b[u]
    BY SumsAgree
  <2> QED
    BY <1>2, <1>3, <2>1
<1>5. g[S] = f[Chosen(S)] + g[s]
  BY <1>3 DEF SumsUp
<1>6. SumFunctionOnSet(f, S) = g[S] /\ SumFunctionOnSet(f, s) = h[s]
  BY SumDef DEF g, h
<1> QED
  BY <1>1, <1>4, <1>5, <1>6

(* A sum of nothing is 0.                                                  *)
LEMMA SumEmpty ==
    ASSUME NEW f
    PROVE  SumFunctionOnSet(f, {}) = 0
<1> DEFINE g == CHOOSE i : SumsUp(i, f, SUBSET {})
<1>1. SumsUp(g, f, SUBSET {})
  BY SumsExist, FS_EmptySet
<1>2. g[{}] = 0
  BY <1>1 DEF SumsUp
<1> QED
  BY <1>2, SumDef

(* A sum of numbers is a number.                                           *)
LEMMA SumType ==
    ASSUME NEW f, NEW S, IsFiniteSet(S), \A x \in S : f[x] \in Nat
    PROVE  SumFunctionOnSet(f, S) \in Nat
<1> DEFINE Bad == {u \in SUBSET S : SumFunctionOnSet(f, u) \notin Nat}
<1> SUFFICES ASSUME Bad # {} PROVE FALSE
  OBVIOUS
<1>1. PICK u \in Bad : \A v \in Bad : v \subseteq u => v = u
  <2>1. Bad \in SUBSET SUBSET S
    OBVIOUS
  <2> HIDE DEF Bad
  <2> QED
    BY <2>1, SmallestSubset
<1>2. u # {}
  <2>1. \A v \in Bad : SumFunctionOnSet(f, v) \notin Nat
    OBVIOUS
  <2>2. SumFunctionOnSet(f, {}) \in Nat
    BY SumEmpty
  <2> QED
    BY <1>1, <2>1, <2>2
<1>3. IsFiniteSet(u)
  BY <1>1, FS_Subset
<1> DEFINE v == u \ {Chosen(u)}
<1>4. Chosen(u) \in u /\ SumFunctionOnSet(f, u) = f[Chosen(u)] + SumFunctionOnSet(f, v)
  BY <1>2, <1>3, SumChosen
<1>5. v \subseteq u /\ v # u /\ v \in SUBSET S
  BY <1>1, <1>4
<1>6. SumFunctionOnSet(f, v) \in Nat
  BY <1>1, <1>5
<1> QED
  BY <1>1, <1>4, <1>6

(***************************************************************************)
(* The order does not matter: any element may be taken out first.          *)
(***************************************************************************)
LEMMA SumTakesOut ==
    ASSUME NEW f, NEW S, IsFiniteSet(S), \A y \in S : f[y] \in Nat, NEW z \in S
    PROVE  SumFunctionOnSet(f, S) = f[z] + SumFunctionOnSet(f, S \ {z})
<1> DEFINE Sum(u) == SumFunctionOnSet(f, u)
           Bad == {u \in SUBSET S : \E x \in u : Sum(u) # f[x] + Sum(u \ {x})}
<1> SUFFICES ASSUME Bad # {} PROVE FALSE
  <2> HIDE DEF Sum
  <2>1. \A u \in SUBSET S : \A x \in u : u \notin Bad => Sum(u) = f[x] + Sum(u \ {x})
    OBVIOUS
  <2> QED
    BY <2>1 DEF Sum
<1>1. PICK u \in Bad : \A v \in Bad : v \subseteq u => v = u
  <2>1. Bad \in SUBSET SUBSET S
    OBVIOUS
  <2> HIDE DEF Bad
  <2> QED
    BY <2>1, SmallestSubset
<1>2. \A v \in SUBSET S : IsFiniteSet(v)
  BY FS_Subset
<1>3. \A v \in SUBSET S : Sum(v) \in Nat
  BY <1>2, SumType
<1>4. \A v \in SUBSET S : v # {} => Chosen(v) \in v /\ Sum(v) = f[Chosen(v)] + Sum(v \ {Chosen(v)})
  BY <1>2, SumChosen
<1> HIDE DEF Sum
<1>0. PICK x \in u : Sum(u) # f[x] + Sum(u \ {x})
  BY <1>1
<1> DEFINE c == Chosen(u)
           v == u \ {c}
<1>5. u \in SUBSET S /\ x \in u /\ c \in u /\ Sum(u) = f[c] + Sum(v)
  BY <1>1, <1>4
<1>6. c # x
  BY <1>0, <1>5
<1> HIDE DEF c
<1>7. Sum(v) = f[x] + Sum(v \ {x})
  <2>1. v \subseteq u /\ v # u /\ v \in SUBSET S /\ x \in v
    BY <1>5, <1>6
  <2>2. v \notin Bad
    BY <1>1, <2>1
  <2> QED
    BY <2>1, <2>2
<1>8. Sum(u \ {x}) = f[c] + Sum(v \ {x})
  <2> DEFINE w == u \ {x}
  <2>1. w \subseteq u /\ w # u /\ w \in SUBSET S /\ c \in w
    BY <1>0, <1>5, <1>6
  <2>2. w \notin Bad
    BY <1>1, <2>1
  <2>3. Sum(w) = f[c] + Sum(w \ {c})
    BY <2>1, <2>2
  <2>4. w \ {c} = v \ {x}
    OBVIOUS
  <2> QED
    BY <2>3, <2>4
<1>9. f[c] \in Nat /\ f[x] \in Nat /\ Sum(v \ {x}) \in Nat
  BY <1>0, <1>3, <1>5
<1> QED
  BY <1>0, <1>5, <1>7, <1>8, <1>9

(***************************************************************************)
(* Counting by parts: the sizes of disjoint sets add up to the size of     *)
(* their union.                                                            *)
(***************************************************************************)
LEMMA SumOfSizes ==
    ASSUME NEW S, IsFiniteSet(S), NEW T, IsFiniteSet(T), NEW A \in [S -> SUBSET T], NEW f,
           \A x, y \in S : x # y => A[x] \cap A[y] = {},
           \A x \in S : f[x] = Cardinality(A[x])
    PROVE  SumFunctionOnSet(f, S) = Cardinality(UNION {A[x] : x \in S})
<1> DEFINE All(u) == UNION {A[x] : x \in u}
           Bad == {u \in SUBSET S : SumFunctionOnSet(f, u) # Cardinality(All(u))}
<1> SUFFICES ASSUME Bad # {} PROVE FALSE
  OBVIOUS
<1>1. PICK u \in Bad : \A v \in Bad : v \subseteq u => v = u
  <2>1. Bad \in SUBSET SUBSET S
    OBVIOUS
  <2> HIDE DEF Bad
  <2> QED
    BY <2>1, SmallestSubset
<1>2. u \in SUBSET S /\ SumFunctionOnSet(f, u) # Cardinality(All(u))
  BY <1>1
<1>3. u # {}
  <2>1. SumFunctionOnSet(f, {}) = 0
    BY SumEmpty
  <2>2. Cardinality(All({})) = 0
    BY FS_EmptySet
  <2> HIDE DEF All
  <2> QED
    BY <1>2, <2>1, <2>2
<1>4. IsFiniteSet(u)
  BY <1>2, FS_Subset
<1> DEFINE c == Chosen(u)
           v == u \ {c}
<1>5. c \in u /\ SumFunctionOnSet(f, u) = f[c] + SumFunctionOnSet(f, v)
  BY <1>3, <1>4, SumChosen
<1> HIDE DEF c
<1>6. v \subseteq u /\ v # u /\ v \in SUBSET S
  BY <1>2, <1>5
<1>7. SumFunctionOnSet(f, v) = Cardinality(All(v))
  <2>1. v \notin Bad
    <3> HIDE DEF Bad
    <3> QED
      BY <1>1, <1>6
  <2> QED
    BY <1>6, <2>1
<1>8. All(u) = A[c] \cup All(v)
  BY <1>5
<1>9. A[c] \cap All(v) = {}
  BY <1>2, <1>5
<1>10. IsFiniteSet(A[c]) /\ IsFiniteSet(All(v))
  <2>1. A[c] \in SUBSET T /\ All(v) \in SUBSET T
    BY <1>2, <1>5
  <2> QED
    BY <2>1, FS_Subset
<1>11. Cardinality(A[c] \cup All(v)) = Cardinality(A[c]) + Cardinality(All(v))
  <2> HIDE DEF All
  <2>1. Cardinality(A[c] \cap All(v)) = 0
    BY <1>9, FS_EmptySet
  <2>2. Cardinality(A[c]) \in Nat /\ Cardinality(All(v)) \in Nat
    BY <1>10, FS_CardinalityType
  <2>3. Cardinality(A[c] \cup All(v))
          = Cardinality(A[c]) + Cardinality(All(v)) - Cardinality(A[c] \cap All(v))
    BY <1>10, FS_Union
  <2> QED
    BY <2>1, <2>2, <2>3
<1>12. f[c] = Cardinality(A[c])
  BY <1>2, <1>5
<1> HIDE DEF All, v
<1> QED
  BY <1>2, <1>5, <1>7, <1>8, <1>11, <1>12

-----------------------------------------------------------------------------
(***************************************************************************)
(* Stable ranks.  Earlier(v, i) are the slots that a stable sort by the    *)
(* values v puts before slot i.                                            *)
(***************************************************************************)
Earlier(v, i) == {j \in DOMAIN v : v[j] < v[i] \/ (v[j] = v[i] /\ j < i)}
Place(v, i)   == Cardinality(Earlier(v, i))

(* Ranks are ordered as the values are, and equal values as the slots.     *)
LEMMA PlacesAreOrdered ==
    ASSUME NEW n \in Nat, NEW v \in [0 .. (n - 1) -> Nat],
           NEW i \in 0 .. (n - 1), NEW j \in 0 .. (n - 1),
           v[i] < v[j] \/ (v[i] = v[j] /\ i < j)
    PROVE  Place(v, i) < Place(v, j)
<1> DEFINE D == 0 .. (n - 1)
<1>1. IsFiniteSet(D)
  BY FS_Interval
<1>2. Earlier(v, i) \subseteq Earlier(v, j) /\ i \in Earlier(v, j) /\ i \notin Earlier(v, i)
  <2>1. i \in Earlier(v, j) /\ i \notin Earlier(v, i)
    BY DEF Earlier
  <2>2. ASSUME NEW k \in D, v[k] < v[i] \/ (v[k] = v[i] /\ k < i)
        PROVE  v[k] < v[j] \/ (v[k] = v[j] /\ k < j)
    <3>1. v[k] \in Nat /\ v[i] \in Nat /\ v[j] \in Nat /\ k \in Nat /\ i \in Nat /\ j \in Nat
      OBVIOUS
    <3> QED
      BY <2>2, <3>1
  <2> QED
    BY <2>1, <2>2 DEF Earlier
<1>3. Earlier(v, j) \in SUBSET D
  BY DEF Earlier
<1>4. IsFiniteSet(Earlier(v, j)) /\ IsFiniteSet(Earlier(v, i))
  BY <1>1, <1>2, <1>3, FS_Subset
<1>5. Place(v, i) <= Place(v, j) /\ Place(v, i) # Place(v, j)
  BY <1>2, <1>4, FS_Subset DEF Place
<1>6. Place(v, i) \in Nat /\ Place(v, j) \in Nat
  BY <1>4, FS_CardinalityType DEF Place
<1> QED
  BY <1>5, <1>6

(* A rank is a slot.                                                       *)
LEMMA PlacesAreSlots ==
    ASSUME NEW n \in Nat, NEW v \in [0 .. (n - 1) -> Nat], NEW i \in 0 .. (n - 1)
    PROVE  Place(v, i) \in 0 .. (n - 1)
<1> DEFINE D == 0 .. (n - 1)
<1>1. IsFiniteSet(D) /\ Cardinality(D) = n
  BY FS_Interval
<1>2. Earlier(v, i) \in SUBSET D /\ i \in D /\ i \notin Earlier(v, i)
  BY DEF Earlier
<1>3. Place(v, i) \in Nat /\ Place(v, i) <= n /\ Place(v, i) # n
  BY <1>1, <1>2, FS_Subset, FS_CardinalityType DEF Place
<1> QED
  BY <1>3

(* Different slots have different ranks, and every slot is the rank of one.*)
LEMMA PlacesDiffer ==
    ASSUME NEW n \in Nat, NEW v \in [0 .. (n - 1) -> Nat],
           NEW i \in 0 .. (n - 1), NEW j \in 0 .. (n - 1), i # j
    PROVE  Place(v, i) # Place(v, j)
<1>1. \/ v[i] < v[j] \/ (v[i] = v[j] /\ i < j)
      \/ v[j] < v[i] \/ (v[j] = v[i] /\ j < i)
  <2>1. v[i] \in Nat /\ v[j] \in Nat /\ i \in Nat /\ j \in Nat
    OBVIOUS
  <2> QED
    BY <2>1
<1>2. Place(v, i) \in Nat /\ Place(v, j) \in Nat
  BY PlacesAreSlots
<1>3. Place(v, i) < Place(v, j) \/ Place(v, j) < Place(v, i)
  BY <1>1, PlacesAreOrdered
<1> QED
  BY <1>2, <1>3

(* Every slot is the rank of a slot: a pass leaves no hole in KeysB.       *)
LEMMA PlacesCover ==
    ASSUME NEW n \in Nat, NEW v \in [0 .. (n - 1) -> Nat], NEW p \in 0 .. (n - 1)
    PROVE  \E i \in 0 .. (n - 1) : Place(v, i) = p
<1> DEFINE D == 0 .. (n - 1)
           r == [i \in D |-> Place(v, i)]
<1>1. r \in [D -> D]
  BY PlacesAreSlots
<1>2. \A i, j \in D : r[i] = r[j] => i = j
  BY PlacesDiffer
<1>3. r \in Injection(D, D)
  BY <1>1, <1>2 DEF Injection, IsInjective
<1>4. IsFiniteSet(D)
  BY FS_Interval
<1>5. r \in Surjection(D, D)
  BY <1>3, <1>4, FS_Injection
<1> QED
  BY <1>5 DEF Surjection

-----------------------------------------------------------------------------
(***************************************************************************)
(* How far threads are from each other.                                    *)
(***************************************************************************)
AfterClear  == {"count", "hist", "offset", "waveoff", "rank", "scatter", "copy"}
AfterCount  == {"hist", "offset", "waveoff", "rank", "scatter", "copy"}
AfterHist   == {"offset", "waveoff", "rank", "scatter", "copy"}
AfterOffset == {"waveoff", "rank", "scatter", "copy"}
AfterPrefix == {"rank", "scatter", "copy"}

(* No thread is more than one barrier ahead of another, and who scatters   *)
(* is not ahead of anyone.                                                 *)
Spread == \A t, u \in Thread : Interval(t) <= Interval(u) + 1
Ahead  == \A t \in Thread : pc[t] = "scatter" => Released(t)

Control == IInv /\ Spread /\ Ahead

(* Barriers passed and passes made are numbers.                            *)
LEMMA IntervalType == IInv => \A t \in Thread : Interval(t) \in Nat /\ pass[t] \in Nat
BY SizesAssumption DEF IInv, TypeOK, Interval, Stage

(* A step moves only threads that wait for no other, by one barrier.       *)
LEMMA Advances ==
    ASSUME IInv, [Next]_vars
    PROVE  \A u \in Thread : \/ Interval(u)' = Interval(u)
                             \/ Released(u) /\ Interval(u)' = Interval(u) + 1
<1> USE DEF IInv
<1>1. ASSUME NEW t \in Thread, NEW from, NEW to \in DOMAIN Stage, Goto(t, from, to), UNCHANGED pass,
             from \in DOMAIN Stage, Stage[to] = Stage[from] + 1 \/ Stage[to] = Stage[from]
      PROVE  \A u \in Thread : \/ Interval(u)' = Interval(u)
                               \/ Released(u) /\ Interval(u)' = Interval(u) + 1
  <2> SUFFICES ASSUME NEW u \in Thread
               PROVE  \/ Interval(u)' = Interval(u)
                      \/ Released(u) /\ Interval(u)' = Interval(u) + 1
    OBVIOUS
  <2>1. CASE u # t
    BY <1>1, <2>1 DEF Goto, TypeOK, Interval
  <2>2. CASE u = t
    <3>1. pc[t] = from /\ pc'[t] = to /\ Released(t)
      BY <1>1 DEF Goto, TypeOK
    <3>2. pass[t] \in Nat /\ Stage[from] \in Nat /\ Stage[to] \in Nat
      BY <1>1, IntervalType, StageNames DEF Stage
    <3>3. Interval(t) = 7 * pass[t] + Stage[from] /\ Interval(t)' = 7 * pass[t] + Stage[to]
      BY <1>1, <3>1 DEF Interval
    <3> QED
      BY <1>1, <2>2, <3>1, <3>2, <3>3
  <2> QED
    BY <2>1, <2>2
<1>2. ASSUME NEW w \in Wave, NEW from, NEW to \in DOMAIN Stage, WaveGoto(w, from, to), UNCHANGED pass,
             from \in DOMAIN Stage, Stage[to] = Stage[from] + 1 \/ Stage[to] = Stage[from]
      PROVE  \A u \in Thread : \/ Interval(u)' = Interval(u)
                               \/ Released(u) /\ Interval(u)' = Interval(u) + 1
  <2> SUFFICES ASSUME NEW u \in Thread
               PROVE  \/ Interval(u)' = Interval(u)
                      \/ Released(u) /\ Interval(u)' = Interval(u) + 1
    OBVIOUS
  <2>1. CASE waveIndex(u) # w
    BY <1>2, <2>1 DEF WaveGoto, TypeOK, Interval
  <2>2. CASE waveIndex(u) = w
    <3>1. pc[u] = from /\ pc'[u] = to /\ Released(u)
      BY <1>2, <2>2 DEF WaveGoto, Lanes
    <3>2. pass[u] \in Nat /\ Stage[from] \in Nat /\ Stage[to] \in Nat
      BY <1>2, IntervalType, StageNames DEF Stage
    <3>3. Interval(u) = 7 * pass[u] + Stage[from] /\ Interval(u)' = 7 * pass[u] + Stage[to]
      BY <1>2, <3>1 DEF Interval
    <3> QED
      BY <1>2, <3>1, <3>2, <3>3
  <2> QED
    BY <2>1, <2>2
<1> DEFINE Step(from, to) == from \in DOMAIN Stage /\ to \in DOMAIN Stage
                             /\ (Stage[to] = Stage[from] + 1 \/ Stage[to] = Stage[from])
<1>3. /\ Step("load", "clear") /\ Step("clear", "count") /\ Step("count", "hist")
      /\ Step("hist", "offset") /\ Step("offset", "waveoff") /\ Step("waveoff", "rank")
      /\ Step("rank", "scatter") /\ Step("scatter", "copy") /\ Step("store", "done")
  BY DEF Stage
<1> HIDE DEF Step
<1>4. ASSUME NEW t \in Thread, CopyBack(t)
      PROVE  \A u \in Thread : \/ Interval(u)' = Interval(u)
                               \/ Released(u) /\ Interval(u)' = Interval(u) + 1
  <2> SUFFICES ASSUME NEW u \in Thread
               PROVE  \/ Interval(u)' = Interval(u)
                      \/ Released(u) /\ Interval(u)' = Interval(u) + 1
    OBVIOUS
  <2>1. CASE u # t
    BY <1>4, <2>1 DEF CopyBack, Goto, TypeOK, Interval
  <2>2. CASE u = t
    <3>1. pc[t] = "copy" /\ pc'[t] \in {"store", "clear"} /\ Released(t) /\ pass'[t] = pass[t] + 1
      BY <1>4 DEF CopyBack, Goto, TypeOK
    <3>2. pass[t] \in Nat /\ Stage["copy"] = 7 /\ Stage["store"] = 1 /\ Stage["clear"] = 1
      BY IntervalType DEF Stage
    <3>3. Interval(t) = 7 * pass[t] + 7 /\ Interval(t)' = 7 * (pass[t] + 1) + 1
      BY <3>1, <3>2 DEF Interval
    <3> QED
      BY <2>2, <3>1, <3>2, <3>3
  <2> QED
    BY <2>1, <2>2
<1>5. CASE UNCHANGED vars
  BY <1>5 DEF vars, Interval
<1>6. CASE \E t \in Thread : ThreadStep(t)
  <2>1. PICK t \in Thread : ThreadStep(t)
    BY <1>6
  <2>2. CASE \/ LoadInput(t) \/ ClearTables(t) \/ SumOverWaves(t) \/ PrefixOverBuckets(t)
             \/ PrefixOverWaves(t) \/ Scatter(t) \/ StoreOutput(t)
    <3>1. UNCHANGED pass
      BY <2>2 DEF LoadInput, ClearTables, SumOverWaves, PrefixOverBuckets, PrefixOverWaves, Scatter,
                  StoreOutput
    <3>2. \/ Goto(t, "load", "clear") \/ Goto(t, "clear", "count") \/ Goto(t, "hist", "offset")
          \/ Goto(t, "offset", "waveoff") \/ Goto(t, "waveoff", "rank") \/ Goto(t, "scatter", "copy")
          \/ Goto(t, "store", "done")
      BY <2>2 DEF LoadInput, ClearTables, SumOverWaves, PrefixOverBuckets, PrefixOverWaves, Scatter,
                  StoreOutput
    <3>3. \E from, to : Goto(t, from, to) /\ Step(from, to)
      BY <1>3, <3>2
    <3> QED
      BY <1>1, <3>1, <3>3 DEF Step
  <2> QED
    BY <1>4, <2>1, <2>2 DEF ThreadStep
<1>7. CASE \E w \in Wave : WaveStep(w)
  <2>1. PICK w \in Wave : WaveStep(w)
    BY <1>7
  <2>2. UNCHANGED pass /\ (WaveGoto(w, "count", "hist") \/ WaveGoto(w, "rank", "scatter"))
    BY <2>1 DEF WaveStep, CountInWave, RankInWave
  <2>3. \E from, to : WaveGoto(w, from, to) /\ Step(from, to)
    BY <1>3, <2>2
  <2> QED
    BY <1>2, <2>2, <2>3 DEF Step
<1> QED
  BY <1>5, <1>6, <1>7 DEF Next, Finished

(* Nobody falls further behind than one barrier.                           *)
LEMMA StepControl ==
    ASSUME Control, [Next]_vars
    PROVE  Control'
<1>1. IInv /\ IInv'
  BY StepInv DEF Control
<1>2. \A u \in Thread : \/ Interval(u)' = Interval(u)
                        \/ Released(u) /\ Interval(u)' = Interval(u) + 1
  BY <1>1, Advances
<1>3. \A u \in Thread : Interval(u) \in Nat
  BY <1>1, IntervalType
<1>4. Spread'
  <2> SUFFICES ASSUME NEW t \in Thread, NEW u \in Thread
               PROVE  Interval(t)' <= Interval(u)' + 1
    BY DEF Spread
  <2>1. Interval(u) <= Interval(u)' /\ Interval(u)' \in Nat
    BY <1>2, <1>3
  <2>2. Interval(t) <= Interval(u) + 1
    BY DEF Control, Spread
  <2>3. Released(t) => Interval(t) <= Interval(u)
    BY DEF Released
  <2> QED
    BY <1>2, <1>3, <2>1, <2>2, <2>3
<1>5. ASSUME NEW t \in Thread, Released(t), Interval(t)' = Interval(t)
      PROVE  Released(t)'
  <2>1. \A u \in Thread : Interval(t) <= Interval(u) /\ Interval(u) <= Interval(u)'
    BY <1>2, <1>3, <1>5 DEF Released
  <2>2. \A u \in Thread : Interval(u)' \in Nat
    BY <1>2, <1>3
  <2> QED
    BY <1>3, <1>5, <2>1, <2>2 DEF Released
<1>6. Ahead'
  <2> SUFFICES ASSUME NEW t \in Thread, pc'[t] = "scatter"
               PROVE  Released(t) /\ Interval(t)' = Interval(t)
    BY <1>5 DEF Ahead
  <2> USE DEF IInv
  <2>1. ASSUME pc[t] = "rank" \/ pc[t] = "scatter", pass'[t] = pass[t]
        PROVE  Interval(t)' = Interval(t)
    <3>1. Stage["rank"] = 6 /\ Stage["scatter"] = 6
      BY DEF Stage
    <3> QED
      BY <2>1, <3>1 DEF Interval
  <2>2. CASE \E u \in Thread : ThreadStep(u)
    <3>1. PICK u \in Thread : ThreadStep(u)
      BY <2>2
    <3>2. pc'[u] # "scatter" /\ \A v \in Thread : v # u => pc'[v] = pc[v] /\ pass'[v] = pass[v]
      BY <1>1, <3>1 DEF ThreadStep, LoadInput, ClearTables, SumOverWaves, PrefixOverBuckets,
                        PrefixOverWaves, Scatter, CopyBack, StoreOutput, Goto, TypeOK
    <3> QED
      BY <2>1, <3>2 DEF Control, Ahead
  <2>3. CASE \E w \in Wave : WaveStep(w)
    <3>1. PICK w \in Wave : WaveStep(w)
      BY <2>3
    <3>2. CASE CountInWave(w)
      BY <2>1, <3>2 DEF CountInWave, WaveGoto, Control, Ahead
    <3>3. CASE RankInWave(w)
      <4>1. CASE waveIndex(t) = w
        <5>1. t \in Lanes(w)
          BY <4>1 DEF Lanes
        <5>2. pc[t] = "rank" /\ Released(t)
          BY <3>3, <5>1 DEF RankInWave, WaveGoto
        <5> QED
          BY <2>1, <3>3, <5>2 DEF RankInWave
      <4>2. CASE waveIndex(t) # w
        <5>1. pc[t] = "scatter"
          BY <3>3, <4>2 DEF RankInWave, WaveGoto
        <5> QED
          BY <2>1, <3>3, <5>1 DEF RankInWave, Control, Ahead
      <4> QED
        BY <4>1, <4>2
    <3> QED
      BY <3>1, <3>2, <3>3 DEF WaveStep
  <2>4. CASE UNCHANGED vars
    BY <2>1, <2>4 DEF vars, Control, Ahead, Interval
  <2> QED
    BY <2>2, <2>3, <2>4 DEF Next, Finished
<1> QED
  BY <1>1, <1>4, <1>6 DEF Control

(* All threads start together.                                             *)
LEMMA InitControl == Init => Control
<1> SUFFICES ASSUME Init PROVE Control
  OBVIOUS
<1>1. IInv
  BY InitInv
<1>2. \A t \in Thread : pc[t] = "load" /\ pass[t] = 0 /\ Interval(t) = 0
  BY DEF Init, Interval, Stage
<1> QED
  BY <1>1, <1>2 DEF Control, Spread, Ahead

(* Where the others can be while a thread waits for nobody: in its stage,  *)
(* or in the next.                                                         *)
LEMMA Nearby ==
    ASSUME Control, NEW u \in Thread, Released(u), NEW t \in Thread
    PROVE  /\ pc[u] = "load"    => pc[t] \in {"load", "clear"}
           /\ pc[u] = "clear"   => pc[t] \in {"clear", "count"}
           /\ pc[u] = "count"   => pc[t] \in {"count", "hist"}
           /\ pc[u] = "hist"    => pc[t] \in {"hist", "offset"}
           /\ pc[u] = "offset"  => pc[t] \in {"offset", "waveoff"}
           /\ pc[u] = "waveoff" => pc[t] \in {"waveoff", "rank", "scatter"}
           /\ pc[u] \in {"rank", "scatter"} => pc[t] \in AfterPrefix
           /\ pc[u] = "copy"    => pc[t] \in {"copy", "clear", "store", "done"}
           /\ pc[u] \in {"store", "done"} => pc[t] \in {"store", "done"}
           /\ IF pc[u] = "copy" /\ pc[t] # "copy" THEN pass[t] = pass[u] + 1 ELSE pass[t] = pass[u]
<1> DEFINE p == pass[t]  q == pass[u]  a == Stage[pc[t]]  b == Stage[pc[u]]
<1>1. /\ p \in Nat /\ q \in Nat /\ Digits \in Nat
      /\ pc[t] \in DOMAIN Stage /\ pc[u] \in DOMAIN Stage
  BY SizesAssumption DEF Control, IInv, TypeOK
<1>2. /\ pc[t] = "load" => p = 0
      /\ pc[u] = "load" => q = 0
      /\ pc[t] \in {"store", "done"} => p = Digits
      /\ pc[u] \in {"store", "done"} => q = Digits
      /\ pc[t] \notin {"store", "done"} => p < Digits
      /\ pc[u] \notin {"store", "done"} => q < Digits
  BY DEF Control, IInv, PassMatchesPc
<1>3. ASSUME NEW s \in DOMAIN Stage
      PROVE  /\ Stage[s] \in 0 .. 7
             /\ Stage[s] = 0 <=> s = "load"
             /\ Stage[s] = 1 <=> s \in {"clear", "store", "done"}
             /\ Stage[s] = 2 <=> s = "count"
             /\ Stage[s] = 3 <=> s = "hist"
             /\ Stage[s] = 4 <=> s = "offset"
             /\ Stage[s] = 5 <=> s = "waveoff"
             /\ Stage[s] = 6 <=> s \in {"rank", "scatter"}
             /\ Stage[s] = 7 <=> s = "copy"
  BY StageNames DEF Stage
<1>4. 7 * q + b <= 7 * p + a /\ 7 * p + a <= 7 * q + b + 1
  BY DEF Control, Spread, Released, Interval
<1>5. \/ p = q /\ (a = b \/ a = b + 1)
      \/ p = q + 1 /\ b = 7 /\ a = 1
  <2>1. a \in 0 .. 7 /\ b \in 0 .. 7 /\ (a = 0 => p = 0) /\ (b = 0 => q = 0)
    BY <1>1, <1>2, <1>3
  <2> HIDE DEF p, q, a, b
  <2>2. p = q \/ p = q + 1
    BY <1>1, <1>4, <2>1
  <2>3. CASE p = q
    BY <1>1, <1>4, <2>1, <2>3
  <2>4. CASE p = q + 1
    <3>1. a # 0
      BY <1>1, <2>1, <2>4
    <3>2. 7 + a <= b + 1
      BY <1>1, <1>4, <2>1, <2>4
    <3> QED
      BY <2>1, <2>4, <3>1, <3>2
  <2> QED
    BY <2>2, <2>3, <2>4
<1>6. /\ b = 0 <=> pc[u] = "load"
      /\ b = 1 <=> pc[u] \in {"clear", "store", "done"}
      /\ b = 2 <=> pc[u] = "count"
      /\ b = 3 <=> pc[u] = "hist"
      /\ b = 4 <=> pc[u] = "offset"
      /\ b = 5 <=> pc[u] = "waveoff"
      /\ b = 6 <=> pc[u] \in {"rank", "scatter"}
      /\ b = 7 <=> pc[u] = "copy"
      /\ a \in 0 .. 7 /\ b \in 0 .. 7
  BY <1>1, <1>3
<1>7. /\ a = 0 <=> pc[t] = "load"
      /\ a = 1 <=> pc[t] \in {"clear", "store", "done"}
      /\ a = 2 <=> pc[t] = "count"
      /\ a = 3 <=> pc[t] = "hist"
      /\ a = 4 <=> pc[t] = "offset"
      /\ a = 5 <=> pc[t] = "waveoff"
      /\ a = 6 <=> pc[t] \in {"rank", "scatter"}
      /\ a = 7 <=> pc[t] = "copy"
  BY <1>1, <1>3
<1> HIDE DEF p, q, a, b
<1>8. pc[u] = "copy" => pc[t] \in {"copy", "clear", "store", "done"}
                        /\ (pc[t] = "copy" => p = q) /\ (pc[t] # "copy" => p = q + 1)
  BY <1>1, <1>5, <1>6, <1>7
<1>9. pc[u] # "copy" => p = q /\ (a = b \/ a = b + 1)
  BY <1>5, <1>6
<1>10. /\ pc[u] = "load"    => pc[t] \in {"load", "clear"}
       /\ pc[u] = "clear"   => pc[t] \in {"clear", "count"}
       /\ pc[u] \in {"store", "done"} => pc[t] \in {"store", "done"}
  BY <1>1, <1>2, <1>6, <1>7, <1>9
<1>11. /\ pc[u] = "count"   => pc[t] \in {"count", "hist"}
       /\ pc[u] = "hist"    => pc[t] \in {"hist", "offset"}
       /\ pc[u] = "offset"  => pc[t] \in {"offset", "waveoff"}
  BY <1>6, <1>7, <1>9
<1>12. /\ pc[u] = "waveoff" => pc[t] \in {"waveoff", "rank", "scatter"}
       /\ pc[u] \in {"rank", "scatter"} => pc[t] \in AfterPrefix
  BY <1>6, <1>7, <1>9 DEF AfterPrefix
<1> QED
  BY <1>8, <1>9, <1>10, <1>11, <1>12 DEF p, q

-----------------------------------------------------------------------------
(***************************************************************************)
(* The tables.  That every wave has a row of its own is what the 8 rows of *)
(* line 26 are for.                                                        *)
(***************************************************************************)
FitsTable == GroupSize <= WaveNb * WaveSize

InBucket(b) == {t \in Thread : active(t) /\ bucket[t] = b}
Below(b)    == {t \in Thread : active(t) /\ bucket[t] < b}
InRow(w, b) == {t \in Lanes(w) : active(t) /\ bucket[t] = b}

(* A row that no wave has stays 0, and a wave's row has its counts.        *)
Zeroed  == \A c \in Cell : pc[c] \in AfterClear /\ Lanes(c \div Radix) = {} => WaveBucketCounts[c] = 0
Counted ==
    \A t \in Thread, b \in Bucket : pc[t] \in AfterCount =>
        WaveBucketCounts[waveIndex(t) * Radix + b] = Cardinality(InRow(waveIndex(t), b))

(* What the thread of a bucket wrote, once it has.                         *)
Totalled == \A b \in Bucket : pc[b] \in AfterHist => Hist[b] = Cardinality(InBucket(b))
Started  == \A b \in Bucket : pc[b] \in AfterOffset => BucketOffset[b] = Cardinality(Below(b))

Tables == Control /\ Zeroed /\ Counted /\ Totalled /\ Started

(* Every bucket and every cell of the tables has a thread of its own.      *)
LEMMA OneThreadEach == Bucket \subseteq Thread /\ Cell \subseteq Thread
<1>1. Radix <= GroupSize /\ WaveNb * Radix <= GroupSize
  BY SizesAssumption
<1>2. Radix \in Nat /\ GroupSize \in Nat /\ WaveNb * Radix \in Nat
  BY SizesAssumption
<1> DEFINE cells == WaveNb * Radix
<1>3. cells \in Nat /\ cells <= GroupSize
  BY <1>1, <1>2
<1> HIDE DEF cells
<1>4. 0 .. (cells - 1) \subseteq Thread
  BY <1>2, <1>3 DEF Thread
<1> QED
  BY <1>1, <1>2, <1>4 DEF Bucket, Cell, Thread, cells

(* The cell of a row and a bucket.                                         *)
LEMMA CellOf ==
    ASSUME NEW w \in 0 .. (WaveNb - 1), NEW b \in Bucket
    PROVE  w * Radix + b \in Cell /\ (w * Radix + b) \div Radix = w /\ (w * Radix + b) % Radix = b
<1>1. w \in Nat /\ b \in Nat /\ Radix \in Nat \ {0} /\ WaveNb \in Nat /\ b < Radix /\ w < WaveNb
  BY SizesAssumption DEF Bucket
<1>2. w * Radix + b < WaveNb * Radix /\ w * Radix + b \in Nat /\ WaveNb * Radix \in Nat
  <2>1. PICK k \in Nat : WaveNb = w + 1 + k
    <3>1. WaveNb - w - 1 \in Nat /\ WaveNb = w + 1 + (WaveNb - w - 1)
      BY <1>1
    <3> QED
      BY <3>1
  <2>2. WaveNb * Radix = w * Radix + Radix + k * Radix
    BY <1>1, <2>1
  <2>3. k * Radix \in Nat /\ w * Radix \in Nat
    BY <1>1, <2>1
  <2> QED
    BY <1>1, <2>2, <2>3
<1> DEFINE c == w * Radix + b
<1>3. c \in Nat /\ c \in Cell
  BY <1>2 DEF Cell
<1>4. /\ c \div Radix \in Nat /\ c % Radix \in 0 .. (Radix - 1)
      /\ c = Radix * (c \div Radix) + (c % Radix)
  BY <1>1, <1>3, DivMod
<1>5. Radix * (c \div Radix) = (c \div Radix) * Radix
  BY <1>1, <1>4
<1>6. c \div Radix = w
  <2> DEFINE v == c \div Radix
             a == c % Radix
  <2>1. v * Radix + a = w * Radix + b
    BY <1>4, <1>5
  <2>2. v \in Nat /\ a \in 0 .. (Radix - 1) /\ b \in 0 .. (Radix - 1)
    BY <1>4 DEF Bucket
  <2> HIDE DEF v, a
  <2>3. v = w
    BY <1>1, <2>1, <2>2, RowsAreDisjoint
  <2> QED
    BY <2>3 DEF v
<1> HIDE DEF c
<1>7. c % Radix = b
  <2>1. c = (c \div Radix) * Radix + (c % Radix)
    BY <1>4, <1>5
  <2>2. c = w * Radix + (c % Radix) /\ w * Radix \in Nat
    BY <1>1, <1>6, <2>1
  <2>3. c = w * Radix + b
    BY DEF c
  <2> QED
    BY <1>1, <1>4, <2>2, <2>3
<1> QED
  BY <1>3, <1>6, <1>7 DEF c

(* A thread's wave has a row, its own.                                     *)
LEMMA RowOfThread ==
    ASSUME FitsTable, NEW t \in Thread
    PROVE  waveIndex(t) \in 0 .. (WaveNb - 1)
<1>1. t \in Nat /\ t < GroupSize /\ WaveSize \in Nat \ {0} /\ WaveNb \in Nat /\ GroupSize \in Nat
  BY SizesAssumption DEF Thread
<1>2. waveIndex(t) \in Nat /\ lane(t) \in Nat /\ t = WaveSize * waveIndex(t) + lane(t)
  <2>1. t \in Nat /\ WaveSize \in Nat \ {0}
    BY <1>1
  <2>2. /\ t \div WaveSize \in Nat /\ t % WaveSize \in 0 .. (WaveSize - 1)
        /\ t = WaveSize * (t \div WaveSize) + (t % WaveSize)
    BY <2>1, DivMod
  <2>3. waveIndex(t) = t \div WaveSize /\ lane(t) = t % WaveSize
    BY DEF waveIndex, lane
  <2> QED
    BY <2>1, <2>2, <2>3
<1>3. ASSUME waveIndex(t) >= WaveNb PROVE FALSE
  <2>1. PICK k \in Nat : waveIndex(t) = WaveNb + k
    <3>1. waveIndex(t) - WaveNb \in Nat /\ waveIndex(t) = WaveNb + (waveIndex(t) - WaveNb)
      BY <1>1, <1>2, <1>3
    <3> QED
      BY <3>1
  <2>2. WaveSize * waveIndex(t) = WaveNb * WaveSize + k * WaveSize
    BY <1>1, <2>1
  <2>3. k * WaveSize \in Nat /\ WaveNb * WaveSize \in Nat
    BY <1>1
  <2> QED
    BY <1>1, <1>2, <2>2, <2>3 DEF FitsTable
<1> QED
  BY <1>1, <1>2, <1>3

(* The parts of the workgroup have sizes.                                  *)
LEMMA FiniteParts ==
    /\ IsFiniteSet(Thread)
    /\ \A b : IsFiniteSet(InBucket(b)) /\ Cardinality(InBucket(b)) \in Nat
    /\ \A b : IsFiniteSet(Below(b)) /\ Cardinality(Below(b)) \in Nat
    /\ \A w, b : IsFiniteSet(InRow(w, b)) /\ Cardinality(InRow(w, b)) \in Nat
<1>1. IsFiniteSet(Thread)
  BY FS_Interval, SizesAssumption DEF Thread
<1>2. \A S \in SUBSET Thread : IsFiniteSet(S) /\ Cardinality(S) \in Nat
  BY <1>1, FS_Subset, FS_CardinalityType
<1>3. /\ \A b : InBucket(b) \in SUBSET Thread
      /\ \A b : Below(b) \in SUBSET Thread
      /\ \A w, b : InRow(w, b) \in SUBSET Thread
  BY DEF InBucket, Below, InRow, Lanes
<1> QED
  BY <1>1, <1>2, <1>3

-----------------------------------------------------------------------------
(* The action by which a thread comes to a stage.                          *)
LEMMA Entering ==
    ASSUME IInv, [Next]_vars, NEW t \in Thread
    PROVE  /\ pc'[t] \in AfterClear  => pc[t] \in AfterClear  \/ ClearTables(t)
           /\ pc'[t] \in AfterCount  => pc[t] \in AfterCount  \/ CountInWave(waveIndex(t))
           /\ pc'[t] \in AfterHist   => pc[t] \in AfterHist   \/ SumOverWaves(t)
           /\ pc'[t] \in AfterOffset => pc[t] \in AfterOffset \/ PrefixOverBuckets(t)
           /\ pc'[t] \in AfterPrefix => pc[t] \in AfterPrefix \/ PrefixOverWaves(t)
           /\ pc'[t] \in {"scatter", "copy"} =>
                  pc[t] \in {"scatter", "copy"} \/ RankInWave(waveIndex(t))
           /\ pc'[t] = "copy" => pc[t] = "copy" \/ Scatter(t)
           /\ pc'[t] = "done" => pc[t] = "done" \/ StoreOutput(t)
           /\ pc'[t] # "load" => pc[t] # "load" \/ LoadInput(t)
           /\ pc'[t] = "load" => pc[t] = "load"
<1> USE DEF AfterClear, AfterCount, AfterHist, AfterOffset, AfterPrefix
<1>0. pc \in [Thread -> DOMAIN Stage]
  BY DEF IInv, TypeOK
<1>1. CASE \E u \in Thread : ThreadStep(u)
  <2>1. PICK u \in Thread : ThreadStep(u)
    BY <1>1
  <2>2. CASE u # t
    <3>1. \E from, to : Goto(u, from, to)
      BY <2>1 DEF ThreadStep, LoadInput, ClearTables, SumOverWaves, PrefixOverBuckets,
                  PrefixOverWaves, Scatter, CopyBack, StoreOutput
    <3>2. pc'[t] = pc[t]
      BY <1>0, <2>2, <3>1 DEF Goto
    <3> QED
      BY <3>2
  <2>3. CASE u = t
    <3>1. \/ LoadInput(t) /\ pc[t] = "load" /\ pc'[t] = "clear"
          \/ ClearTables(t) /\ pc[t] = "clear" /\ pc'[t] = "count"
          \/ SumOverWaves(t) /\ pc[t] = "hist" /\ pc'[t] = "offset"
          \/ PrefixOverBuckets(t) /\ pc[t] = "offset" /\ pc'[t] = "waveoff"
          \/ PrefixOverWaves(t) /\ pc[t] = "waveoff" /\ pc'[t] = "rank"
          \/ Scatter(t) /\ pc[t] = "scatter" /\ pc'[t] = "copy"
          \/ CopyBack(t) /\ pc[t] = "copy" /\ pc'[t] \in {"store", "clear"}
          \/ StoreOutput(t) /\ pc[t] = "store" /\ pc'[t] = "done"
      <4>1. \A from, to : Goto(t, from, to) => pc[t] = from /\ pc'[t] = to
        BY <1>0 DEF Goto
      <4>2. ThreadStep(t)
        BY <2>1, <2>3
      <4>3. CASE CopyBack(t)
        <5>1. Goto(t, "copy", "store") \/ Goto(t, "copy", "clear")
          BY <4>3 DEF CopyBack
        <5> QED
          BY <4>1, <4>3, <5>1
      <4>4. CASE LoadInput(t) \/ ClearTables(t)
        BY <4>1, <4>4 DEF LoadInput, ClearTables
      <4>5. CASE SumOverWaves(t) \/ PrefixOverBuckets(t)
        BY <4>1, <4>5 DEF SumOverWaves, PrefixOverBuckets
      <4>6. CASE PrefixOverWaves(t)
        BY <4>1, <4>6 DEF PrefixOverWaves
      <4>7. CASE Scatter(t) \/ StoreOutput(t)
        BY <4>1, <4>7 DEF Scatter, StoreOutput
      <4> QED
        BY <4>2, <4>3, <4>4, <4>5, <4>6, <4>7 DEF ThreadStep
    <3> QED
      BY <3>1
  <2> QED
    BY <2>2, <2>3
<1>2. CASE \E w \in Wave : WaveStep(w)
  <2>1. PICK w \in Wave : WaveStep(w)
    BY <1>2
  <2>2. CASE waveIndex(t) # w
    <3>1. pc'[t] = pc[t]
      BY <2>1, <2>2 DEF WaveStep, CountInWave, RankInWave, WaveGoto
    <3> QED
      BY <3>1
  <2>3. CASE waveIndex(t) = w
    <3>1. t \in Lanes(w)
      BY <2>3 DEF Lanes
    <3>2. \/ CountInWave(w) /\ pc[t] = "count" /\ pc'[t] = "hist"
          \/ RankInWave(w) /\ pc[t] = "rank" /\ pc'[t] = "scatter"
      BY <2>1, <2>3, <3>1 DEF WaveStep, CountInWave, RankInWave, WaveGoto
    <3> QED
      BY <2>3, <3>2
  <2> QED
    BY <2>2, <2>3
<1>3. CASE UNCHANGED vars
  BY <1>3 DEF vars
<1> QED
  BY <1>1, <1>2, <1>3 DEF Next, Finished

(* The actions that write a variable.                                      *)
LEMMA Writers ==
    ASSUME [Next]_vars
    PROVE  /\ UNCHANGED input
           /\ UNCHANGED <<key, bucket>> \/ \E w \in Wave : CountInWave(w)
           /\ \/ UNCHANGED WaveBucketCounts
              \/ \E t \in Thread : ClearTables(t)
              \/ \E w \in Wave : CountInWave(w)
           /\ UNCHANGED Hist \/ \E t \in Thread : ClearTables(t) \/ SumOverWaves(t)
           /\ UNCHANGED BucketOffset \/ \E t \in Thread : PrefixOverBuckets(t)
           /\ UNCHANGED WaveBucketOffsets \/ \E t \in Thread : ClearTables(t) \/ PrefixOverWaves(t)
           /\ UNCHANGED rank \/ \E w \in Wave : RankInWave(w)
           /\ UNCHANGED KeysA \/ \E t \in Thread : LoadInput(t) \/ CopyBack(t)
           /\ UNCHANGED KeysB \/ \E t \in Thread : Scatter(t)
           /\ UNCHANGED output \/ \E t \in Thread : StoreOutput(t)
           /\ UNCHANGED pass \/ \E t \in Thread : CopyBack(t)
<1>1. CASE \E t \in Thread : ThreadStep(t)
  <2>1. PICK t \in Thread : ThreadStep(t)
    BY <1>1
  <2>2. CASE LoadInput(t)
    BY <2>2 DEF LoadInput, buffers, tables, registers
  <2>3. CASE ClearTables(t)
    BY <2>3 DEF ClearTables, buffers, registers
  <2>4. CASE SumOverWaves(t)
    BY <2>4 DEF SumOverWaves, buffers, registers
  <2>5. CASE PrefixOverBuckets(t)
    BY <2>5 DEF PrefixOverBuckets, buffers, registers
  <2>6. CASE PrefixOverWaves(t)
    BY <2>6 DEF PrefixOverWaves, buffers, registers
  <2>7. CASE Scatter(t)
    BY <2>7 DEF Scatter, buffers, tables, registers
  <2>8. CASE CopyBack(t)
    BY <2>8 DEF CopyBack, buffers, tables, registers
  <2>9. CASE StoreOutput(t)
    BY <2>9 DEF StoreOutput, tables, registers
  <2> QED
    BY <2>1, <2>2, <2>3, <2>4, <2>5, <2>6, <2>7, <2>8, <2>9 DEF ThreadStep
<1>2. CASE \E w \in Wave : WaveStep(w)
  <2>1. PICK w \in Wave : WaveStep(w)
    BY <1>2
  <2>2. CASE CountInWave(w)
    BY <2>2 DEF CountInWave, buffers
  <2>3. CASE RankInWave(w)
    BY <2>3 DEF RankInWave, buffers, tables
  <2> QED
    BY <2>1, <2>2, <2>3 DEF WaveStep
<1>3. CASE UNCHANGED vars
  BY <1>3 DEF vars, buffers, tables, registers
<1> QED
  BY <1>1, <1>2, <1>3 DEF Next, Finished

(* No wave is without a thread.                                            *)
LEMMA WaveHasLanes == \A w \in Wave : \E t \in Thread : t \in Lanes(w) /\ waveIndex(t) = w
BY DEF Wave, Lanes, waveIndex

(* What threads wait for when one of them acts.                            *)
LEMMA ActingAt ==
    ASSUME NEW t \in Thread
    PROVE  /\ LoadInput(t) => pc[t] = "load" /\ Released(t)
           /\ ClearTables(t) => pc[t] = "clear" /\ Released(t)
           /\ SumOverWaves(t) => pc[t] = "hist" /\ Released(t)
           /\ PrefixOverBuckets(t) => pc[t] = "offset" /\ Released(t)
           /\ PrefixOverWaves(t) => pc[t] = "waveoff" /\ Released(t)
           /\ Scatter(t) => pc[t] = "scatter" /\ Released(t)
           /\ CopyBack(t) => pc[t] = "copy" /\ Released(t)
           /\ StoreOutput(t) => pc[t] = "store" /\ Released(t)
           /\ CountInWave(waveIndex(t)) => pc[t] = "count" /\ Released(t)
           /\ RankInWave(waveIndex(t)) => pc[t] = "rank" /\ Released(t)
<1>1. t \in Lanes(waveIndex(t))
  BY DEF Lanes
<1>2. /\ CountInWave(waveIndex(t)) => pc[t] = "count" /\ Released(t)
      /\ RankInWave(waveIndex(t)) => pc[t] = "rank" /\ Released(t)
  BY <1>1 DEF CountInWave, RankInWave, WaveGoto
<1> QED
  BY <1>2 DEF LoadInput, ClearTables, SumOverWaves, PrefixOverBuckets, PrefixOverWaves, Scatter,
              CopyBack, StoreOutput, Goto

(* Digits are extracted while everyone is about to count, or has counted.  *)
LEMMA CountingIsEarly ==
    ASSUME Control, NEW w \in Wave, CountInWave(w), NEW t \in Thread
    PROVE  pc[t] \in {"count", "hist"}
<1>1. PICK u \in Thread : u \in Lanes(w) /\ waveIndex(u) = w
  BY WaveHasLanes
<1>2. pc[u] = "count" /\ Released(u)
  BY <1>1 DEF CountInWave, WaveGoto
<1> QED
  BY <1>2, Nearby

(* From the histogram to the copying back nobody extracts a digit.         *)
LEMMA BucketsStay ==
    ASSUME Control, [Next]_vars, NEW t \in Thread, pc[t] \in AfterHist
    PROVE  /\ UNCHANGED <<key, bucket, input>>
           /\ \A b : InBucket(b)' = InBucket(b)
           /\ \A b : Below(b)' = Below(b)
<1>1. pc[t] \notin {"count", "hist"}
  BY DEF AfterHist
<1>2. UNCHANGED <<key, bucket, input>>
  BY <1>1, Writers, CountingIsEarly
<1> QED
  BY <1>2 DEF InBucket, Below, active, Count

-----------------------------------------------------------------------------
(***************************************************************************)
(* Each part of Tables is kept by every step.                              *)
(***************************************************************************)
LEMMA StepZeroed ==
    ASSUME Control, Zeroed, [Next]_vars
    PROVE  Zeroed'
<1> SUFFICES ASSUME NEW c \in Cell, pc'[c] \in AfterClear, Lanes(c \div Radix) = {}
             PROVE  WaveBucketCounts'[c] = 0
  BY DEF Zeroed, Lanes, waveIndex
<1>1. c \in Thread /\ IInv
  BY OneThreadEach DEF Control
<1>2. CASE ClearTables(c)
  BY <1>2 DEF ClearTables
<1>3. CASE pc[c] \in AfterClear
  <2>1. WaveBucketCounts[c] = 0
    BY <1>3 DEF Zeroed
  <2>2. ASSUME NEW t \in Thread, ClearTables(t) PROVE WaveBucketCounts'[c] = 0
    BY <2>1, <2>2 DEF ClearTables
  <2>3. ASSUME NEW w \in Wave, CountInWave(w) PROVE WaveBucketCounts'[c] = 0
    <3>1. c \div Radix # w
      BY WaveHasLanes
    <3> QED
      BY <2>1, <2>3, <3>1 DEF CountInWave
  <2> QED
    BY <2>1, <2>2, <2>3, Writers
<1> QED
  BY <1>1, <1>2, <1>3, Entering

(* A wave counts its own lanes once, and writes no other wave's row.       *)
LEMMA StepCounted ==
    ASSUME FitsTable, Control, Counted, [Next]_vars
    PROVE  Counted'
<1> SUFFICES ASSUME NEW t \in Thread, NEW b \in Bucket, pc'[t] \in AfterCount
             PROVE  WaveBucketCounts'[waveIndex(t) * Radix + b] = Cardinality(InRow(waveIndex(t), b)')
  BY DEF Counted, waveIndex
<1> DEFINE w == waveIndex(t)
           c == w * Radix + b
<1>1. c \in Cell /\ c \div Radix = w /\ c % Radix = b
  BY RowOfThread, CellOf
<1>2. IInv
  BY DEF Control
<1>3. UNCHANGED input /\ \A u : active(u)' = active(u)
  BY Writers DEF active, Count
<1> HIDE DEF c, w
<1>4. CASE CountInWave(w)
  <2>1. WaveBucketCounts'[c] = Cardinality({u \in Lanes(w) : active(u) /\ DigitOf(u) = b})
    BY <1>1, <1>4 DEF CountInWave
  <2>2. \A u \in Lanes(w) : bucket'[u] = DigitOf(u)
    BY <1>4 DEF CountInWave, Lanes
  <2>3. {u \in Lanes(w) : active(u) /\ DigitOf(u) = b} = {u \in Lanes(w) : active(u)' /\ bucket'[u] = b}
    BY <1>3, <2>2
  <2>4. InRow(w, b)' = {u \in Lanes(w) : active(u)' /\ bucket'[u] = b}
    BY DEF InRow, Lanes, waveIndex, w
  <2> QED
    BY <2>1, <2>3, <2>4 DEF c, w
<1>5. CASE pc[t] \in AfterCount
  <2>1. WaveBucketCounts[c] = Cardinality(InRow(w, b))
    BY <1>5 DEF Counted, c, w
  <2>2. ~\E u \in Thread : ClearTables(u)
    BY <1>5, ActingAt, Nearby DEF AfterCount
  <2>3. ~CountInWave(w)
    BY <1>5, ActingAt DEF AfterCount, w
  <2>4. WaveBucketCounts'[c] = WaveBucketCounts[c]
    <3>1. ASSUME NEW v \in Wave, CountInWave(v) PROVE WaveBucketCounts'[c] = WaveBucketCounts[c]
      BY <1>1, <2>3, <3>1 DEF CountInWave
    <3> QED
      BY <2>2, <3>1, Writers
  <2>5. \A u \in Lanes(w) : bucket'[u] = bucket[u]
    <3>1. ASSUME NEW v \in Wave, CountInWave(v), NEW u \in Lanes(w) PROVE bucket'[u] = bucket[u]
      <4>1. u \in Thread /\ waveIndex(u) = w /\ w # v
        BY <2>3, <3>1 DEF Lanes
      <4>2. bucket' = [s \in Thread |-> IF waveIndex(s) = v THEN DigitOf(s) ELSE bucket[s]]
        BY <3>1 DEF CountInWave
      <4> QED
        BY <4>1, <4>2
    <3> QED
      BY <3>1, Writers
  <2>6. InRow(w, b)' = InRow(w, b)
    <3>1. {u \in Lanes(w) : active(u)' /\ bucket'[u] = b} = {u \in Lanes(w) : active(u) /\ bucket[u] = b}
      BY <1>3, <2>5
    <3> QED
      BY <3>1 DEF InRow, Lanes, waveIndex, w
  <2> QED
    BY <2>1, <2>4, <2>6 DEF c, w
<1> QED
  BY <1>2, <1>4, <1>5, Entering DEF w

(* The rows of a bucket add up to all its keys.                            *)
LEMMA RowsAddUp ==
    ASSUME FitsTable, Tables, \A t \in Thread : pc[t] \in AfterCount, NEW b \in Bucket
    PROVE  SumFunction([w \in 0 .. (WaveNb - 1) |-> WaveBucketCounts[w * Radix + b]])
             = Cardinality(InBucket(b))
<1> DEFINE S == 0 .. (WaveNb - 1)
           f == [w \in S |-> WaveBucketCounts[w * Radix + b]]
           A == [w \in S |-> InRow(w, b)]
<1>1. ASSUME NEW w \in S PROVE f[w] = Cardinality(A[w])
  <2>1. CASE \E t \in Thread : waveIndex(t) = w
    BY <2>1 DEF Tables, Counted
  <2>2. CASE ~\E t \in Thread : waveIndex(t) = w
    <3>1. Lanes(w) = {}
      BY <2>2 DEF Lanes
    <3>2. w * Radix + b \in Cell /\ (w * Radix + b) \div Radix = w
      BY CellOf
    <3>3. w * Radix + b \in Thread
      BY <3>2, OneThreadEach
    <3>4. pc[w * Radix + b] \in AfterClear
      BY <3>3 DEF AfterClear, AfterCount
    <3>5. WaveBucketCounts[w * Radix + b] = 0
      BY <3>1, <3>2, <3>4 DEF Tables, Zeroed
    <3>6. InRow(w, b) = {}
      BY <3>1 DEF InRow
    <3> QED
      BY <3>5, <3>6, FS_EmptySet
  <2> QED
    BY <2>1, <2>2
<1>2. A \in [S -> SUBSET Thread] /\ \A w \in S : A[w] = InRow(w, b)
  BY DEF InRow, Lanes
<1>3. \A v, w \in S : v # w => A[v] \cap A[w] = {}
  BY <1>2 DEF InRow, Lanes
<1>4. IsFiniteSet(S) /\ IsFiniteSet(Thread)
  BY FS_Interval, SizesAssumption, FiniteParts
<1>5. UNION {A[w] : w \in S} = InBucket(b)
  <2>1. \A t \in Thread : waveIndex(t) \in S
    BY RowOfThread
  <2>2. UNION {InRow(w, b) : w \in S} = InBucket(b)
    BY <2>1 DEF InRow, InBucket, Lanes
  <2> QED
    BY <1>2, <2>2
<1>6. SumFunction(f) = SumFunctionOnSet(f, S)
  BY DEF SumFunction
<1> HIDE DEF A, S, f
<1>7. SumFunctionOnSet(f, S) = Cardinality(UNION {A[w] : w \in S})
  BY <1>1, <1>2, <1>3, <1>4, SumOfSizes
<1> QED
  BY <1>5, <1>6, <1>7 DEF f, S

(* The keys of smaller digits are those of each smaller digit.             *)
LEMMA BucketsAddUp ==
    ASSUME Tables, \A t \in Thread : pc[t] \in AfterHist, NEW b \in Bucket
    PROVE  SumFunctionOnSet(Hist, 0 .. (b - 1)) = Cardinality(Below(b))
<1> DEFINE S == 0 .. (b - 1)
           A == [a \in S |-> InBucket(a)]
<1>1. b \in Nat /\ S \subseteq Bucket
  BY SizesAssumption DEF Bucket
<1>2. \A a \in S : Hist[a] = Cardinality(A[a])
  <2>1. \A a \in S : a \in Bucket /\ a \in Thread
    BY <1>1, OneThreadEach
  <2> QED
    BY <2>1 DEF Tables, Totalled
<1>3. A \in [S -> SUBSET Thread] /\ \A a \in S : A[a] = InBucket(a)
  BY DEF InBucket
<1>4. \A a, c \in S : a # c => A[a] \cap A[c] = {}
  BY <1>3 DEF InBucket
<1>5. IsFiniteSet(S) /\ IsFiniteSet(Thread)
  BY <1>1, FS_Interval, FiniteParts
<1>6. UNION {A[a] : a \in S} = Below(b)
  <2>1. \A t \in Thread : bucket[t] \in Nat
    BY DEF Tables, Control, IInv, TypeOK, Bucket
  <2>2. \A t \in Thread : bucket[t] < b <=> bucket[t] \in S
    BY <1>1, <2>1
  <2>3. UNION {InBucket(a) : a \in S} = Below(b)
    BY <2>2 DEF InBucket, Below
  <2> QED
    BY <1>3, <2>3
<1> HIDE DEF A, S
<1>7. SumFunctionOnSet(Hist, S) = Cardinality(UNION {A[a] : a \in S})
  BY <1>2, <1>3, <1>4, <1>5, SumOfSizes
<1> QED
  BY <1>6, <1>7 DEF S

(* Line 89: the thread of a bucket writes its total.                       *)
LEMMA StepTotalled ==
    ASSUME FitsTable, Tables, [Next]_vars
    PROVE  Totalled'
<1> SUFFICES ASSUME NEW b \in Bucket, pc'[b] \in AfterHist
             PROVE  Hist'[b] = Cardinality(InBucket(b)')
  BY DEF Totalled
<1>1. b \in Thread /\ Control /\ IInv
  BY OneThreadEach DEF Tables, Control
<1>2. CASE SumOverWaves(b)
  <2>1. pc[b] = "hist" /\ Released(b)
    BY <1>1, <1>2, ActingAt
  <2>2. \A t \in Thread : pc[t] \in AfterCount
    BY <1>1, <2>1, Nearby DEF AfterCount
  <2>3. Hist'[b] = Cardinality(InBucket(b))
    BY <1>2, <2>2, RowsAddUp DEF SumOverWaves
  <2>4. InBucket(b)' = InBucket(b)
    BY <1>2 DEF SumOverWaves, buffers, registers, InBucket, active, Count
  <2> QED
    BY <2>3, <2>4
<1>3. CASE pc[b] \in AfterHist
  <2>1. Hist[b] = Cardinality(InBucket(b)) /\ InBucket(b)' = InBucket(b)
    BY <1>1, <1>3, BucketsStay DEF Tables, Totalled
  <2>2. ASSUME NEW t \in Thread, ClearTables(t) PROVE FALSE
    BY <1>1, <1>3, <2>2, ActingAt, Nearby DEF AfterHist
  <2>3. ASSUME NEW t \in Thread, SumOverWaves(t) PROVE Hist'[b] = Hist[b]
    <3>1. t # b
      BY <1>3, <2>3, ActingAt DEF AfterHist
    <3> QED
      BY <2>3, <3>1 DEF SumOverWaves
  <2>4. Hist'[b] = Hist[b]
    BY <2>2, <2>3, Writers
  <2> QED
    BY <2>1, <2>4
<1> QED
  BY <1>1, <1>2, <1>3, Entering

(* Line 99: the thread of a bucket writes where the bucket starts.         *)
LEMMA StepStarted ==
    ASSUME Tables, [Next]_vars
    PROVE  Started'
<1> SUFFICES ASSUME NEW b \in Bucket, pc'[b] \in AfterOffset
             PROVE  BucketOffset'[b] = Cardinality(Below(b)')
  BY DEF Started
<1>1. b \in Thread /\ Control /\ IInv
  BY OneThreadEach DEF Tables, Control
<1>2. CASE PrefixOverBuckets(b)
  <2>1. pc[b] = "offset" /\ Released(b)
    BY <1>1, <1>2, ActingAt
  <2>2. \A t \in Thread : pc[t] \in AfterHist
    BY <1>1, <2>1, Nearby DEF AfterHist
  <2>3. BucketOffset'[b] = Cardinality(Below(b))
    BY <1>2, <2>2, BucketsAddUp DEF PrefixOverBuckets
  <2>4. Below(b)' = Below(b)
    BY <1>2 DEF PrefixOverBuckets, buffers, registers, Below, active, Count
  <2> QED
    BY <2>3, <2>4
<1>3. CASE pc[b] \in AfterOffset
  <2>1. pc[b] \in AfterHist
    BY <1>3 DEF AfterOffset, AfterHist
  <2>2. BucketOffset[b] = Cardinality(Below(b)) /\ Below(b)' = Below(b)
    BY <1>1, <1>3, <2>1, BucketsStay DEF Tables, Started
  <2>3. ASSUME NEW t \in Thread, PrefixOverBuckets(t) PROVE BucketOffset'[b] = BucketOffset[b]
    <3>1. t # b
      BY <1>3, <2>3, ActingAt DEF AfterOffset
    <3> QED
      BY <2>3, <3>1 DEF PrefixOverBuckets
  <2>4. BucketOffset'[b] = BucketOffset[b]
    BY <2>3, Writers
  <2> QED
    BY <2>2, <2>4
<1> QED
  BY <1>1, <1>2, <1>3, Entering

(* At first nothing has been written, and nothing is claimed of the junk.  *)
LEMMA InitTables == Init => Tables
<1> SUFFICES ASSUME Init PROVE Tables
  OBVIOUS
<1>1. Control
  BY InitControl
<1>2. \A t \in Thread : pc[t] = "load"
  BY DEF Init
<1>3. \A c \in Cell : pc[c] = "load"
  BY <1>2, OneThreadEach
<1>4. \A b \in Bucket : pc[b] = "load"
  BY <1>2, OneThreadEach
<1> QED
  BY <1>1, <1>2, <1>3, <1>4 DEF Tables, Zeroed, Counted, Totalled, Started, AfterClear, AfterCount,
                                AfterHist, AfterOffset

(* All parts together: no assumption is made on the input or the register. *)
LEMMA StepTables ==
    ASSUME FitsTable, Tables, [Next]_vars
    PROVE  Tables'
<1>1. Control'
  BY StepControl DEF Tables
<1>2. Zeroed' /\ Counted'
  BY StepZeroed, StepCounted DEF Tables
<1>3. Totalled' /\ Started'
  BY StepTotalled, StepStarted
<1> QED
  BY <1>1, <1>2, <1>3 DEF Tables

(***************************************************************************)
(* When every wave has a row of the tables, the histogram of a pass counts *)
(* every key of the workgroup once, for every number of waves, and however *)
(* the threads run between two barriers.                                   *)
(***************************************************************************)
THEOREM HistogramExact ==
    ASSUME FitsTable
    PROVE  Spec => []HistCountsKeys
<1>1. Init => Tables
  BY InitTables
<1>2. Tables /\ [Next]_vars => Tables'
  BY StepTables
<1>3. Tables => HistCountsKeys
  <2> SUFFICES ASSUME Tables, \A t \in Thread : pc[t] \in AfterHist, NEW b \in Bucket
               PROVE  Hist[b] = Cardinality(InBucket(b))
    BY DEF HistCountsKeys, AfterHist, InBucket
  <2>1. b \in Thread
    BY OneThreadEach
  <2> QED
    BY <2>1 DEF Tables, Totalled
<1> QED
  BY <1>1, <1>2, <1>3, PTL DEF Spec

(***************************************************************************)
(* BucketOffset[b] is where bucket b starts: exactly the keys of smaller   *)
(* digits fit before it, whatever the number of waves and the input.       *)
(***************************************************************************)
THEOREM BucketStartsExact ==
    ASSUME FitsTable
    PROVE  Spec => []BucketsStartInOrder
<1>1. Init => Tables
  BY InitTables
<1>2. Tables /\ [Next]_vars => Tables'
  BY StepTables
<1>3. Tables => BucketsStartInOrder
  <2> SUFFICES ASSUME Tables, \A t \in Thread : pc[t] \in AfterOffset, NEW b \in Bucket
               PROVE  BucketOffset[b] = Cardinality(Below(b))
    BY DEF BucketsStartInOrder, AfterOffset, Below
  <2>1. b \in Thread
    BY OneThreadEach
  <2> QED
    BY <2>1 DEF Tables, Started
<1> QED
  BY <1>1, <1>2, <1>3, PTL DEF Spec

-----------------------------------------------------------------------------
(***************************************************************************)
(* The workgroup of main.cpp: its keys are in one wave, that wave is not   *)
(* the last row of the tables, and the uninitialised register of line 114  *)
(* does not happen to hold 0.                                              *)
(***************************************************************************)
OneWave ==
    /\ FitsTable /\ WaveNb > 1
    /\ 0 \notin UninitStarts
    /\ \A in \in Inputs : Cardinality(DOMAIN in) <= WaveSize /\ Cardinality(DOMAIN in) <= GroupSize

(* The digits by which a pass sorts, and the keys before one in its bucket.*)
Values   == [i \in 0 .. (Count - 1) |-> bucket[i]]
Twins(t) == {u \in Thread : u < t /\ active(u) /\ bucket[u] = bucket[t]}

(* What a thread holds of a pass, from the barrier of line 80 to its end.  *)
Taken ==
    \A t \in Thread : active(t) /\ pc[t] \in AfterCount =>
        key[t] = KeysA[t] /\ bucket[t] = KeysA[t][pass[t]]
Ranked ==
    \A t \in Thread : active(t) /\ pc[t] \in {"scatter", "copy"} => rank[t] = Cardinality(Twins(t))
Scattered ==
    \A t \in Thread : active(t) /\ pc[t] = "copy" => KeysB[Place(Values, t)] = key[t]
CopiedBack ==
    \A t, u \in Thread : active(u) /\ pc[t] = "copy" /\ pass[t] < pass[u] => KeysA[u] = KeysB[u]

(* The row of offsets that `waveIndex + 16` makes wave 0 use is all zero.  *)
SecondRow ==
    \A c \in Cell : c \div Radix = 1 /\ pc[c] \in AfterPrefix => WaveBucketOffsets[c] = 0

(* The first and the last key that a thread holds are the buffers'.        *)
Loaded == \A t \in Thread : active(t) /\ pc[t] # "load" /\ pass[t] = 0 => KeysA[t] = input[t]
Stored == \A t \in Thread : active(t) /\ pc[t] = "done" => output[t] = KeysA[t]

Sorting ==
    /\ Tables
    /\ Taken /\ Ranked /\ SecondRow /\ Scattered /\ CopiedBack /\ Loaded /\ Stored

(* Every key has a thread, and these are lanes of wave 0.                  *)
LEMMA ActiveThreads ==
    ASSUME OneWave, IInv
    PROVE  /\ Count \in Nat /\ Count <= GroupSize
           /\ DOMAIN input = 0 .. (Count - 1)
           /\ 0 .. (Count - 1) = {t \in Thread : active(t)}
           /\ \A t \in Thread : active(t) => waveIndex(t) = 0
           /\ Values \in [0 .. (Count - 1) -> Nat]
           /\ \A t \in Thread : active(t) => Values[t] = bucket[t]
<1>1. input \in Inputs /\ bucket \in [Thread -> Bucket]
  BY DEF IInv, TypeOK
<1>2. Count \in Nat /\ DOMAIN input = 0 .. (Count - 1)
  BY <1>1, InputShape
<1>3. Count <= GroupSize /\ Count <= WaveSize
  BY <1>1 DEF OneWave, Count
<1>4. WaveSize \in Nat \ {0} /\ GroupSize \in Nat \ {0}
  BY SizesAssumption
<1>5. 0 .. (Count - 1) = {t \in Thread : active(t)}
  BY <1>2, <1>3, <1>4 DEF Thread, active
<1>6. ASSUME NEW t \in Thread, active(t) PROVE waveIndex(t) = 0
  <2>1. t \in Nat /\ t < WaveSize
    BY <1>2, <1>3, <1>4, <1>6 DEF Thread, active
  <2>2. t \div WaveSize \in Nat /\ t % WaveSize \in 0 .. (WaveSize - 1)
        /\ t = WaveSize * (t \div WaveSize) + (t % WaveSize)
    BY <1>4, <2>1, DivMod
  <2>3. WaveSize * (t \div WaveSize) < WaveSize
    BY <1>4, <2>1, <2>2
  <2> QED
    BY <1>4, <2>2, <2>3 DEF waveIndex
<1>7. \A t \in Thread : bucket[t] \in Nat
  BY <1>1 DEF Bucket
<1>8. Values \in [0 .. (Count - 1) -> Nat] /\ \A t \in Thread : active(t) => Values[t] = bucket[t]
  BY <1>5, <1>7 DEF Values
<1> QED
  BY <1>2, <1>3, <1>5, <1>6, <1>8

(* The keys read at line 59 stay until line 137: a thread that loads or    *)
(* copies back is not between them.                                        *)
LEMMA StepTaken ==
    ASSUME Control, Taken, [Next]_vars
    PROVE  Taken'
<1> SUFFICES ASSUME NEW t \in Thread, active(t)', pc'[t] \in AfterCount
             PROVE  key'[t] = KeysA'[t] /\ bucket'[t] = KeysA'[t][pass'[t]]
  BY DEF Taken
<1>1. IInv /\ active(t)
  BY Writers DEF Control, active, Count
<1>2. CASE CountInWave(waveIndex(t))
  BY <1>1, <1>2 DEF CountInWave, DigitOf
<1>3. CASE pc[t] \in AfterCount /\ ~CountInWave(waveIndex(t))
  <2>1. key[t] = KeysA[t] /\ bucket[t] = KeysA[t][pass[t]]
    BY <1>1, <1>3 DEF Taken
  <2>2. ~LoadInput(t)
    BY <1>3, ActingAt DEF AfterCount
  <2>3. ~CopyBack(t)
    <3> SUFFICES ASSUME CopyBack(t) PROVE FALSE
      OBVIOUS
    <3>1. pc'[t] \in {"store", "clear"}
      BY <1>1 DEF CopyBack, Goto, IInv, TypeOK
    <3> QED
      BY <3>1 DEF AfterCount
  <2>4. KeysA'[t] = KeysA[t]
    <3>1. ASSUME NEW u \in Thread, LoadInput(u) \/ CopyBack(u) PROVE KeysA'[t] = KeysA[t]
      BY <1>1, <2>2, <2>3, <3>1 DEF LoadInput, CopyBack, IInv, TypeOK
    <3> QED
      BY <3>1, Writers
  <2>5. pass'[t] = pass[t]
    <3>1. ASSUME NEW u \in Thread, CopyBack(u) PROVE pass'[t] = pass[t]
      BY <1>1, <2>3, <3>1 DEF CopyBack, IInv, TypeOK
    <3> QED
      BY <3>1, Writers
  <2>6. key'[t] = key[t] /\ bucket'[t] = bucket[t]
    <3>1. ASSUME NEW w \in Wave, CountInWave(w) PROVE key'[t] = key[t] /\ bucket'[t] = bucket[t]
      BY <1>3, <3>1 DEF CountInWave
    <3> QED
      BY <3>1, Writers
  <2> QED
    BY <2>1, <2>4, <2>5, <2>6
<1> QED
  BY <1>1, <1>2, <1>3, Entering

(* A rank counts the keys of the bucket in the threads before: those of    *)
(* the wave are all there are.                                             *)
LEMMA StepRanked ==
    ASSUME OneWave, Control, Ranked, [Next]_vars
    PROVE  Ranked'
<1> SUFFICES ASSUME NEW t \in Thread, active(t)', pc'[t] \in {"scatter", "copy"}
             PROVE  rank'[t] = Cardinality(Twins(t)')
  BY DEF Ranked
<1>1. IInv /\ active(t) /\ t \in Lanes(waveIndex(t))
  BY Writers DEF Control, active, Count, Lanes
<1>2. CASE RankInWave(waveIndex(t))
  <2>1. waveIndex(t) = 0 /\ \A u \in Thread : active(u) => u \in Lanes(0)
    BY <1>1, ActiveThreads DEF Lanes
  <2>2. {u \in Lanes(0) : u < t /\ active(u) /\ bucket[u] = bucket[t]} = Twins(t)
    BY <2>1 DEF Twins, Lanes
  <2>3. rank'[t] = Cardinality(Twins(t))
    BY <1>2, <2>1, <2>2 DEF RankInWave
  <2>4. Twins(t)' = Twins(t)
    BY <1>2 DEF RankInWave, buffers, Twins, active, Count
  <2> QED
    BY <2>3, <2>4
<1>3. CASE pc[t] \in {"scatter", "copy"}
  <2>1. rank[t] = Cardinality(Twins(t))
    BY <1>1, <1>3 DEF Ranked
  <2>2. UNCHANGED <<bucket, input>>
    BY <1>3, BucketsStay DEF AfterHist
  <2>3. Twins(t)' = Twins(t)
    BY <2>2 DEF Twins, active, Count
  <2>4. rank'[t] = rank[t]
    <3>1. ASSUME NEW w \in Wave, RankInWave(w) PROVE rank'[t] = rank[t]
      <4>1. waveIndex(t) # w
        BY <1>3, <3>1, ActingAt
      <4> QED
        BY <3>1, <4>1 DEF RankInWave
    <3> QED
      BY <3>1, Writers
  <2> QED
    BY <2>1, <2>3, <2>4
<1> QED
  BY <1>1, <1>2, <1>3, Entering

(* A sum that starts at 1 or later has no term for the second row.         *)
LEMMA StepSecondRow ==
    ASSUME OneWave, Control, SecondRow, [Next]_vars
    PROVE  SecondRow'
<1> SUFFICES ASSUME NEW c \in Cell, c \div Radix = 1, pc'[c] \in AfterPrefix
             PROVE  WaveBucketOffsets'[c] = 0
  BY DEF SecondRow
<1>1. c \in Thread /\ IInv
  BY OneThreadEach DEF Control
<1>2. CASE PrefixOverWaves(c)
  <2>1. PICK start \in UninitStarts :
            WaveBucketOffsets'[c] =
                SumFunction([v \in start .. ((c \div Radix) - 1) |->
                                WaveBucketCounts[(v * Radix) + (c % Radix)]])
    BY <1>2 DEF PrefixOverWaves
  <2>2. start .. ((c \div Radix) - 1) = {}
    BY UninitAssumption DEF OneWave
  <2>3. \A f : DOMAIN f = {} => SumFunction(f) = 0
    BY SumEmpty DEF SumFunction
  <2> QED
    BY <2>1, <2>2, <2>3
<1>3. CASE pc[c] \in AfterPrefix
  <2>1. WaveBucketOffsets[c] = 0
    BY <1>3 DEF SecondRow
  <2>2. ASSUME NEW t \in Thread, ClearTables(t) PROVE WaveBucketOffsets'[c] = 0
    BY <2>1, <2>2 DEF ClearTables
  <2>3. ASSUME NEW t \in Thread, PrefixOverWaves(t) PROVE WaveBucketOffsets'[c] = 0
    <3>1. t # c
      BY <1>3, <2>3, ActingAt DEF AfterPrefix
    <3> QED
      BY <2>1, <2>3, <3>1 DEF PrefixOverWaves
  <2> QED
    BY <2>1, <2>2, <2>3, Writers
<1> QED
  BY <1>1, <1>2, <1>3, Entering

(* Line 134 for a key of wave 0: its place in a stable sort by the digit.  *)
LEMMA Destination ==
    ASSUME OneWave, Sorting, NEW t \in Thread, active(t), pc[t] = "scatter"
    PROVE  dst(t) = Place(Values, t)
<1> DEFINE b == bucket[t]
<1>1. Control /\ IInv /\ Released(t)
  BY DEF Sorting, Tables, Control, Ahead
<1>2. \A u \in Thread : pc[u] \in AfterPrefix
  BY <1>1, Nearby
<1>3. b \in Bucket /\ b \in Thread
  BY <1>1, OneThreadEach DEF IInv, TypeOK
<1>4. BucketOffset[b] = Cardinality(Below(b))
  <2>1. pc[b] \in AfterOffset
    BY <1>2, <1>3 DEF AfterPrefix, AfterOffset
  <2> QED
    BY <1>3, <2>1 DEF Sorting, Tables, Started
<1>5. WaveBucketOffsets[OffsetCell(t)] = 0
  <2>1. waveIndex(t) = 0 /\ 1 \in 0 .. (WaveNb - 1) /\ b \in Nat /\ Radix \in Nat
    BY <1>1, <1>3, ActiveThreads, SizesAssumption DEF OneWave, Bucket
  <2>2. OffsetCell(t) = 1 * Radix + b
    BY <2>1 DEF OffsetCell
  <2>3. OffsetCell(t) \in Cell /\ OffsetCell(t) \div Radix = 1
    BY <1>3, <2>1, <2>2, CellOf
  <2>4. pc[OffsetCell(t)] \in AfterPrefix
    BY <1>2, <2>3, OneThreadEach
  <2> QED
    BY <2>3, <2>4 DEF Sorting, SecondRow
<1>6. rank[t] = Cardinality(Twins(t))
  BY DEF Sorting, Ranked
<1>7. Below(b) \cap Twins(t) = {}
  <2>1. \A u \in Thread : bucket[u] \in Nat
    BY <1>1 DEF IInv, TypeOK, Bucket
  <2> QED
    BY <2>1 DEF Below, Twins
<1>8. Below(b) \cup Twins(t) = Earlier(Values, t)
  <2>1. DOMAIN Values = {u \in Thread : active(u)} /\ \A u \in Thread : active(u) => Values[u] = bucket[u]
    BY <1>1, ActiveThreads
  <2> QED
    BY <2>1 DEF Below, Twins, Earlier
<1>9. /\ IsFiniteSet(Below(b)) /\ Cardinality(Below(b)) \in Nat
      /\ IsFiniteSet(Twins(t)) /\ Cardinality(Twins(t)) \in Nat
  <2>1. Twins(t) \in SUBSET Thread
    BY DEF Twins
  <2> QED
    BY <2>1, FiniteParts, FS_Subset, FS_CardinalityType
<1>10. Cardinality(Below(b) \cup Twins(t)) = Cardinality(Below(b)) + Cardinality(Twins(t))
  <2>1. Cardinality(Below(b) \cap Twins(t)) = 0
    BY <1>7, FS_EmptySet
  <2>2. Cardinality(Below(b) \cup Twins(t))
          = Cardinality(Below(b)) + Cardinality(Twins(t)) - Cardinality(Below(b) \cap Twins(t))
    BY <1>9, FS_Union
  <2> QED
    BY <1>9, <2>1, <2>2
<1>11. Place(Values, t) = Cardinality(Below(b)) + Cardinality(Twins(t))
  BY <1>8, <1>10 DEF Place
<1>12. dst(t) = Cardinality(Below(b)) + 0 + Cardinality(Twins(t))
  BY <1>4, <1>5, <1>6 DEF dst
<1> HIDE DEF b
<1> QED
  BY <1>9, <1>11, <1>12

(* Places stay while anyone is past the histogram.                         *)
LEMMA ValuesStay ==
    ASSUME Control, [Next]_vars, NEW t \in Thread, pc[t] \in AfterHist
    PROVE  Values' = Values
<1>1. UNCHANGED <<bucket, input>>
  BY BucketsStay
<1> QED
  BY <1>1 DEF Values, Count

(* A key that was scattered is not overwritten by another's.               *)
LEMMA StepScattered ==
    ASSUME OneWave, Sorting, [Next]_vars
    PROVE  Scattered'
<1> SUFFICES ASSUME NEW t \in Thread, active(t)', pc'[t] = "copy"
             PROVE  KeysB'[Place(Values', t)] = key'[t]
  BY DEF Scattered, Place, Earlier
<1>1. Control /\ IInv /\ active(t)
  BY Writers DEF Sorting, Tables, Control, active, Count
<1>2. pc[t] = "copy" \/ (pc[t] = "scatter" /\ Scatter(t))
  BY <1>1, Entering, ActingAt
<1>3. Values' = Values /\ key'[t] = key[t]
  <2>1. pc[t] \in AfterHist
    BY <1>2 DEF AfterHist
  <2> QED
    BY <1>1, <2>1, ValuesStay, BucketsStay
<1>4. Place(Values, t) \in Thread
  BY <1>1, ActiveThreads, PlacesAreSlots
<1>5. CASE Scatter(t)
  <2>1. dst(t) = Place(Values, t)
    BY <1>1, <1>5, ActingAt, Destination
  <2> QED
    BY <1>1, <1>3, <1>4, <1>5, <2>1 DEF Scatter
<1>6. CASE pc[t] = "copy"
  <2>1. KeysB[Place(Values, t)] = key[t]
    BY <1>1, <1>6 DEF Sorting, Scattered
  <2>2. ASSUME NEW u \in Thread, Scatter(u)
        PROVE  KeysB'[Place(Values, t)] = KeysB[Place(Values, t)]
    <3>1. pc[u] = "scatter" /\ u # t
      BY <1>6, <2>2, ActingAt
    <3>2. CASE ~active(u)
      BY <1>4, <2>2, <3>2 DEF Scatter
    <3>3. CASE active(u)
      <4>1. dst(u) = Place(Values, u)
        BY <3>1, <3>3, Destination
      <4>2. Place(Values, u) # Place(Values, t)
        <5>1. u \in 0 .. (Count - 1) /\ t \in 0 .. (Count - 1)
          BY <1>1, <3>3, ActiveThreads
        <5> QED
          BY <1>1, <3>1, <5>1, ActiveThreads, PlacesDiffer
      <4> QED
        BY <1>4, <2>2, <4>1, <4>2 DEF Scatter
    <3> QED
      BY <3>2, <3>3
  <2>3. KeysB'[Place(Values, t)] = KeysB[Place(Values, t)]
    BY <2>2, Writers
  <2> QED
    BY <1>3, <2>1, <2>3
<1> QED
  BY <1>2, <1>5, <1>6

(* A key copied back stays until the others have copied theirs: the next   *)
(* pass does not scatter before.                                           *)
LEMMA StepCopiedBack ==
    ASSUME Control, CopiedBack, [Next]_vars
    PROVE  CopiedBack'
<1> SUFFICES ASSUME NEW t \in Thread, NEW u \in Thread, active(u)', pc'[t] = "copy",
                    pass'[t] < pass'[u]
             PROVE  KeysA'[u] = KeysB'[u]
  BY DEF CopiedBack
<1>1. IInv /\ active(u)
  BY Writers DEF Control, active, Count
<1>2. ASSUME NEW v \in Thread, Released(v), pc[v] \notin {"copy"} PROVE pass[t] = pass[u]
  BY <1>2, Nearby
<1>4. CASE \E v \in Thread : CopyBack(v)
  <2>1. PICK v \in Thread : CopyBack(v)
    BY <1>4
  <2>2. /\ pc[v] = "copy" /\ Released(v) /\ UNCHANGED KeysB
        /\ pc'[v] \in {"store", "clear"}
        /\ \A s \in Thread : s # v => pc'[s] = pc[s] /\ pass'[s] = pass[s]
        /\ pass'[v] = pass[v] + 1
        /\ \A s \in Thread : s # v => KeysA'[s] = KeysA[s]
        /\ active(v) => KeysA'[v] = KeysB[v]
    BY <1>1, <2>1 DEF CopyBack, Goto, IInv, TypeOK
  <2>3. t # v /\ pc[t] = "copy" /\ pass'[t] = pass[t]
    BY <2>2
  <2>4. CASE u = v
    BY <1>1, <2>2, <2>4
  <2>5. CASE u # v
    <3>1. KeysA[u] = KeysB[u]
      BY <1>1, <2>2, <2>3, <2>5 DEF CopiedBack
    <3> QED
      BY <2>2, <2>5, <3>1
  <2> QED
    BY <2>4, <2>5
<1>5. CASE ~\E v \in Thread : CopyBack(v)
  <2>1. UNCHANGED pass
    BY <1>5, Writers
  <2>2. pass[t] < pass[u] /\ pass[t] \in Nat /\ pass[u] \in Nat
    BY <1>1, <2>1, IntervalType
  <2>3. ~\E v \in Thread : Scatter(v) \/ LoadInput(v)
    BY <1>2, <2>2, ActingAt
  <2>4. pc[t] = "copy"
    BY <1>1, <2>3, Entering
  <2>5. KeysA[u] = KeysB[u]
    BY <1>1, <2>2, <2>4 DEF CopiedBack
  <2>6. UNCHANGED <<KeysA, KeysB>>
    BY <1>5, <2>3, Writers
  <2> QED
    BY <2>5, <2>6
<1> QED
  BY <1>4, <1>5

(* Before the first pass is over a thread holds its key of the input.      *)
LEMMA StepLoaded ==
    ASSUME IInv, Loaded, [Next]_vars
    PROVE  Loaded'
<1> SUFFICES ASSUME NEW t \in Thread, active(t)', pc'[t] # "load", pass'[t] = 0
             PROVE  KeysA'[t] = input'[t]
  BY DEF Loaded
<1>1. active(t) /\ UNCHANGED input
  BY Writers DEF active, Count
<1>2. CASE LoadInput(t)
  BY <1>1, <1>2 DEF LoadInput, IInv, TypeOK
<1>3. CASE pc[t] # "load"
  <2>1. ~LoadInput(t)
    BY <1>3, ActingAt
  <2>2. ~CopyBack(t)
    <3> SUFFICES ASSUME CopyBack(t) PROVE pass'[t] # 0
      OBVIOUS
    <3>1. pass'[t] = pass[t] + 1
      BY DEF CopyBack, IInv, TypeOK
    <3> QED
      BY <3>1, IntervalType
  <2>3. pass'[t] = pass[t] /\ KeysA'[t] = KeysA[t]
    <3>1. ASSUME NEW u \in Thread, CopyBack(u) PROVE pass'[t] = pass[t] /\ KeysA'[t] = KeysA[t]
      BY <2>2, <3>1 DEF CopyBack, IInv, TypeOK
    <3>2. ASSUME NEW u \in Thread, LoadInput(u) PROVE pass'[t] = pass[t] /\ KeysA'[t] = KeysA[t]
      BY <2>1, <3>2 DEF LoadInput, IInv, TypeOK
    <3> QED
      BY <3>1, <3>2, Writers
  <2> QED
    BY <1>1, <1>3, <2>3 DEF Loaded
<1> QED
  BY <1>2, <1>3, Entering

(* The stored key is the one of the last pass.                             *)
LEMMA StepStored ==
    ASSUME OneWave, IInv, Stored, [Next]_vars
    PROVE  Stored'
<1> SUFFICES ASSUME NEW t \in Thread, active(t)', pc'[t] = "done"
             PROVE  output'[t] = KeysA'[t]
  BY DEF Stored
<1>1. active(t) /\ t \in DOMAIN input
  <2>1. active(t)
    BY Writers DEF active, Count
  <2> QED
    BY <2>1, ActiveThreads
<1>2. output \in [DOMAIN input -> Key]
  BY DEF IInv, TypeOK
<1>3. CASE StoreOutput(t)
  BY <1>1, <1>2, <1>3 DEF StoreOutput
<1>4. CASE pc[t] = "done"
  <2>1. output[t] = KeysA[t]
    BY <1>1, <1>4 DEF Stored
  <2>2. ~LoadInput(t) /\ ~CopyBack(t) /\ ~StoreOutput(t)
    BY <1>4, ActingAt
  <2>3. KeysA'[t] = KeysA[t]
    <3>1. ASSUME NEW u \in Thread, CopyBack(u) \/ LoadInput(u) PROVE KeysA'[t] = KeysA[t]
      BY <2>2, <3>1 DEF CopyBack, LoadInput, IInv, TypeOK
    <3> QED
      BY <3>1, Writers
  <2>4. output'[t] = output[t]
    <3>1. ASSUME NEW u \in Thread, StoreOutput(u) PROVE output'[t] = output[t]
      BY <1>1, <1>2, <2>2, <3>1 DEF StoreOutput
    <3> QED
      BY <3>1, Writers
  <2> QED
    BY <2>1, <2>3, <2>4
<1> QED
  BY <1>3, <1>4, Entering

(* At first no thread has read a key.                                      *)
LEMMA InitSorting == Init => Sorting
<1> SUFFICES ASSUME Init PROVE Sorting
  OBVIOUS
<1>1. Tables
  BY InitTables
<1>2. \A t \in Thread : pc[t] = "load"
  BY DEF Init
<1>3. \A c \in Cell : pc[c] = "load"
  BY <1>2, OneThreadEach
<1> QED
  BY <1>1, <1>2, <1>3
     DEF Sorting, Taken, Ranked, SecondRow, Scattered, CopiedBack, Loaded, Stored, AfterCount, AfterPrefix

(* All parts of Sorting are kept together.                                 *)
LEMMA StepSorting ==
    ASSUME OneWave, Sorting, [Next]_vars
    PROVE  Sorting'
<1>1. Tables /\ Control /\ IInv /\ FitsTable
  BY DEF Sorting, Tables, Control, OneWave
<1>2. Tables'
  BY <1>1, StepTables
<1>3. Taken' /\ Ranked' /\ SecondRow'
  BY <1>1, StepTaken, StepRanked, StepSecondRow DEF Sorting
<1>4. Scattered' /\ CopiedBack'
  BY <1>1, StepScattered, StepCopiedBack DEF Sorting
<1>5. Loaded' /\ Stored'
  BY <1>1, StepLoaded, StepStored DEF Sorting
<1> QED
  BY <1>2, <1>3, <1>4, <1>5 DEF Sorting

(***************************************************************************)
(* With the keys in one wave, every key is scattered to its stable rank by *)
(* the current digit, the place line 131 says it gets.                     *)
(***************************************************************************)
THEOREM ScatterExact ==
    ASSUME OneWave
    PROVE  Spec => []ScattersToStableRank
<1>1. Init => Sorting
  BY InitSorting
<1>2. Sorting /\ [Next]_vars => Sorting'
  BY StepSorting
<1>3. Sorting => ScattersToStableRank
  <2> SUFFICES ASSUME Sorting, NEW t \in Thread, active(t), pc[t] = "scatter"
               PROVE  dst(t) = Cardinality({u \in Thread : /\ active(u)
                                                           /\ \/ bucket[u] < bucket[t]
                                                              \/ bucket[u] = bucket[t] /\ u < t})
    BY DEF ScattersToStableRank
  <2>1. IInv
    BY DEF Sorting, Tables, Control
  <2>2. dst(t) = Place(Values, t)
    BY Destination
  <2>3. DOMAIN Values = {u \in Thread : active(u)} /\ \A u \in Thread : active(u) => Values[u] = bucket[u]
    BY <2>1, ActiveThreads
  <2>4. Earlier(Values, t) = {u \in Thread : /\ active(u)
                                             /\ \/ bucket[u] < bucket[t]
                                                \/ bucket[u] = bucket[t] /\ u < t}
    BY <2>3 DEF Earlier
  <2> QED
    BY <2>2, <2>4 DEF Place
<1> QED
  BY <1>1, <1>2, <1>3, PTL DEF Spec

(* Two scatters write different words of KeysB.                            *)
LEMMA ScattersDiffer ==
    ASSUME OneWave, Sorting, NEW t \in Thread, NEW u \in Thread, t # u,
           active(t), pc[t] = "scatter", active(u), pc[u] = "scatter"
    PROVE  dst(t) # dst(u)
<1>1. IInv
  BY DEF Sorting, Tables, Control
<1>2. dst(t) = Place(Values, t) /\ dst(u) = Place(Values, u)
  BY Destination
<1>3. t \in 0 .. (Count - 1) /\ u \in 0 .. (Count - 1)
  BY <1>1, ActiveThreads
<1> QED
  BY <1>1, <1>2, <1>3, ActiveThreads, PlacesDiffer

(***************************************************************************)
(* With the keys in one wave no two threads race on a word of shared       *)
(* memory or of the output: what the barriers leave open, two scatters, is *)
(* excluded by the offsets, because distinct keys have distinct ranks.     *)
(***************************************************************************)
THEOREM RaceFree ==
    ASSUME OneWave
    PROVE  Spec => []NoRace
<1>1. Init => Sorting
  BY InitSorting
<1>2. Sorting /\ [Next]_vars => Sorting'
  BY StepSorting
<1>3. Sorting => NoRace
  <2> SUFFICES ASSUME Sorting, NEW t \in Thread, NEW u \in Thread, Conflict(t, u)
               PROVE  FALSE
    BY DEF NoRace
  <2>1. IInv /\ t # u
    BY DEF Sorting, Tables, Control, Conflict
  <2>2. pc[t] = "scatter" /\ pc[u] = "scatter"
    BY <2>1, OnlyScatterConflicts
  <2>3. PICK word : word \in Writes(t) /\ word \in Reads(u) \cup Writes(u)
    BY DEF Conflict
  <2>4. active(t) /\ word = <<"KeysB", dst(t)>>
    BY <2>2, <2>3 DEF Writes, If, Words
  <2>5. word \notin Reads(u)
    BY <2>2, <2>4 DEF Reads, If, Words
  <2>6. active(u) /\ word = <<"KeysB", dst(u)>>
    BY <2>2, <2>3, <2>5 DEF Writes, If, Words
  <2> QED
    BY <2>1, <2>2, <2>4, <2>6, ScattersDiffer
<1> QED
  BY <1>1, <1>2, <1>3, PTL DEF Spec

(* The row and the bucket of a cell.                                       *)
LEMMA RowOfCell ==
    ASSUME NEW c \in Cell
    PROVE  c \div Radix \in 0 .. (WaveNb - 1) /\ c % Radix \in Bucket
<1>1. c \in Nat /\ Radix \in Nat \ {0} /\ WaveNb \in Nat /\ WaveNb * Radix \in Nat /\ c < WaveNb * Radix
  BY SizesAssumption DEF Cell
<1>2. c \div Radix \in Nat /\ c % Radix \in Bucket /\ c = Radix * (c \div Radix) + (c % Radix)
  BY <1>1, DivMod DEF Bucket
<1> DEFINE w == c \div Radix
<1>3. ASSUME w >= WaveNb PROVE FALSE
  <2>1. PICK k \in Nat : w = WaveNb + k
    <3>1. w - WaveNb \in Nat /\ w = WaveNb + (w - WaveNb)
      BY <1>1, <1>2, <1>3
    <3> QED
      BY <3>1
  <2>2. Radix * w = WaveNb * Radix + k * Radix
    BY <1>1, <2>1
  <2>3. k * Radix \in Nat
    BY <1>1, <2>1
  <2>4. c % Radix \in Nat
    BY <1>2 DEF Bucket
  <2> QED
    BY <1>1, <1>2, <2>2, <2>3, <2>4
<1> QED
  BY <1>1, <1>2, <1>3

(***************************************************************************)
(* Every word a thread reads is inside its array.                          *)
(***************************************************************************)
LEMMA ReadsInBounds ==
    ASSUME OneWave, Sorting, NEW t \in Thread, NEW word \in Reads(t)
    PROVE  word[2] < Extent[word[1]]
<1>1. IInv /\ t \in Nat /\ GroupSize \in Nat /\ t < GroupSize /\ Radix \in Nat /\ WaveNb \in Nat
  BY SizesAssumption DEF Sorting, Tables, Control, Thread
<1>2. pc[t] \in DOMAIN Stage /\ bucket[t] \in Bucket
  BY <1>1 DEF IInv, TypeOK
<1>3. \A c \in Cell : c < WaveNb * Radix
  BY <1>1 DEF Cell
<1>4. \A b \in Bucket : b < Radix
  BY <1>1 DEF Bucket
<1>5. CASE pc[t] \in {"count", "copy", "store"}
  BY <1>1, <1>5 DEF Reads, If, Words, Extent
<1>6. CASE pc[t] = "hist"
  <2>1. PICK w \in 0 .. (WaveNb - 1) : t \in Bucket /\ word = <<"WaveBucketCounts", w * Radix + t>>
    BY <1>6 DEF Reads, If, Words
  <2> QED
    BY <1>3, <2>1, CellOf DEF Extent
<1>7. CASE pc[t] = "offset"
  <2>1. PICK b \in 0 .. (t - 1) : t \in Bucket /\ word = <<"Hist", b>>
    BY <1>7 DEF Reads, If, Words
  <2>2. b < Radix
    BY <1>1, <1>4, <2>1
  <2> QED
    BY <2>1, <2>2 DEF Extent
<1>8. CASE pc[t] = "waveoff"
  <2>1. PICK w \in 0 .. ((t \div Radix) - 1) :
            t \in Cell /\ word = <<"WaveBucketCounts", (w * Radix) + (t % Radix)>>
    BY <1>8 DEF Reads, If, Words
  <2>2. t \div Radix \in 0 .. (WaveNb - 1) /\ t % Radix \in Bucket
    BY <2>1, RowOfCell
  <2>3. w \in 0 .. (WaveNb - 1)
    BY <1>1, <2>2
  <2> QED
    BY <1>3, <2>1, <2>2, <2>3, CellOf DEF Extent
<1>9. CASE pc[t] = "scatter"
  <2>1. active(t) /\ word \in Words("BucketOffset", {bucket[t]}) \cup Words("WaveBucketOffsets", {OffsetCell(t)})
    BY <1>9 DEF Reads, If
  <2>2. CASE word = <<"BucketOffset", bucket[t]>>
    BY <1>2, <1>4, <2>2 DEF Extent
  <2>3. CASE word = <<"WaveBucketOffsets", OffsetCell(t)>>
    <3>1. waveIndex(t) = 0 /\ 1 \in 0 .. (WaveNb - 1) /\ bucket[t] \in Nat
      BY <1>1, <1>2, <2>1, ActiveThreads DEF OneWave, Bucket
    <3>2. OffsetCell(t) = 1 * Radix + bucket[t]
      BY <1>1, <3>1 DEF OffsetCell
    <3> QED
      BY <1>2, <1>3, <2>3, <3>1, <3>2, CellOf DEF Extent
  <2> QED
    BY <2>1, <2>2, <2>3 DEF Words
<1>10. CASE pc[t] \in {"load", "clear", "rank", "done"}
  BY <1>10 DEF Reads
<1> QED
  BY <1>2, <1>5, <1>6, <1>7, <1>8, <1>9, <1>10, StageNames

(* And so is every word it writes.                                         *)
LEMMA WritesInBounds ==
    ASSUME OneWave, Sorting, NEW t \in Thread, NEW word \in Writes(t)
    PROVE  word[2] < Extent[word[1]]
<1>1. IInv /\ t \in Nat /\ GroupSize \in Nat /\ t < GroupSize /\ Radix \in Nat /\ WaveNb \in Nat
  BY SizesAssumption DEF Sorting, Tables, Control, Thread
<1>2. pc[t] \in DOMAIN Stage /\ bucket[t] \in Bucket
  BY <1>1 DEF IInv, TypeOK
<1>3. \A c \in Cell : c < WaveNb * Radix
  BY <1>1 DEF Cell
<1>4. \A b \in Bucket : b < Radix
  BY <1>1 DEF Bucket
<1>5. CASE pc[t] \in {"load", "copy"}
  BY <1>1, <1>5 DEF Writes, If, Words, Extent
<1>6. CASE pc[t] \in {"clear", "hist", "offset", "waveoff"}
  BY <1>3, <1>4, <1>6 DEF Writes, If, Words, Extent
<1>7. CASE pc[t] = "count"
  <2>1. PICK b \in Bucket : word = <<"WaveBucketCounts", waveIndex(t) * Radix + b>>
    BY <1>7 DEF Writes, If, Words
  <2>2. waveIndex(t) \in 0 .. (WaveNb - 1)
    BY RowOfThread DEF OneWave
  <2> QED
    BY <1>3, <2>1, <2>2, CellOf DEF Extent
<1>8. CASE pc[t] = "scatter"
  <2>1. active(t) /\ word = <<"KeysB", dst(t)>>
    BY <1>8 DEF Writes, If, Words
  <2>2. dst(t) \in 0 .. (Count - 1) /\ Count \in Nat /\ Count <= GroupSize
    <3>1. dst(t) = Place(Values, t)
      BY <1>8, <2>1, Destination
    <3> QED
      BY <1>1, <2>1, <3>1, ActiveThreads, PlacesAreSlots
  <2>3. dst(t) < GroupSize
    BY <1>1, <2>2
  <2> QED
    BY <2>1, <2>3 DEF Extent
<1>9. CASE pc[t] = "store"
  <2>1. active(t) /\ word = <<"output", t>>
    BY <1>9 DEF Writes, If, Words
  <2> QED
    BY <2>1 DEF Extent, active
<1>10. CASE pc[t] \in {"rank", "done"}
  BY <1>10 DEF Writes
<1> QED
  BY <1>2, <1>5, <1>6, <1>7, <1>8, <1>9, <1>10, StageNames

(***************************************************************************)
(* With the keys in one wave no access leaves its array: neither the       *)
(* scatter of line 136, whose place is computed from three tables, nor the *)
(* odd index of line 134.                                                  *)
(***************************************************************************)
THEOREM InBounds ==
    ASSUME OneWave
    PROVE  Spec => []StaysInBounds
<1>1. Init => Sorting
  BY InitSorting
<1>2. Sorting /\ [Next]_vars => Sorting'
  BY StepSorting
<1>3. Sorting => StaysInBounds
  BY ReadsInBounds, WritesInBounds DEF StaysInBounds
<1> QED
  BY <1>1, <1>2, <1>3, PTL DEF Spec

-----------------------------------------------------------------------------
(***************************************************************************)
(* The refinement: what a step of a thread is to the abstract radix sort.  *)
(***************************************************************************)
LEMMA MaxIs ==
    ASSUME NEW S \in SUBSET Nat, NEW m \in S, \A y \in S : y <= m
    PROVE  Max(S) = m
<1>1. \A x \in S : (\A y \in S : x >= y) => x = m
  BY SMT
<1>2. m \in S /\ \A y \in S : m >= y
  OBVIOUS
<1> QED
  BY <1>1, <1>2 DEF Max

(* passesBar is the pass number of a thread that no other is ahead of.     *)
LEMMA PassesAre ==
    ASSUME NEW f, NEW t \in Thread, \A u \in Thread : f[u] \in Nat /\ f[u] <= f[t]
    PROVE  Max({f[u] : u \in Thread}) = f[t]
<1>1. {f[u] : u \in Thread} \in SUBSET Nat
  OBVIOUS
<1>2. f[t] \in {f[u] : u \in Thread} /\ \A y \in {f[u] : u \in Thread} : y <= f[t]
  OBVIOUS
<1> QED
  BY <1>1, <1>2, MaxIs

(* A pass is seen through KeysB from the first key copied back to the last.*)
LEMMA CopyingBackIs ==
    ASSUME IInv
    PROVE  CopyingBack <=> \E t, u \in Thread : pc[t] = "copy" /\ pass[t] < pass[u]
<1>1. ASSUME NEW t \in Thread, NEW u \in Thread, pc[t] = "copy"
      PROVE  Interval(u) > Interval(t) <=> pass[t] < pass[u]
  <2> DEFINE p == pass[t]  q == pass[u]  a == Stage[pc[u]]
  <2>1. p \in Nat /\ q \in Nat /\ a \in 0 .. 7 /\ (a = 0 => q = 0)
    <3>1. pc[u] \in DOMAIN Stage /\ (pc[u] = "load" => q = 0)
      BY DEF IInv, TypeOK, PassMatchesPc
    <3>2. a \in 0 .. 7 /\ (a = 0 => pc[u] = "load")
      BY <3>1, StageNames DEF Stage
    <3> QED
      BY <3>1, <3>2, IntervalType
  <2>2. Interval(t) = 7 * p + 7 /\ Interval(u) = 7 * q + a
    BY <1>1 DEF Interval, Stage
  <2> HIDE DEF p, q, a
  <2>3. 7 * q + a > 7 * p + 7 <=> p < q
    <3>1. CASE q <= p
      BY <2>1, <3>1
    <3>2. CASE q >= p + 1
      <4>1. a # 0
        BY <2>1, <3>2
      <4> QED
        BY <2>1, <3>2, <4>1
    <3> QED
      BY <2>1, <3>1, <3>2
  <2> QED
    BY <2>2, <2>3 DEF p, q
<1> QED
  BY <1>1 DEF CopyingBack

(* The same after a step.                                                  *)
LEMMA CopyingBackNext ==
    IInv' => (CopyingBack' <=> \E t, u \in Thread : pc'[t] = "copy" /\ pass'[t] < pass'[u])
<1> DEFINE P == \E t, u \in Thread : pc[t] = "copy" /\ pass[t] < pass[u]
<1>1. IInv => (CopyingBack <=> P)
  BY CopyingBackIs
<1> HIDE DEF P
<1>2. IInv' => (CopyingBack' <=> P')
  BY <1>1, PTL
<1> QED
  BY <1>2 DEF P

(* The size of a set is the same in the abstract specification.            *)
LEMMA SameSize == \A S : Passes!Cardinality(S) = Cardinality(S)
BY DEF Passes!Cardinality, Cardinality

(* Until the last key is loaded the abstract keys are the input, and then  *)
(* the loaded keys are the same.                                           *)
LEMMA LoadStutters ==
    ASSUME OneWave, Sorting, Sorting', [Next]_vars, NEW t \in Thread, LoadInput(t)
    PROVE  UNCHANGED <<keysBar, passesBar>>
<1>1. Control /\ IInv /\ IInv' /\ pc[t] = "load" /\ Released(t) /\ UNCHANGED <<input, pass>>
  BY ActingAt DEF Sorting, Tables, Control, LoadInput, buffers
<1>2. keysBar = input
  BY <1>1 DEF keysBar, SomeLoading
<1>3. passesBar' = passesBar
  BY <1>1 DEF passesBar
<1>4. CASE SomeLoading'
  BY <1>1, <1>2, <1>3, <1>4 DEF keysBar
<1>5. CASE ~SomeLoading'
  <2>1. \A u \in Thread : pass[u] = 0
    BY <1>1, Nearby DEF IInv, PassMatchesPc
  <2>2. ~CopyingBack'
    <3>1. \A u \in Thread : pass'[u] = 0
      BY <1>1, <2>1
    <3>2. ~\E u, v \in Thread : pc'[u] = "copy" /\ pass'[u] < pass'[v]
      BY <3>1
    <3>3. CopyingBack' <=> \E u, v \in Thread : pc'[u] = "copy" /\ pass'[u] < pass'[v]
      BY <1>1, CopyingBackNext
    <3> QED
      BY <3>2, <3>3
  <2>3. \A i \in 0 .. (Count - 1) : KeysA'[i] = input[i]
    <3>1. \A i \in 0 .. (Count - 1) : i \in Thread /\ active(i) /\ active(i)'
      BY <1>1, ActiveThreads DEF active, Count
    <3>2. \A u \in Thread : pc'[u] # "load" /\ pass'[u] = 0
      BY <1>1, <1>5, <2>1 DEF SomeLoading
    <3> QED
      BY <1>1, <3>1, <3>2 DEF Sorting, Loaded
  <2>4. DOMAIN input = 0 .. (Count - 1) /\ input \in [0 .. (Count - 1) -> Key]
    BY <1>1, InputShape DEF IInv, TypeOK
  <2>5. keysBar' = [i \in DOMAIN input |-> KeysA'[i]]
    BY <1>1, <1>5, <2>2 DEF keysBar
  <2>6. keysBar' = input
    BY <2>3, <2>4, <2>5
  <2> QED
    BY <1>2, <1>3, <2>6
<1> QED
  BY <1>4, <1>5

(* Between the loading of keys and the copying back nothing is seen of a   *)
(* pass: the keys it moves to KeysB do not show yet.                       *)
LEMMA QuietStutters ==
    ASSUME Control, Control', [Next]_vars, ~\E t \in Thread : LoadInput(t) \/ CopyBack(t)
    PROVE  UNCHANGED <<keysBar, passesBar>>
<1>1. IInv /\ IInv' /\ UNCHANGED <<input, KeysA, pass>>
  BY Writers DEF Control
<1>2. passesBar' = passesBar
  BY <1>1 DEF passesBar
<1>3. CASE UNCHANGED vars
  BY <1>3 DEF vars, buffers, keysBar, passesBar, SomeLoading, CopyingBack, Interval
<1>4. CASE \E u \in Thread : Released(u) /\ pc[u] \notin {"load", "copy"}
  <2>1. PICK u \in Thread : Released(u) /\ pc[u] \notin {"load", "copy"}
    BY <1>4
  <2>2. pc[u] \in DOMAIN Stage
    BY <1>1 DEF IInv, TypeOK
  <2>3. \A t \in Thread : pass[t] = pass[u] /\ pc[t] # "load"
    BY <2>1, <2>2, Nearby, StageNames DEF AfterPrefix
  <2>4. ~\E s, t \in Thread : pass[s] < pass[t]
    <3>1. pass[u] \in Nat
      BY <1>1, IntervalType
    <3> QED
      BY <2>3, <3>1
  <2>5. ~SomeLoading /\ ~SomeLoading'
    BY <1>1, <2>3, Entering DEF SomeLoading
  <2>6. ~CopyingBack /\ ~CopyingBack'
    BY <1>1, <2>4, CopyingBackIs, CopyingBackNext
  <2>7. keysBar = [i \in DOMAIN input |-> KeysA[i]] /\ keysBar' = [i \in DOMAIN input' |-> KeysA'[i]]
    BY <2>5, <2>6 DEF keysBar
  <2> QED
    BY <1>1, <1>2, <2>7
<1>5. ASSUME ~UNCHANGED vars PROVE \E u \in Thread : Released(u) /\ pc[u] \notin {"load", "copy"}
  <2>1. CASE \E t \in Thread : ThreadStep(t)
    BY <2>1, ActingAt DEF ThreadStep
  <2>2. CASE \E w \in Wave : WaveStep(w)
    <3>1. PICK w \in Wave : WaveStep(w)
      BY <2>2
    <3>2. PICK u \in Thread : waveIndex(u) = w
      BY WaveHasLanes
    <3> QED
      BY <3>1, <3>2, ActingAt DEF WaveStep
  <2> QED
    BY <1>5, <2>1, <2>2 DEF Next, Finished
<1> QED
  BY <1>3, <1>4, <1>5

(* What copying one key back changes.                                      *)
LEMMA CopyingOne ==
    ASSUME OneWave, Sorting, Sorting', [Next]_vars, NEW t \in Thread, CopyBack(t)
    PROVE  /\ UNCHANGED input
           /\ \A u \in Thread : \/ pc[u] = "copy" /\ pass[u] = pass[t]
                                \/ pc[u] # "copy" /\ pass[u] = pass[t] + 1
           /\ ~SomeLoading
           /\ keysBar' = [i \in 0 .. (Count - 1) |-> KeysB[i]]
           /\ passesBar' = pass[t] + 1
<1>1. Control /\ IInv /\ IInv' /\ pc[t] = "copy" /\ Released(t)
  BY ActingAt DEF Sorting, Tables, Control
<1>2. UNCHANGED <<input, KeysB>> /\ pc'[t] \in {"store", "clear"} /\ pass'[t] = pass[t] + 1
  BY <1>1 DEF CopyBack, Goto, IInv, TypeOK, buffers
<1>3. /\ \A u \in Thread : u # t => pc'[u] = pc[u] /\ pass'[u] = pass[u] /\ KeysA'[u] = KeysA[u]
      /\ active(t) => KeysA'[t] = KeysB[t]
  BY <1>1 DEF CopyBack, Goto, IInv, TypeOK
<1>4. \A u \in Thread : \/ pc[u] = "copy" /\ pass[u] = pass[t]
                        \/ pc[u] # "copy" /\ pass[u] = pass[t] + 1
  BY <1>1, Nearby
<1>5. \A u \in Thread : pc[u] # "load"
  BY <1>1, Nearby
<1>6. ~SomeLoading /\ ~SomeLoading'
  BY <1>1, <1>5, Entering DEF SomeLoading
<1>7. \A u \in Thread : pass[u] \in Nat /\ pass'[u] \in Nat
  <2>1. \A u \in Thread : pass[u] \in Nat
    BY <1>1, IntervalType
  <2> QED
    BY <1>2, <1>3, <2>1
<1>8. passesBar' = pass[t] + 1
  <2>1. \A u \in Thread : pass'[u] \in Nat /\ pass'[u] <= pass'[t]
    BY <1>2, <1>3, <1>4, <1>7
  <2> QED
    BY <1>2, <2>1, PassesAre DEF passesBar
<1>9. DOMAIN input = 0 .. (Count - 1) /\ \A i \in 0 .. (Count - 1) : i \in Thread /\ active(i)
  BY <1>1, ActiveThreads
<1>10. CASE CopyingBack'
  <2>1. keysBar' = [i \in DOMAIN input' |-> KeysB'[i]]
    BY <1>6, <1>10 DEF keysBar
  <2> QED
    BY <1>2, <1>4, <1>6, <1>8, <1>9, <2>1
<1>11. CASE ~CopyingBack'
  <2>1. ASSUME NEW u \in Thread, u # t PROVE pc[u] # "copy"
    <3>1. ~(pc'[u] = "copy" /\ pass'[u] < pass'[t])
      BY <1>1, <1>11, CopyingBackNext
    <3> QED
      BY <1>2, <1>3, <1>4, <1>7, <2>1, <3>1
  <2>2. ASSUME NEW u \in Thread, active(u) PROVE KeysA'[u] = KeysB[u]
    <3>1. CASE u = t
      BY <1>3, <2>2, <3>1
    <3>2. CASE u # t
      <4>1. pass[t] < pass[u]
        BY <1>4, <1>7, <2>1, <3>2
      <4> QED
        BY <1>1, <1>3, <2>2, <3>2, <4>1 DEF Sorting, CopiedBack
    <3> QED
      BY <3>1, <3>2
  <2>3. keysBar' = [i \in 0 .. (Count - 1) |-> KeysA'[i]]
    BY <1>2, <1>6, <1>9, <1>11 DEF keysBar
  <2>4. keysBar' = [i \in 0 .. (Count - 1) |-> KeysB[i]]
    BY <1>9, <2>2, <2>3
  <2> QED
    BY <1>2, <1>4, <1>6, <1>8, <2>4
<1> QED
  BY <1>2, <1>4, <1>6, <1>8, <1>9, <1>10, <1>11 DEF keysBar

(* The first key copied back is the abstract pass.                         *)
LEMMA FirstCopyIsPass ==
    ASSUME OneWave, Sorting, Sorting', [Next]_vars, NEW t \in Thread, CopyBack(t),
           \A u \in Thread : pc[u] = "copy"
    PROVE  Passes!Pass
<1> DEFINE n == Count
           p == pass[t]
           s == [i \in 0 .. (n - 1) |-> KeysA[i]]
           r == [i \in 0 .. (n - 1) |-> KeysB[i]]
<1>1. Control /\ IInv
  BY DEF Sorting, Tables, Control
<1>2. keysBar' = r /\ passesBar' = p + 1 /\ ~SomeLoading /\ \A u \in Thread : pass[u] = p
  BY CopyingOne
<1>3. p \in Nat /\ p < Digits
  BY <1>1, IntervalType DEF IInv, PassMatchesPc
<1>4. DOMAIN input = 0 .. (n - 1) /\ \A i \in 0 .. (n - 1) : i \in Thread /\ active(i)
  BY <1>1, ActiveThreads
<1>5. ~CopyingBack
  BY <1>1, <1>2, <1>3, CopyingBackIs
<1>6. keysBar = s
  BY <1>2, <1>4, <1>5 DEF keysBar
<1>7. passesBar = p
  BY <1>2, <1>3, PassesAre DEF passesBar
<1>8. \A i \in 0 .. (n - 1) : r[Place(Values, i)] = s[i] /\ Values[i] = s[i][p]
  <2> SUFFICES ASSUME NEW i \in 0 .. (n - 1)
               PROVE  r[Place(Values, i)] = s[i] /\ Values[i] = s[i][p]
    OBVIOUS
  <2>1. i \in Thread /\ active(i) /\ pc[i] = "copy"
    BY <1>4
  <2>2. KeysB[Place(Values, i)] = key[i]
    BY <2>1 DEF Sorting, Scattered
  <2>3. key[i] = KeysA[i] /\ bucket[i] = KeysA[i][p]
    BY <1>2, <2>1 DEF Sorting, Taken, AfterCount
  <2>4. Place(Values, i) \in 0 .. (n - 1) /\ Values[i] = bucket[i]
    BY <1>1, <2>1, ActiveThreads, PlacesAreSlots
  <2> QED
    BY <2>2, <2>3, <2>4
<1>9. \A i \in 0 .. (n - 1) : Passes!StableRank(s, p, i) = Place(Values, i)
  <2> SUFFICES ASSUME NEW i \in 0 .. (n - 1)
               PROVE  Passes!StableRank(s, p, i) = Place(Values, i)
    OBVIOUS
  <2>1. DOMAIN Values = DOMAIN s /\ i \in DOMAIN s
    BY DEF Values
  <2>2. \A j \in DOMAIN s : Values[j] = s[j][p]
    BY <1>8
  <2> HIDE DEF s, p, n
  <2>3. {j \in DOMAIN s : \/ s[j][p] < s[i][p]
                          \/ s[j][p] = s[i][p] /\ j < i} = Earlier(Values, i)
    BY <2>1, <2>2 DEF Earlier
  <2>4. Passes!StableRank(s, p, i)
          = Cardinality({j \in DOMAIN s : \/ s[j][p] < s[i][p]
                                          \/ s[j][p] = s[i][p] /\ j < i})
    BY SameSize DEF Passes!StableRank
  <2> QED
    BY <2>3, <2>4 DEF Place
<1>10. r \in [0 .. (n - 1) -> {s[i] : i \in 0 .. (n - 1)}]
  <2>1. n \in Nat /\ Values \in [0 .. (n - 1) -> Nat]
    BY <1>1, ActiveThreads
  <2>2. ASSUME NEW k \in 0 .. (n - 1) PROVE r[k] \in {s[i] : i \in 0 .. (n - 1)}
    <3>1. PICK i \in 0 .. (n - 1) : Place(Values, i) = k
      BY <2>1, PlacesCover
    <3>2. r[k] = s[i]
      BY <1>8, <3>1
    <3> QED
      BY <3>2
  <2> QED
    BY <2>2
<1> HIDE DEF r
<1>11. DOMAIN s = 0 .. (n - 1)
  OBVIOUS
<1> HIDE DEF s, p, n
<1> QED
  BY <1>2, <1>3, <1>6, <1>7, <1>8, <1>9, <1>10, <1>11 DEF Passes!Pass

(* The other keys copied back change nothing that is seen.                 *)
LEMMA LaterCopyStutters ==
    ASSUME OneWave, Sorting, Sorting', [Next]_vars, NEW t \in Thread, CopyBack(t),
           NEW u \in Thread, pc[u] # "copy"
    PROVE  UNCHANGED <<keysBar, passesBar>>
<1>1. IInv /\ pc[t] = "copy"
  BY ActingAt DEF Sorting, Tables, Control
<1>2. /\ keysBar' = [i \in 0 .. (Count - 1) |-> KeysB[i]] /\ passesBar' = pass[t] + 1
      /\ ~SomeLoading
      /\ \A v \in Thread : pass[v] \in {pass[t], pass[t] + 1}
      /\ pass[u] = pass[t] + 1
  BY CopyingOne
<1>3. pass[t] \in Nat
  BY <1>1, IntervalType
<1>4. CopyingBack
  BY <1>1, <1>2, <1>3, CopyingBackIs
<1>5. keysBar = [i \in 0 .. (Count - 1) |-> KeysB[i]]
  <2>1. DOMAIN input = 0 .. (Count - 1)
    BY <1>1, ActiveThreads
  <2> QED
    BY <1>2, <1>4, <2>1 DEF keysBar
<1>6. passesBar = pass[t] + 1
  <2>1. \A v \in Thread : pass[v] \in Nat /\ pass[v] <= pass[u]
    BY <1>2, <1>3
  <2> QED
    BY <1>2, <2>1, PassesAre DEF passesBar
<1> QED
  BY <1>2, <1>5, <1>6

(* Every step of the workgroup is an abstract pass or nothing.             *)
LEMMA StepRefines ==
    ASSUME OneWave, Sorting, Sorting', [Next]_vars
    PROVE  Passes!Pass \/ UNCHANGED <<keysBar, passesBar>>
<1>1. Control /\ Control'
  BY DEF Sorting, Tables
<1>2. ASSUME NEW t \in Thread, LoadInput(t) PROVE UNCHANGED <<keysBar, passesBar>>
  BY <1>2, LoadStutters
<1>3. ASSUME NEW t \in Thread, CopyBack(t) PROVE Passes!Pass \/ UNCHANGED <<keysBar, passesBar>>
  <2>1. CASE \A u \in Thread : pc[u] = "copy"
    BY <1>3, <2>1, FirstCopyIsPass
  <2>2. CASE \E u \in Thread : pc[u] # "copy"
    BY <1>3, <2>2, LaterCopyStutters
  <2> QED
    BY <2>1, <2>2
<1> QED
  BY <1>1, <1>2, <1>3, QuietStutters

(* A dispatch starts with the input and no pass made.                      *)
LEMMA InitRefines ==
    ASSUME Init
    PROVE  keysBar = input /\ passesBar = 0 /\ Passes!Init
<1>1. 0 \in Thread
  BY SizesAssumption DEF Thread
<1>2. input \in Inputs /\ \A t \in Thread : pc[t] = "load" /\ pass[t] = 0
  BY DEF Init
<1>3. keysBar = input
  BY <1>1, <1>2 DEF keysBar, SomeLoading
<1>4. passesBar = 0
  <2>1. \A t \in Thread : pass[t] \in Nat /\ pass[t] <= pass[0]
    BY <1>1, <1>2
  <2> QED
    BY <1>1, <1>2, <2>1, PassesAre DEF passesBar
<1> QED
  BY <1>2, <1>3, <1>4 DEF Passes!Init

(***************************************************************************)
(* With the keys in one wave the workgroup, its threads interleaved in     *)
(* every way the barriers allow, implements the abstract radix sort: it    *)
(* moves all keys to their stable ranks by one digit after another.        *)
(***************************************************************************)
THEOREM Implements ==
    ASSUME OneWave
    PROVE  Spec => ImplementsPasses
<1>1. Init => Sorting /\ Passes!Init
  BY InitSorting, InitRefines
<1>2. Sorting /\ [Next]_vars => Sorting'
  BY StepSorting
<1>3. Sorting /\ Sorting' /\ [Next]_vars => [Passes!Next]_<<keysBar, passesBar>>
  BY StepRefines DEF Passes!Next
<1> QED
  BY <1>1, <1>2, <1>3, PTL DEF Spec, ImplementsPasses, Passes!Spec, Passes!vars

-----------------------------------------------------------------------------
(***************************************************************************)
(* What the passes achieve: after d of them the keys are sorted by their d *)
(* low digits, and they are the keys of the input.                         *)
(***************************************************************************)
LowEqual(a, b, d) == \A e \in 0 .. (d - 1) : a[e] = b[e]
LowLess(a, b, d)  ==
    \E e \in 0 .. (d - 1) : a[e] < b[e] /\ \A f \in 0 .. (d - 1) : f > e => a[f] = b[f]
SortedBelow(s, d) ==
    \A i, j \in DOMAIN s : i < j => LowEqual(s[i], s[j], d) \/ LowLess(s[i], s[j], d)

Slots(s, k)      == {i \in DOMAIN s : s[i] = k}
SameCounts(s, t) == \A k \in Key : Cardinality(Slots(s, k)) = Cardinality(Slots(t, k))

Arranged ==
    /\ keysBar \in [0 .. (Count - 1) -> Key] /\ passesBar \in 0 .. Digits
    /\ SortedBelow(keysBar, passesBar)
    /\ SameCounts(input, keysBar)

(* r holds the keys of s at their stable ranks by digit d.                 *)
Ranks(s, d) == [i \in DOMAIN s |-> s[i][d]]
MovedBy(s, r, d) == \A i \in DOMAIN s : r[Place(Ranks(s, d), i)] = s[i]

(* A stable pass by one more digit sorts by one more digit.                *)
LEMMA PassSorts ==
    ASSUME NEW n \in Nat, NEW s \in [0 .. (n - 1) -> Key], NEW r \in [0 .. (n - 1) -> Key],
           NEW d \in 0 .. (Digits - 1), SortedBelow(s, d), MovedBy(s, r, d)
    PROVE  SortedBelow(r, d + 1)
<1> DEFINE D == 0 .. (n - 1)
           v == Ranks(s, d)
<1>1. DOMAIN s = D /\ DOMAIN r = D
  OBVIOUS
<1>2. v \in [D -> Nat] /\ \A i \in D : v[i] = s[i][d]
  <2>1. \A i \in D : s[i][d] \in Nat
    BY KeyFacts DEF Bucket
  <2> QED
    BY <1>1, <2>1 DEF Ranks
<1>3. d \in Nat /\ 0 .. ((d + 1) - 1) = 0 .. (d - 1) \cup {d}
  BY SizesAssumption
<1> HIDE DEF v
<1>4. \A p \in D : \E i \in D : Place(v, i) = p
  BY <1>2, PlacesCover
<1> SUFFICES ASSUME NEW p \in D, NEW q \in D, p < q
             PROVE  LowEqual(r[p], r[q], d + 1) \/ LowLess(r[p], r[q], d + 1)
  BY <1>1 DEF SortedBelow
<1>5. PICK i \in D : Place(v, i) = p
  BY <1>4
<1>6. PICK j \in D : Place(v, j) = q
  BY <1>4
<1>7. r[p] = s[i] /\ r[q] = s[j]
  BY <1>1, <1>5, <1>6 DEF MovedBy, v
<1>8. v[i] < v[j] \/ (v[i] = v[j] /\ i < j)
  <2>1. v[i] \in Nat /\ v[j] \in Nat /\ i \in Nat /\ j \in Nat /\ p \in Nat /\ q \in Nat
    BY <1>2
  <2>2. i # j
    BY <1>5, <1>6, <2>1
  <2>3. ~(v[j] < v[i] \/ (v[j] = v[i] /\ j < i))
    <3>1. ~(q < p)
      BY <2>1
    <3> QED
      BY <1>2, <1>5, <1>6, <3>1, PlacesAreOrdered
  <2> QED
    BY <2>1, <2>2, <2>3
<1>9. CASE v[i] < v[j]
  <2>1. s[i][d] < s[j][d] /\ \A f \in 0 .. ((d + 1) - 1) : ~(f > d)
    BY <1>2, <1>3, <1>9
  <2> QED
    BY <1>3, <1>7, <2>1 DEF LowLess
<1>10. CASE v[i] = v[j] /\ i < j
  <2>1. s[i][d] = s[j][d]
    BY <1>2, <1>10
  <2>2. CASE LowEqual(s[i], s[j], d)
    BY <1>3, <1>7, <2>1, <2>2 DEF LowEqual
  <2>3. CASE LowLess(s[i], s[j], d)
    BY <1>3, <1>7, <2>1, <2>3 DEF LowLess
  <2> QED
    BY <1>1, <1>10, <2>2, <2>3 DEF SortedBelow
<1> QED
  BY <1>8, <1>9, <1>10

(* A pass loses no key and makes up none.                                  *)
LEMMA PassKeeps ==
    ASSUME NEW n \in Nat, NEW s \in [0 .. (n - 1) -> Key], NEW r \in [0 .. (n - 1) -> Key],
           NEW d \in 0 .. (Digits - 1), MovedBy(s, r, d), NEW k
    PROVE  Cardinality(Slots(s, k)) = Cardinality(Slots(r, k))
<1> DEFINE D == 0 .. (n - 1)
           v == Ranks(s, d)
           f == [i \in Slots(s, k) |-> Place(v, i)]
<1>1. DOMAIN s = D /\ DOMAIN r = D
  OBVIOUS
<1>2. v \in [D -> Nat]
  <2>1. \A i \in D : s[i][d] \in Nat
    BY KeyFacts DEF Bucket
  <2> QED
    BY <1>1, <2>1 DEF Ranks
<1>3. \A i \in D : r[Place(v, i)] = s[i]
  BY <1>1 DEF MovedBy
<1>4. Slots(s, k) \in SUBSET D /\ IsFiniteSet(Slots(s, k))
  <2>1. Slots(s, k) \in SUBSET D /\ IsFiniteSet(D)
    BY <1>1, FS_Interval DEF Slots
  <2> QED
    BY <2>1, FS_Subset
<1> HIDE DEF v
<1>5. \A p \in D : \E i \in D : Place(v, i) = p
  BY <1>2, PlacesCover
<1>6. f \in [Slots(s, k) -> Slots(r, k)]
  <2>1. ASSUME NEW i \in Slots(s, k) PROVE Place(v, i) \in Slots(r, k)
    <3>1. i \in D /\ s[i] = k
      BY <1>1, <2>1 DEF Slots
    <3>2. Place(v, i) \in D /\ r[Place(v, i)] = k
      BY <1>2, <1>3, <3>1, PlacesAreSlots
    <3> QED
      BY <1>1, <3>2 DEF Slots
  <2> QED
    BY <2>1
<1>7. f \in Injection(Slots(s, k), Slots(r, k))
  <2>1. \A i, j \in Slots(s, k) : i # j => f[i] # f[j]
    BY <1>2, <1>4, PlacesDiffer
  <2> QED
    BY <1>6, <2>1 DEF Injection, IsInjective
<1>8. f \in Surjection(Slots(s, k), Slots(r, k))
  <2>1. ASSUME NEW p \in Slots(r, k) PROVE \E i \in Slots(s, k) : f[i] = p
    <3>1. p \in D /\ r[p] = k
      <4>1. p \in DOMAIN r /\ r[p] = k
        BY <2>1 DEF Slots
      <4> QED
        BY <1>1, <4>1
    <3>2. PICK i \in D : Place(v, i) = p
      BY <1>5, <3>1
    <3>3. i \in Slots(s, k)
      BY <1>1, <1>3, <3>1, <3>2 DEF Slots
    <3> QED
      BY <3>2, <3>3
  <2> QED
    BY <1>6, <2>1 DEF Surjection
<1>9. ExistsBijection(Slots(s, k), Slots(r, k))
  BY <1>7, <1>8 DEF ExistsBijection, Bijection
<1> QED
  BY <1>4, <1>9, FS_Bijection

(* The abstract pass moves keys to their places.                           *)
LEMMA PassMoves ==
    ASSUME Passes!Pass, Arranged
    PROVE  /\ keysBar' \in [0 .. (Count - 1) -> Key]
           /\ passesBar \in 0 .. (Digits - 1) /\ passesBar' = passesBar + 1
           /\ MovedBy(keysBar, keysBar', passesBar)
<1>1. /\ DOMAIN keysBar = 0 .. (Count - 1)
      /\ \A i \in DOMAIN keysBar : keysBar[i] \in Key
      /\ passesBar \in 0 .. Digits /\ Digits \in Nat
  BY SizesAssumption DEF Arranged
<1>2. /\ passesBar < Digits /\ passesBar' = passesBar + 1
      /\ keysBar' \in [DOMAIN keysBar -> {keysBar[i] : i \in DOMAIN keysBar}]
      /\ \A i \in DOMAIN keysBar : keysBar'[Passes!StableRank(keysBar, passesBar, i)] = keysBar[i]
  BY DEF Passes!Pass
<1>3. keysBar' \in [0 .. (Count - 1) -> Key]
  BY <1>1, <1>2
<1> DEFINE s == keysBar
           d == passesBar
<1>4. ASSUME NEW i \in DOMAIN s
      PROVE  Passes!StableRank(s, d, i) = Place(Ranks(s, d), i)
  <2> HIDE DEF s, d
  <2>1. DOMAIN Ranks(s, d) = DOMAIN s /\ \A j \in DOMAIN s : Ranks(s, d)[j] = s[j][d]
    BY DEF Ranks
  <2>2. {j \in DOMAIN s : \/ s[j][d] < s[i][d]
                          \/ s[j][d] = s[i][d] /\ j < i} = Earlier(Ranks(s, d), i)
    BY <1>4, <2>1 DEF Earlier
  <2>3. Passes!StableRank(s, d, i)
          = Cardinality({j \in DOMAIN s : \/ s[j][d] < s[i][d]
                                          \/ s[j][d] = s[i][d] /\ j < i})
    BY SameSize DEF Passes!StableRank
  <2> QED
    BY <2>2, <2>3 DEF Place
<1> QED
  BY <1>1, <1>2, <1>3, <1>4 DEF MovedBy

(* The abstract pass keeps the keys arranged, by one digit more.           *)
LEMMA StepArranged ==
    ASSUME OneWave, IInv, Arranged, UNCHANGED input,
           Passes!Pass \/ UNCHANGED <<keysBar, passesBar>>
    PROVE  Arranged'
<1>1. Count' = Count /\ Count \in Nat
  BY ActiveThreads DEF Count
<1>2. CASE UNCHANGED <<keysBar, passesBar>>
  BY <1>1, <1>2 DEF Arranged, SortedBelow, SameCounts, Slots, LowEqual, LowLess
<1>3. CASE Passes!Pass
  <2> DEFINE s == keysBar
             r == keysBar'
             d == passesBar
             n == Count
  <2>1. /\ s \in [0 .. (n - 1) -> Key] /\ r \in [0 .. (n - 1) -> Key]
        /\ d \in 0 .. (Digits - 1) /\ passesBar' = d + 1 /\ SortedBelow(s, d) /\ MovedBy(s, r, d)
    BY <1>3, PassMoves DEF Arranged
  <2>2. SameCounts(input, s)
    BY DEF Arranged
  <2>3. d + 1 \in 0 .. Digits
    BY <2>1, SizesAssumption
  <2> HIDE DEF s, r, d, n
  <2>4. n \in Nat
    BY <1>1 DEF n
  <2>5. SortedBelow(r, d + 1)
    BY <2>1, <2>4, PassSorts
  <2>6. \A k \in Key : Cardinality(Slots(s, k)) = Cardinality(Slots(r, k))
    BY <2>1, <2>4, PassKeeps
  <2>7. SameCounts(input, r)
    BY <2>2, <2>6 DEF SameCounts
  <2>8. keysBar' \in [0 .. (n - 1) -> Key] /\ passesBar' \in 0 .. Digits
    BY <2>1, <2>3 DEF r
  <2>9. SortedBelow(keysBar', passesBar')
    BY <2>1, <2>5 DEF r
  <2>10. SameCounts(input', keysBar')
    BY <2>7 DEF r
  <2> QED
    BY <1>1, <2>8, <2>9, <2>10 DEF Arranged, n, SortedBelow, SameCounts, Slots, LowEqual, LowLess
<1> QED
  BY <1>2, <1>3

(* The input is sorted by no digit.                                        *)
LEMMA InitArranged == Init => Arranged
<1> SUFFICES ASSUME Init PROVE Arranged
  OBVIOUS
<1>1. keysBar = input /\ passesBar = 0 /\ input \in Inputs
  BY InitRefines DEF Init
<1>2. input \in [0 .. (Count - 1) -> Key]
  BY <1>1, InputShape
<1>3. SortedBelow(keysBar, 0)
  BY DEF SortedBelow, LowEqual
<1>4. SameCounts(input, keysBar)
  BY <1>1 DEF SameCounts
<1> QED
  BY <1>1, <1>2, <1>3, <1>4, SizesAssumption DEF Arranged

(* Sorted by all digits is sorted as numbers.                              *)
LEMMA LowIsAtMost ==
    ASSUME NEW a \in Key, NEW b \in Key, LowEqual(a, b, Digits) \/ LowLess(a, b, Digits)
    PROVE  Passes!AtMost(a, b)
<1>1. DOMAIN a = 0 .. (Digits - 1) /\ DOMAIN b = 0 .. (Digits - 1)
  BY DEF Key
<1>2. CASE LowEqual(a, b, Digits)
  <2> DEFINE D == 0 .. (Digits - 1)
  <2>1. a = [e \in D |-> a[e]] /\ b = [e \in D |-> b[e]] /\ \A e \in D : a[e] = b[e]
    BY <1>2 DEF LowEqual, Key
  <2> HIDE DEF D
  <2>2. a = b
    BY <2>1
  <2> QED
    BY <2>2 DEF Passes!AtMost
<1>3. CASE LowLess(a, b, Digits)
  BY <1>1, <1>3 DEF LowLess, Passes!AtMost
<1> QED
  BY <1>2, <1>3

(* When all threads are done, what they stored is the abstract keys.       *)
LEMMA DoneIs ==
    ASSUME OneWave, Sorting, Done
    PROVE  output = keysBar /\ passesBar = Digits
<1>1. IInv /\ 0 \in Thread
  BY SizesAssumption DEF Sorting, Tables, Control, Thread
<1>2. \A t \in Thread : pc[t] = "done" /\ pass[t] = Digits
  BY <1>1 DEF Done, IInv, PassMatchesPc
<1>3. passesBar = Digits
  <2>1. \A t \in Thread : pass[t] \in Nat /\ pass[t] <= pass[0]
    BY <1>1, <1>2, SizesAssumption
  <2> QED
    BY <1>1, <1>2, <2>1, PassesAre DEF passesBar
<1>4. ~SomeLoading /\ ~CopyingBack
  BY <1>2 DEF SomeLoading, CopyingBack
<1>5. DOMAIN input = 0 .. (Count - 1) /\ \A i \in 0 .. (Count - 1) : i \in Thread /\ active(i)
  BY <1>1, ActiveThreads
<1>6. keysBar = [i \in DOMAIN input |-> KeysA[i]]
  BY <1>4 DEF keysBar
<1>7. output \in [DOMAIN input -> Key] /\ \A i \in DOMAIN input : output[i] = KeysA[i]
  BY <1>1, <1>2, <1>5 DEF IInv, TypeOK, Sorting, Stored
<1> QED
  BY <1>3, <1>6, <1>7

(***************************************************************************)
(* With the keys in one wave the shader sorts: when all threads are done   *)
(* the output holds the keys of the input, each as often as the input, in  *)
(* ascending unsigned order.  For every input, wave size, group size,      *)
(* radix, number of digits and junk in shared memory.                      *)
(***************************************************************************)
THEOREM Sorts ==
    ASSUME OneWave
    PROVE  Spec => []OutputSorted
<1>1. Init => Sorting /\ Arranged
  BY InitSorting, InitArranged
<1>2. Sorting /\ Arranged /\ [Next]_vars => Sorting' /\ Arranged'
  <2> SUFFICES ASSUME Sorting, Arranged, [Next]_vars PROVE Sorting' /\ Arranged'
    OBVIOUS
  <2>1. Sorting' /\ IInv /\ UNCHANGED input
    BY StepSorting, Writers DEF Sorting, Tables, Control
  <2> QED
    BY <2>1, StepRefines, StepArranged
<1>3. Sorting /\ Arranged => OutputSorted
  <2> SUFFICES ASSUME Sorting, Arranged, Done
               PROVE  Passes!Sorted(output) /\ Passes!SameKeys(input, output)
    BY DEF OutputSorted
  <2>1. /\ output \in [0 .. (Count - 1) -> Key] /\ SortedBelow(output, Digits)
        /\ SameCounts(input, output)
    BY DoneIs DEF Arranged
  <2>2. Passes!Sorted(output)
    BY <2>1, LowIsAtMost DEF SortedBelow, Passes!Sorted
  <2>3. \A i \in DOMAIN input : input[i] \in Key
    BY InputShape DEF Sorting, Tables, Control, IInv, TypeOK
  <2>4. \A i \in DOMAIN output : output[i] \in Key
    BY <2>1
  <2>5. Passes!SameKeys(input, output)
    BY <2>1, <2>3, <2>4, SameSize DEF SameCounts, Slots, Passes!SameKeys
  <2> QED
    BY <2>2, <2>5
<1> QED
  BY <1>1, <1>2, <1>3, PTL DEF Spec
=============================================================================
