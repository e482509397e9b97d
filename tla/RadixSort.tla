----------------------------- MODULE RadixSort -----------------------------
(***************************************************************************)
(* shaders/shader.hlsl: one workgroup of the compute shader, a radix sort  *)
(* in shared memory.  Threads run independently between two                *)
(* GroupMemoryBarrierWithGroupSync calls; the wave intrinsics are executed *)
(* by all lanes of a wave at once.  Each action is one thread's (or one    *)
(* wave's) work in one stretch between barriers.                           *)
(*                                                                         *)
(* The loop counter of line 114 is never initialised: the value its        *)
(* register holds is any member of UninitStarts.  0 .. WaveNb is every     *)
(* case there is, because all values from WaveNb up skip the loop alike.   *)
(***************************************************************************)
EXTENDS Naturals, FiniteSets, FiniteSetsExt

CONSTANTS
    WaveSize,       \* WaveGetLaneCount(), chosen by the GPU
    WaveNb,         \* rows of the per-wave tables: 8 in the code
    GroupSize,      \* numthreads: 256 in the code
    Radix,          \* buckets: 16 in the code
    Digits,         \* iterations of the shift loop: 8 in the code
    Inputs,         \* possible contents of InputKeys; its length is Count
    JunkKeys,       \* words uninitialised KeysA, KeysB and OutputKeys may hold
    JunkCount,      \* what the other uninitialised shared arrays hold
    UninitStarts    \* values the uninitialised register may hold

Thread == 0 .. (GroupSize - 1)
Wave   == {t \div WaveSize : t \in Thread}
Bucket == 0 .. (Radix - 1)
Cell   == 0 .. (WaveNb * Radix - 1)
Key    == [0 .. (Digits - 1) -> Bucket]
ZeroKey == [d \in 0 .. (Digits - 1) |-> 0]

ASSUME SizesAssumption ==
    /\ WaveSize \in Nat \ {0} /\ WaveNb \in Nat \ {0} /\ GroupSize \in Nat \ {0}
    /\ Radix \in Nat \ {0} /\ Digits \in Nat \ {0}
    /\ Radix <= GroupSize /\ WaveNb * Radix <= GroupSize
ASSUME JunkAssumption == JunkKeys \in SUBSET Key /\ JunkKeys # {} /\ JunkCount \in Nat
ASSUME UninitAssumption == UninitStarts \in SUBSET Nat /\ UninitStarts # {}
ASSUME InputsAssumption ==
    \A in \in Inputs : /\ IsFiniteSet(DOMAIN in)
                      /\ in \in [0 .. (Cardinality(DOMAIN in) - 1) -> Key]

VARIABLES
    input, output,                          \* the two storage buffers
    KeysA, KeysB,                           \* groupshared, one word per thread
    Hist, BucketOffset,                     \* groupshared, one word per bucket
    WaveBucketCounts, WaveBucketOffsets,    \* groupshared, wave-major
    key, bucket, rank,                      \* registers of each thread
    pc,                                     \* where each thread is in main
    pass                                    \* shift / 4 of each thread

buffers   == <<input, output>>
registers == <<key, bucket, rank>>
tables    == <<Hist, BucketOffset, WaveBucketCounts, WaveBucketOffsets>>
vars == <<buffers, KeysA, KeysB, tables, registers, pc, pass>>

Count == Cardinality(DOMAIN input)
active(t) == t < Count

waveIndex(t) == t \div WaveSize
lane(t)      == t % WaveSize
Lanes(w)     == {t \in Thread : waveIndex(t) = w}

-----------------------------------------------------------------------------
(* Barriers.  Interval(t) counts the barriers thread t has passed; `rank`  *)
(* and `scatter` have none between them.                                   *)
(* Mutants: no barrier at line 80, none at line 137.                       *)
StageNoBarrierAfterCount ==
    [load |-> 0, clear |-> 1, count |-> 2, hist |-> 2, offset |-> 4, waveoff |-> 5,
     rank |-> 6, scatter |-> 6, copy |-> 7, store |-> 1, done |-> 1]
StageNoBarrierAfterScatter ==
    [load |-> 0, clear |-> 1, count |-> 2, hist |-> 3, offset |-> 4, waveoff |-> 5,
     rank |-> 6, scatter |-> 6, copy |-> 6, store |-> 1, done |-> 1]

Stage == [load |-> 0, clear |-> 1, count |-> 2, hist |-> 3, offset |-> 4, waveoff |-> 5,
          rank |-> 6, scatter |-> 6, copy |-> 7, store |-> 1, done |-> 1]

Interval(t) == 7 * pass[t] + Stage[pc[t]]

(* Every thread has arrived at the barrier that thread t waits at.         *)
Released(t) == \A u \in Thread : Interval(t) <= Interval(u)

Goto(t, from, to) ==
    /\ pc[t] = from
    /\ Released(t)
    /\ pc' = [pc EXCEPT ![t] = to]

WaveGoto(w, from, to) ==
    /\ \A t \in Lanes(w) : pc[t] = from /\ Released(t)
    /\ pc' = [t \in Thread |-> IF waveIndex(t) = w THEN to ELSE pc[t]]

-----------------------------------------------------------------------------
Init ==
    /\ input \in Inputs
    /\ \E junk \in JunkKeys :
        /\ output = [i \in DOMAIN input |-> junk]
        /\ KeysA = [t \in Thread |-> junk]
        /\ KeysB = [t \in Thread |-> junk]
    /\ Hist = [b \in Bucket |-> JunkCount]
    /\ BucketOffset = [b \in Bucket |-> JunkCount]
    /\ WaveBucketCounts = [c \in Cell |-> JunkCount]
    /\ WaveBucketOffsets = [c \in Cell |-> JunkCount]
    /\ key = [t \in Thread |-> ZeroKey]
    /\ bucket = [t \in Thread |-> 0]
    /\ rank = [t \in Thread |-> 0]
    /\ pc = [t \in Thread |-> "load"]
    /\ pass = [t \in Thread |-> 0]

(* Mutant: the early return that line 49 warns of.                         *)
LoadInputEarlyReturn(t) ==
    /\ Goto(t, "load", IF active(t) THEN "clear" ELSE "done")
    /\ KeysA' = IF active(t) THEN [KeysA EXCEPT ![t] = input[t]] ELSE KeysA
    /\ UNCHANGED <<buffers, KeysB, tables, registers, pass>>

LoadInput(t) ==
    /\ Goto(t, "load", "clear")
    /\ KeysA' = IF active(t) THEN [KeysA EXCEPT ![t] = input[t]] ELSE KeysA
    /\ UNCHANGED <<buffers, KeysB, tables, registers, pass>>

ClearTables(t) ==
    /\ Goto(t, "clear", "count")
    /\ Hist' = [b \in Bucket |-> IF b = t THEN 0 ELSE Hist[b]]
    /\ WaveBucketCounts' = [c \in Cell |-> IF c = t THEN 0 ELSE WaveBucketCounts[c]]
    /\ WaveBucketOffsets' = [c \in Cell |-> IF c = t THEN 0 ELSE WaveBucketOffsets[c]]
    /\ UNCHANGED <<buffers, KeysA, KeysB, BucketOffset, registers, pass>>

(* Each lane extracts its digit; WaveActiveCountBits counts the lanes of   *)
(* the wave in each bucket and lane 0 stores the wave's row.  A row past   *)
(* the end of the table would not be stored here; in no run is there one.  *)
(* Mutant: a mask of 31 takes one bit of the next digit.                   *)
DigitOfWideMask(t) ==
    IF ~active(t) THEN 0
    ELSE KeysA[t][pass[t]]
         + (IF pass[t] + 1 < Digits THEN Radix * (KeysA[t][pass[t] + 1] % 2) ELSE 0)

DigitOf(t) == IF active(t) THEN KeysA[t][pass[t]] ELSE 0

(* Mutant: idle lanes, whose bucket is 0, are counted too.                 *)
CountInWaveIdleToo(w) ==
    /\ WaveGoto(w, "count", "hist")
    /\ key' = [t \in Thread |-> IF waveIndex(t) # w THEN key[t]
                                ELSE IF active(t) THEN KeysA[t] ELSE ZeroKey]
    /\ bucket' = [t \in Thread |-> IF waveIndex(t) = w THEN DigitOf(t) ELSE bucket[t]]
    /\ WaveBucketCounts' =
        [c \in Cell |->
            IF c \div Radix = w
            THEN Cardinality({t \in Lanes(w) : DigitOf(t) = c % Radix})
            ELSE WaveBucketCounts[c]]
    /\ UNCHANGED <<buffers, KeysA, KeysB, Hist, BucketOffset, WaveBucketOffsets, rank, pass>>

CountInWave(w) ==
    /\ WaveGoto(w, "count", "hist")
    /\ key' = [t \in Thread |-> IF waveIndex(t) # w THEN key[t]
                                ELSE IF active(t) THEN KeysA[t] ELSE ZeroKey]
    /\ bucket' = [t \in Thread |-> IF waveIndex(t) = w THEN DigitOf(t) ELSE bucket[t]]
    /\ WaveBucketCounts' =
        [c \in Cell |->
            IF c \div Radix = w
            THEN Cardinality({t \in Lanes(w) : active(t) /\ DigitOf(t) = c % Radix})
            ELSE WaveBucketCounts[c]]
    /\ UNCHANGED <<buffers, KeysA, KeysB, Hist, BucketOffset, WaveBucketOffsets, rank, pass>>

SumOverWaves(t) ==
    /\ Goto(t, "hist", "offset")
    /\ Hist' = [b \in Bucket |->
                    IF b = t
                    THEN SumFunction([w \in 0 .. (WaveNb - 1) |-> WaveBucketCounts[w * Radix + b]])
                    ELSE Hist[b]]
    /\ UNCHANGED <<buffers, KeysA, KeysB, BucketOffset, WaveBucketCounts, WaveBucketOffsets,
                   registers, pass>>

(* Mutant: `b <= tid` makes the prefix inclusive.                          *)
PrefixOverBucketsInclusive(t) ==
    /\ Goto(t, "offset", "waveoff")
    /\ BucketOffset' = [b \in Bucket |->
                            IF b = t THEN SumFunctionOnSet(Hist, 0 .. t)
                            ELSE BucketOffset[b]]
    /\ UNCHANGED <<buffers, KeysA, KeysB, Hist, WaveBucketCounts, WaveBucketOffsets,
                   registers, pass>>

PrefixOverBuckets(t) ==
    /\ Goto(t, "offset", "waveoff")
    /\ BucketOffset' = [b \in Bucket |->
                            IF b = t THEN SumFunctionOnSet(Hist, 0 .. (t - 1))
                            ELSE BucketOffset[b]]
    /\ UNCHANGED <<buffers, KeysA, KeysB, Hist, WaveBucketCounts, WaveBucketOffsets,
                   registers, pass>>

(* The loop over previous waves starts wherever the register happens to be.*)
PrefixOverWaves(t) ==
    /\ Goto(t, "waveoff", "rank")
    /\ \E start \in UninitStarts :
        WaveBucketOffsets' =
            [c \in Cell |->
                IF c = t
                THEN SumFunction([v \in start .. ((t \div Radix) - 1) |->
                                    WaveBucketCounts[(v * Radix) + (t % Radix)]])
                ELSE WaveBucketOffsets[c]]
    /\ UNCHANGED <<buffers, KeysA, KeysB, Hist, BucketOffset, WaveBucketCounts, registers, pass>>

(* WavePrefixCountBits: the lanes before this one with the same bucket.    *)
(* Mutant: lanes are ranked from the end of the wave, which is not stable. *)
RankInWaveReversed(w) ==
    /\ WaveGoto(w, "rank", "scatter")
    /\ rank' = [t \in Thread |->
                    IF waveIndex(t) = w
                    THEN Cardinality({u \in Lanes(w) : u > t /\ active(u) /\ bucket[u] = bucket[t]})
                    ELSE rank[t]]
    /\ UNCHANGED <<buffers, KeysA, KeysB, tables, key, bucket, pass>>

RankInWave(w) ==
    /\ WaveGoto(w, "rank", "scatter")
    /\ rank' = [t \in Thread |->
                    IF waveIndex(t) = w
                    THEN Cardinality({u \in Lanes(w) : u < t /\ active(u) /\ bucket[u] = bucket[t]})
                    ELSE rank[t]]
    /\ UNCHANGED <<buffers, KeysA, KeysB, tables, key, bucket, pass>>

(* The index of line 134, which says `waveIndex + 16`, not times 16.       *)
OffsetCell(t) == waveIndex(t) + Radix + bucket[t]
(* A store past KeysB is undefined, and no store here.  One wave makes none*)
(* (StaysInBounds); several waves do, by this index and line 114, when the *)
(* keys are many, and their runs have too few keys for it to happen.       *)
dst(t) == BucketOffset[bucket[t]] + WaveBucketOffsets[OffsetCell(t)] + rank[t]

Scatter(t) ==
    /\ Goto(t, "scatter", "copy")
    /\ KeysB' = [u \in Thread |-> IF active(t) /\ u = dst(t) THEN key[t] ELSE KeysB[u]]
    /\ UNCHANGED <<buffers, KeysA, tables, registers, pass>>

(* Mutant: the shift loop ends one digit early.                            *)
CopyBackOneDigitShort(t) ==
    /\ Goto(t, "copy", IF pass[t] + 2 = Digits THEN "store" ELSE "clear")
    /\ KeysA' = IF active(t) THEN [KeysA EXCEPT ![t] = KeysB[t]] ELSE KeysA
    /\ pass' = [pass EXCEPT ![t] = @ + 1]
    /\ UNCHANGED <<buffers, KeysB, tables, registers>>

CopyBack(t) ==
    /\ Goto(t, "copy", IF pass[t] + 1 = Digits THEN "store" ELSE "clear")
    /\ KeysA' = IF active(t) THEN [KeysA EXCEPT ![t] = KeysB[t]] ELSE KeysA
    /\ pass' = [pass EXCEPT ![t] = @ + 1]
    /\ UNCHANGED <<buffers, KeysB, tables, registers>>

StoreOutput(t) ==
    /\ Goto(t, "store", "done")
    /\ output' = IF active(t) THEN [output EXCEPT ![t] = KeysA[t]] ELSE output
    /\ UNCHANGED <<input, KeysA, KeysB, tables, registers, pass>>

Done == \A t \in Thread : pc[t] = "done"
Finished == Done /\ UNCHANGED vars

ThreadStep(t) ==
    \/ LoadInput(t) \/ ClearTables(t) \/ SumOverWaves(t) \/ PrefixOverBuckets(t)
    \/ PrefixOverWaves(t) \/ Scatter(t) \/ CopyBack(t) \/ StoreOutput(t)

WaveStep(w) == CountInWave(w) \/ RankInWave(w)

Next ==
    \/ \E t \in Thread : ThreadStep(t)
    \/ \E w \in Wave : WaveStep(w)
    \/ Finished

(* A workgroup is resident as a whole: every thread that can run does.     *)
Fairness ==
    /\ \A t \in Thread : WF_vars(ThreadStep(t))
    /\ \A w \in Wave : WF_vars(WaveStep(w))

Spec == Init /\ [][Next]_vars /\ Fairness

-----------------------------------------------------------------------------
(***************************************************************************)
(* The shared words a thread reads and writes in its next stretch, as      *)
(* pairs of an array and an index.                                         *)
(***************************************************************************)
Words(array, indices) == {<<array, i>> : i \in indices}
If(cond, set) == IF cond THEN set ELSE {}

Reads(t) ==
    CASE pc[t] = "count"   -> If(active(t), Words("KeysA", {t}))
      [] pc[t] = "hist"    -> If(t \in Bucket,
                                 Words("WaveBucketCounts", {w * Radix + t : w \in 0 .. (WaveNb - 1)}))
      [] pc[t] = "offset"  -> If(t \in Bucket, Words("Hist", 0 .. (t - 1)))
      [] pc[t] = "waveoff" -> If(t \in Cell, Words("WaveBucketCounts",
                                 {(w * Radix) + (t % Radix) : w \in 0 .. ((t \div Radix) - 1)}))
      [] pc[t] = "scatter" -> If(active(t), Words("BucketOffset", {bucket[t]})
                                            \cup Words("WaveBucketOffsets", {OffsetCell(t)}))
      [] pc[t] = "copy"    -> If(active(t), Words("KeysB", {t}))
      [] pc[t] = "store"   -> If(active(t), Words("KeysA", {t}))
      [] OTHER             -> {}

Writes(t) ==
    CASE pc[t] = "load"    -> If(active(t), Words("KeysA", {t}))
      [] pc[t] = "clear"   -> If(t \in Bucket, Words("Hist", {t}))
                              \cup If(t \in Cell, Words("WaveBucketCounts", {t})
                                                   \cup Words("WaveBucketOffsets", {t}))
      [] pc[t] = "count"   -> If(lane(t) = 0, Words("WaveBucketCounts",
                                 {waveIndex(t) * Radix + b : b \in Bucket}))
      [] pc[t] = "hist"    -> If(t \in Bucket, Words("Hist", {t}))
      [] pc[t] = "offset"  -> If(t \in Bucket, Words("BucketOffset", {t}))
      [] pc[t] = "waveoff" -> If(t \in Cell, Words("WaveBucketOffsets", {t}))
      [] pc[t] = "scatter" -> If(active(t), Words("KeysB", {dst(t)}))
      [] pc[t] = "copy"    -> If(active(t), Words("KeysA", {t}))
      [] pc[t] = "store"   -> If(active(t), Words("output", {t}))
      [] OTHER             -> {}

(* Two threads that may both run now touch a common word, one writing it.  *)
Conflict(t, u) ==
    /\ t # u /\ Released(t) /\ Released(u)
    /\ Writes(t) \cap (Reads(u) \cup Writes(u)) # {}

Extent == [KeysA |-> GroupSize, KeysB |-> GroupSize, Hist |-> Radix, BucketOffset |-> Radix,
           WaveBucketCounts |-> WaveNb * Radix, WaveBucketOffsets |-> WaveNb * Radix,
           output |-> Count]

-----------------------------------------------------------------------------
IsArray(f, S) == f = [x \in S |-> f[x]]

TypeOK ==
    /\ input \in Inputs
    /\ output \in [DOMAIN input -> Key]
    /\ KeysA \in [Thread -> Key] /\ KeysB \in [Thread -> Key]
    /\ IsArray(Hist, Bucket) /\ IsArray(BucketOffset, Bucket)
    /\ IsArray(WaveBucketCounts, Cell) /\ IsArray(WaveBucketOffsets, Cell)
    /\ key \in [Thread -> Key] /\ bucket \in [Thread -> Bucket] /\ rank \in [Thread -> Nat]
    /\ pc \in [Thread -> DOMAIN Stage]
    /\ pass \in [Thread -> 0 .. Digits]

(* The barriers leave exactly one kind of data race possible, between two  *)
(* threads in the scatter of lines 132-136: whatever the wave size, the    *)
(* keys and the uninitialised register, no other pair of shared accesses   *)
(* that may run together touches one word with a write.                    *)
RacesOnlyInScatter ==
    \A t, u \in Thread : Conflict(t, u) => pc[t] = "scatter" /\ pc[u] = "scatter"

(* No two threads ever race on a shared word: this needs distinct scatter  *)
(* destinations, hence the offsets of lines 114 and 134.                   *)
NoRace == \A t, u \in Thread : ~Conflict(t, u)

(* Every shared access of a thread stays inside its array.  This is about a*)
(* group whose keys are in one wave and whose loop of line 114 starts above*)
(* 0: with keys in several waves dst leaves KeysB.                         *)
StaysInBounds ==
    \A t \in Thread : \A word \in Reads(t) \cup Writes(t) : word[2] < Extent[word[1]]

(* After lines 83-90 Hist[b] is the number of keys of the whole group in   *)
(* bucket b: the per-wave counts lost and double-counted none.             *)
HistCountsKeys ==
    (\A t \in Thread : pc[t] \in {"offset", "waveoff", "rank", "scatter", "copy"}) =>
        \A b \in Bucket : Hist[b] = Cardinality({t \in Thread : active(t) /\ bucket[t] = b})

(* "BucketOffset[b] = where bucket b starts in KeysB" (shader.hlsl:22):    *)
(* exactly the keys of smaller digits fit before it.                       *)
BucketsStartInOrder ==
    (\A t \in Thread : pc[t] \in {"waveoff", "rank", "scatter", "copy"}) =>
        \A b \in Bucket :
            BucketOffset[b] = Cardinality({t \in Thread : active(t) /\ bucket[t] < b})

(* "prefix over waves" (shader.hlsl:27): after lines 108-117 the offset of *)
(* a wave in a bucket is the number of that bucket's keys in earlier waves.*)
WaveOffsetsArePrefixes ==
    (\A t \in Thread : pc[t] \in {"rank", "scatter", "copy"}) =>
        \A c \in Cell :
            WaveBucketOffsets[c] =
                Cardinality({t \in Thread : /\ active(t) /\ bucket[t] = c % Radix
                                            /\ waveIndex(t) < c \div Radix})

(* "l'offset final de notre key dans l'output" (shader.hlsl:131): a key is *)
(* scattered to its stable rank by the current digit.                      *)
ScattersToStableRank ==
    \A t \in Thread : active(t) /\ pc[t] = "scatter" =>
        dst(t) = Cardinality({u \in Thread : /\ active(u)
                                             /\ \/ bucket[u] < bucket[t]
                                                \/ bucket[u] = bucket[t] /\ u < t})

-----------------------------------------------------------------------------
(* The keys as the abstract sort sees them: a pass takes effect when the   *)
(* first thread copies its key back.                                       *)
SomeLoading == \E t \in Thread : pc[t] = "load"
CopyingBack == \E t, u \in Thread : pc[t] = "copy" /\ Interval(u) > Interval(t)

keysBar == IF SomeLoading THEN input
           ELSE [i \in DOMAIN input |-> IF CopyingBack THEN KeysB[i] ELSE KeysA[i]]
passesBar == Max({pass[t] : t \in Thread})

Passes == INSTANCE StableRadixPasses WITH keys <- keysBar, passes <- passesBar

(* One workgroup implements the abstract radix sort: each pass moves every *)
(* key to its stable rank.  That all passes are made is OutputSorted's and *)
(* Terminates' to say.                                                     *)
ImplementsPasses == Passes!Spec

(* What the shader stores is the input in ascending unsigned order.        *)
OutputSorted == Done => Passes!Sorted(output) /\ Passes!SameKeys(input, output)

(* No thread waits forever at a barrier.                                   *)
Terminates == <>Done
=============================================================================
