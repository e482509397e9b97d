------------------------- MODULE StableRadixPasses -------------------------
(***************************************************************************)
(* What the compute shader of shaders/shader.hlsl promises: a least        *)
(* significant digit radix sort.  Each pass moves every key, in one step,  *)
(* to its stable rank by one 4-bit digit; after the last pass the keys are *)
(* in ascending unsigned order.  Nothing is said of threads, waves or      *)
(* shared memory: RadixSort implements this specification.                 *)
(*                                                                         *)
(* A key is the function from digit positions (0 the least significant)    *)
(* to digits, which is all the shader ever extracts from the 32-bit word.  *)
(***************************************************************************)
EXTENDS Naturals, FiniteSets

CONSTANTS       \* as RadixSort assumes them
    Radix,      \* values of one digit: 16 in the code
    Digits,     \* digits of a key, hence passes: 8 in the code
    Inputs      \* the possible contents of the input buffer

Digit == 0 .. (Radix - 1)
Key   == [0 .. (Digits - 1) -> Digit]

VARIABLES keys, passes

vars == <<keys, passes>>

(* Keys compare as unsigned integers: the shader loads the signed buffer   *)
(* into `uint` arrays.                                                     *)
AtMost(a, b) ==
    \/ a = b
    \/ \E d \in DOMAIN a : /\ a[d] < b[d]
                           /\ \A e \in DOMAIN a : e > d => a[e] = b[e]

Sorted(s) == \A i, j \in DOMAIN s : i < j => AtMost(s[i], s[j])

SameKeys(s, t) ==
    \A k \in {s[i] : i \in DOMAIN s} \cup {t[i] : i \in DOMAIN t} :
        Cardinality({i \in DOMAIN s : s[i] = k}) = Cardinality({i \in DOMAIN t : t[i] = k})

(* The place of slot i after a stable pass by digit d.                     *)
StableRank(s, d, i) ==
    Cardinality({j \in DOMAIN s : \/ s[j][d] < s[i][d]
                                  \/ s[j][d] = s[i][d] /\ j < i})

Init == keys \in Inputs /\ passes = 0

Pass ==
    /\ passes < Digits
    /\ keys' \in [DOMAIN keys -> {keys[i] : i \in DOMAIN keys}]
    /\ \A i \in DOMAIN keys : keys'[StableRank(keys, passes, i)] = keys[i]
    /\ passes' = passes + 1

Next == Pass

Spec == Init /\ [][Next]_vars
=============================================================================
