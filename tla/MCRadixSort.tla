---------------------------- MODULE MCRadixSort ----------------------------
(* Values for model-checking RadixSort with two-digit keys, radix 2.       *)
EXTENDS RadixSort, TLC

K(n) == [d \in 0 .. 1 |-> IF d = 0 THEN n % 2 ELSE n \div 2]

Seqs(n) == [0 .. (n - 1) -> {K(v) : v \in 0 .. 3}]

(* Up to three keys, of any value; and a full wave, of different keys in   *)
(* any order and of equal keys.                                            *)
OneWaveInputs == UNION {Seqs(n) : n \in 0 .. 3}
                 \cup {[i \in 0 .. 3 |-> K(f[i])] : f \in Permutations(0 .. 3)}
                 \cup {[i \in 0 .. 3 |-> K(v)] : v \in 0 .. 3}

(* Two waves of two lanes: the descending keys main writes, equal keys,    *)
(* and keys that meet in a bucket in one pass only.  From five keys on a   *)
(* destination can leave KeysB, which is undefined: these have three.      *)
ManyWaveInputs ==
    {[i \in 0 .. 2 |-> K(3 - i)], [i \in 0 .. 2 |-> K(1)], [i \in 0 .. 2 |-> K(i)],
     [i \in 0 .. 2 |-> K(IF i = 1 THEN 2 ELSE 0)], [i \in 0 .. 2 |-> K(IF i = 1 THEN 0 ELSE 3)]}

OneJunkKey == {K(2)}
=============================================================================
