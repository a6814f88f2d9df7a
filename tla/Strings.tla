------------------------------ MODULE Strings -------------------------------
(***************************************************************************)
(* What nodes pass to each other, on POSIX and on Windows: strings, each a *)
(* sequence of lines, of which "EOF" is one.                               *)
(***************************************************************************)
EXTENDS Integers, Sequences, FiniteSets

CONSTANTS
  Line,  \* the lines strings are made of; their order is that of Nat
  EOF    \* the line that ends a stream

ASSUME LineAssumption == Line \subseteq Nat /\ EOF \in Line

String == Seq(Line) \ {<<>>}

(* Mutant: the split keeps the empty string behind the last newline. *)
AsStrings_Empty(lines) == [i \in DOMAIN lines |-> <<lines[i]>>] \o <<<<>>>>

(* Each line becomes a string of its own (m_split_input). *)
AsStrings(lines) == [i \in DOMAIN lines |-> <<lines[i]>>]

EofsIn(strs) == Cardinality({i \in DOMAIN strs : strs[i] = <<EOF>>})

EndsWithEof(s) == s # <<>> /\ s[Len(s)] = EOF

(* Mutant: concat_inputs without std::sort. *)
Sorted_Not(strs, p) == TRUE

(* The positions p list strings in ascending order (std::sort). *)
Sorted(strs, p) ==
  \A i, j \in DOMAIN p : i < j => strs[p[i]][1] <= strs[p[j]][1]

(* How often l is in the sequence s, and in the sequences f[x]. *)
Count(l, s)  == Cardinality({i \in DOMAIN s : s[i] = l})
Copies(l, f) == Cardinality(UNION {{x} \X {i \in DOMAIN f[x] : f[x][i] = l} : x \in DOMAIN f})
=============================================================================
