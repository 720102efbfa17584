---------------------------- MODULE SocketIdentity ----------------------------
(* The comparison of two socket identities, operator< and operator== of        *)
(* zmqCommunicatorChannel::socketIdentity, as the loop over their bytes that   *)
(* it is.  The loop looks at a byte before it looks at the index, and so at    *)
(* one byte more than an identity has: what is there is not initialized, or    *)
(* behind the array, and may be anything.                                      *)

EXTENDS Integers

CONSTANTS
  Bytes,      \* the values of a char, which is signed
  Capacity    \* how many bytes an identity may have

ASSUME IdentityAssumption == Bytes \subseteq Int /\ Capacity \in Nat

VARIABLES
  a, b,       \* the identities that are compared
  index,      \* the byte that is compared next
  pc,         \* "size", "bytes", "decide" or "done"
  less        \* what operator< returns

comparison == <<a, b, index, pc, less>>

\* The bytes from `size' on were never written; the one at Capacity is no byte
\* of the array.
Identities == [size : 0 .. Capacity, data : [0 .. Capacity -> Bytes]]

\* Mutant of Same: the sizes are not compared.
SameBytes(x, y) == \A i \in 0 .. x.size - 1 : x.data[i] = y.data[i]

\* operator==
Same(x, y) ==
  /\ x.size = y.size
  /\ \A i \in 0 .. x.size - 1 : x.data[i] = y.data[i]

Begin ==
  /\ a \in Identities /\ b \in Identities
  /\ index = 0 /\ pc = "size" /\ less = FALSE

CompareSizes ==
  /\ pc = "size"
  /\ \/ a.size # b.size /\ pc' = "done" /\ less' = (a.size < b.size)
     \/ a.size = b.size /\ pc' = "bytes" /\ UNCHANGED less
  /\ UNCHANGED <<a, b, index>>

\* The bytes are the same; the index is tested and incremented in one.
NextByte ==
  /\ pc = "bytes" /\ a.data[index] = b.data[index]
  /\ index' = index + 1
  /\ pc' = IF index < a.size THEN "bytes" ELSE "decide"
  /\ UNCHANGED <<a, b, less>>

StopAtDifference ==
  /\ pc = "bytes" /\ a.data[index] # b.data[index]
  /\ pc' = "decide"
  /\ UNCHANGED <<a, b, index, less>>

\* Mutant of Decide: the bytes the loop stopped at decide, wherever they are.
DecideOnBytes ==
  /\ pc = "decide"
  /\ less' = (index <= Capacity /\ a.data[index] < b.data[index])
  /\ pc' = "done"
  /\ UNCHANGED <<a, b, index>>

Decide ==
  /\ pc = "decide"
  /\ less' = (index < a.size /\ a.data[index] < b.data[index])
  /\ pc' = "done"
  /\ UNCHANGED <<a, b, index>>

Compare == CompareSizes \/ NextByte \/ StopAtDifference \/ Decide

Comparison == Begin /\ [][Compare]_comparison

-----------------------------------------------------------------------------
\* The order that is meant: by size, then by the first byte that differs.
Less(x, y) ==
  \/ x.size < y.size
  \/ /\ x.size = y.size
     /\ \E i \in 0 .. x.size - 1 :
          /\ x.data[i] < y.data[i]
          /\ \A j \in 0 .. i - 1 : x.data[j] = y.data[j]

(* operator< is that order, whatever is behind the bytes of the identities     *)
(* (zmqcommunicatorchannel.cpp:109-126).                                       *)
ReturnsLess == pc = "done" => (less <=> Less(a, b))

(* Identities of which neither is less are the same for operator==: a map keyed *)
(* by identities has one entry for each (:102-107, :109-126).                  *)
OrderAgreesWithEquality == pc = "done" => (Same(a, b) <=> ~less /\ ~Less(b, a))

(* What the loop has seen; ReturnsLess by induction.                           *)
LoopInv ==
  /\ a \in Identities /\ b \in Identities
  /\ index \in 0 .. Capacity + 1
  /\ pc \in {"size", "bytes", "decide", "done"} /\ less \in BOOLEAN
  /\ pc = "size" => index = 0
  /\ pc \in {"bytes", "decide"} =>
       /\ a.size = b.size
       /\ index <= a.size + 1
       /\ \A i \in 0 .. a.size - 1 : i < index => a.data[i] = b.data[i]
  /\ pc = "bytes" => index <= a.size
  /\ pc = "decide" /\ index < a.size => a.data[index] # b.data[index]
  /\ ReturnsLess

=============================================================================
