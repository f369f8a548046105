------------------------------- MODULE Corpus -------------------------------
(***************************************************************************)
(* What a corpus store promises, whatever its writers, its files and its   *)
(* crashes do: a growing set of finalized shards over disjoint attempt     *)
(* ranges.  A range is reserved by one owner, the outcome of a range is    *)
(* promised once and for all, and a reserved range becomes final in one    *)
(* indivisible step, with the content whose outcome was promised.          *)
(* Module CorpusStore shows that the claim files, the shard files, the     *)
(* outcome files and the manifest implement this.                          *)
(***************************************************************************)
EXTENDS Naturals

CONSTANTS Ranges,     \* attempt ranges, <<start, stop>>, half open
          Owners,     \* digests of the producers' stable owner ids
          Contents    \* shard bytes; an outcome receipt names one of them

VARIABLES final,      \* finalized shards
          reserved,   \* <<range, owner>> pairs that may still become final
          promised    \* <<range, content>> pairs: the durable outcomes

vars == <<final, reserved, promised>>

Overlaps(r, s) == r[1] < s[2] /\ s[1] < r[2]

Entry == [range : Ranges, owner : Owners, content : Contents, receipt : Contents]

TypeOK == /\ final \subseteq Entry
          /\ reserved \subseteq Ranges \X Owners
          /\ promised \subseteq Ranges \X Contents

Init == final = {} /\ reserved = {} /\ promised = {}

Reserve(r, o) ==
  /\ \A e \in final : ~ Overlaps(e.range, r)
  /\ \A c \in reserved : ~ Overlaps(c[1], r)
  /\ reserved' = reserved \cup {<<r, o>>}
  /\ UNCHANGED <<final, promised>>

Promise(r, o, c) ==
  /\ <<r, o>> \in reserved
  /\ \A p \in promised : p[1] # r
  /\ promised' = promised \cup {<<r, c>>}
  /\ UNCHANGED <<final, reserved>>

Finalize(r, o, c) ==
  /\ <<r, o>> \in reserved
  /\ <<r, c>> \in promised
  /\ final' = final \cup {[range |-> r, owner |-> o, content |-> c, receipt |-> c]}
  /\ reserved' = reserved \ {<<r, o>>}
  /\ UNCHANGED promised

Release(r, o) ==
  /\ <<r, o>> \in reserved
  /\ reserved' = reserved \ {<<r, o>>}
  /\ UNCHANGED <<final, promised>>

Next == \E r \in Ranges, o \in Owners :
          \/ Reserve(r, o)
          \/ Release(r, o)
          \/ \E c \in Contents : Promise(r, o, c) \/ Finalize(r, o, c)

Spec == Init /\ [][Next]_vars
=============================================================================
