------------------------- MODULE CorpusPipelineProofs ------------------------
(***************************************************************************)
(* First CorpusStore, for any set of ranges, owners, contents, threads and *)
(* processes (nothing there uses what CorpusPipeline declares).  Then      *)
(* generate_corpus for any plan of disjoint ranges, any number of          *)
(* processes with pools of any size, and any kills and errors: a receipt   *)
(* is complete, a producer alone on its root is never refused its ranges,  *)
(* and the files implement the corpus.                                     *)
(***************************************************************************)
EXTENDS CorpusPipeline, FiniteSetTheorems, TLAPS

-----------------------------------------------------------------------------
(* Type correctness. *)

\* What one thread's step does to the thread-local variables keeps their types.
LEMMA DropType ==
  ASSUME TypeOK, NEW t \in Threads, Drop(t)
  PROVE  /\ pc' \in [Threads -> {"idle", "writing"} \cup Locked]
         /\ call' \in [Threads -> {"open", "begin", "finalize"}]
         /\ held' \in [Threads -> Claim \cup {None}]
         /\ content' \in [Threads -> Receipt]
BY DEF TypeOK, Drop, Go, Receipt

\* Entering a call keeps the types: an adopted entry is an entry.
LEMMA AdoptedType == TypeOK => Adopted \subseteq Entry
BY DEF TypeOK, Adopted, Recovered, Matching, Orphans, Claim, Shard, Entry

LEMMA EnterType ==
  ASSUME TypeOK, NEW t \in Threads, NEW op \in {"open", "begin", "finalize"}, Enter(t, op)
  PROVE  /\ manifest' \subseteq Entry
         /\ shards'   \subseteq Shard
         /\ claims'   \subseteq Claim
         /\ outcomes' \subseteq Outcome
         /\ lock' \in Threads \cup {None}
         /\ pc' \in [Threads -> {"idle", "writing"} \cup Locked]
         /\ call' \in [Threads -> {"open", "begin", "finalize"}]
BY AdoptedType DEF TypeOK, Enter, Go, Locked

\* A thread that needs its claim has one; a finalizing thread has content.
HeldOK ==
  \A t \in Threads :
    /\ pc[t] \in {"writing"} \cup (Locked \ {"swept"}) => held[t] \in Claim
    /\ pc[t] = "swept" /\ call[t] # "open" => held[t] \in Claim
    /\ pc[t] \in Locked \ {"swept"} => content[t] \in Contents
    /\ pc[t] = "swept" /\ call[t] = "finalize" => content[t] \in Contents

\* Typing needs HeldOK, since what a thread writes comes from its hands.
TypeInv == TypeOK /\ HeldOK

LEMMA TypeInit == Init => TypeInv
BY ThreadsAssumption DEF Init, TypeInv, TypeOK, HeldOK, Receipt, Locked

LEMMA TypeStep ==
  ASSUME TypeInv, [Next]_vars
  PROVE  TypeInv'
<1> USE DEF TypeInv
<1>1. ASSUME NEW t \in Threads, Open(t) PROVE TypeInv'
  <2>1. TypeOK' BY <1>1, EnterType DEF Open, TypeOK
  <2>2. HeldOK' BY <1>1 DEF Open, Enter, Go, TypeOK, HeldOK, Locked
  <2> QED BY <2>1, <2>2
<1>2. ASSUME NEW t \in Threads, Opened(t) PROVE TypeInv'
  <2>1. TypeOK' BY <1>2, DropType DEF Opened, Leave, TypeOK, durable
  <2>2. HeldOK' BY <1>2 DEF Opened, Leave, Drop, Go, TypeOK, HeldOK, Locked, durable
  <2> QED BY <2>1, <2>2
<1>3. ASSUME NEW t \in Threads, NEW r \in Ranges, NEW o \in Owners, Begin(t, r, o)
      PROVE TypeInv'
  <2>1. [range |-> r, owner |-> o, receipt |-> None] \in Claim BY DEF Claim, Receipt
  <2>2. TypeOK' BY <1>3, <2>1, EnterType DEF Begin, TypeOK
  <2>3. HeldOK' BY <1>3, <2>1 DEF Begin, Enter, Go, TypeOK, HeldOK, Locked
  <2> QED BY <2>2, <2>3
<1>4. ASSUME NEW t \in Threads, Begun(t) PROVE TypeInv'
  <2>1. pc[t] = "swept" /\ call[t] = "begin" /\ held[t] \in Claim
    BY <1>4 DEF Begun, Swept, HeldOK, TypeOK
  <2>2. claims' \subseteq Claim /\ held' \in [Threads -> Claim \cup {None}]
    BY <1>4, <2>1 DEF Begun, TypeOK
  <2>3. held'[t] \in Claim /\ \A u \in Threads \ {t} : held'[u] = held[u]
    BY <1>4, <2>1 DEF Begun, TypeOK
  <2>4. TypeOK' BY <1>4, <2>2 DEF Begun, TypeOK, Go
  <2>5. HeldOK' BY <1>4, <2>1, <2>3 DEF Begun, Go, TypeOK, HeldOK, Locked
  <2> QED BY <2>4, <2>5
<1>5. ASSUME NEW t \in Threads, BeginRaises(t) \/ FinalizeRaises(t) \/ WriteRaises(t)
      PROVE TypeInv'
  <2>1. Leave(t) /\ UNCHANGED durable
    BY <1>5 DEF BeginRaises, FinalizeRaises, WriteRaises
  <2>2. TypeOK' BY <2>1, DropType DEF Leave, TypeOK, durable
  <2>3. HeldOK' BY <2>1 DEF Leave, Drop, Go, TypeOK, HeldOK, Locked
  <2> QED BY <2>2, <2>3
<1>6. ASSUME NEW t \in Threads, Abort(t) \/ EnterRaises(t) PROVE TypeInv'
  <2>1. Drop(t) /\ UNCHANGED <<durable, lock>>
    BY <1>6 DEF Abort, EnterRaises
  <2>2. TypeOK' BY <2>1, DropType DEF TypeOK, durable
  <2>3. HeldOK' BY <2>1 DEF Drop, Go, TypeOK, HeldOK, Locked
  <2> QED BY <2>2, <2>3
<1>7. ASSUME NEW t \in Threads, NEW k \in Contents, Finalize(t, k) PROVE TypeInv'
  <2>1. TypeOK' BY <1>7, EnterType DEF Finalize, TypeOK, Receipt
  <2>2. HeldOK' BY <1>7 DEF Finalize, Enter, Go, TypeOK, HeldOK, Locked
  <2> QED BY <2>1, <2>2
<1>8. ASSUME NEW t \in Threads, PersistOutcome(t) PROVE TypeInv'
  <2>1. held[t] \in Claim /\ content[t] \in Contents
    BY <1>8 DEF PersistOutcome, Swept, HeldOK
  <2>2. Made(t) \in Outcome BY <2>1 DEF Made, Claim, Outcome
  <2>3. TypeOK' BY <1>8, <2>2 DEF PersistOutcome, Go, TypeOK, Locked
  <2>4. HeldOK' BY <1>8, <2>1 DEF PersistOutcome, Go, TypeOK, HeldOK, Locked
  <2> QED BY <2>3, <2>4
<1>9. ASSUME NEW t \in Threads, BindReceipt(t) PROVE TypeInv'
  <2>1. held[t] \in Claim /\ content[t] \in Contents
    BY <1>9 DEF BindReceipt, HeldOK, Locked
  <2>2. BoundClaim(t) \in Claim BY <2>1 DEF BoundClaim, Claim, Receipt
  <2>3. TypeOK' BY <1>9, <2>2 DEF BindReceipt, Go, TypeOK, Locked
  <2>4. HeldOK' BY <1>9, <2>1, <2>2 DEF BindReceipt, Go, TypeOK, HeldOK, Locked
  <2> QED BY <2>3, <2>4
<1>10. ASSUME NEW t \in Threads, RenameShard(t) PROVE TypeInv'
  <2>1. held[t] \in Claim /\ content[t] \in Contents
    BY <1>10 DEF RenameShard, HeldOK, Locked
  <2>2. Made(t) \in Shard BY <2>1 DEF Made, Claim, Shard
  <2>3. TypeOK' BY <1>10, <2>2 DEF RenameShard, Go, TypeOK, Locked
  <2>4. HeldOK' BY <1>10, <2>1 DEF RenameShard, Go, TypeOK, HeldOK, Locked
  <2> QED BY <2>3, <2>4
<1>11. ASSUME NEW t \in Threads, PublishManifest(t) PROVE TypeInv'
  <2>1. held[t] \in Claim /\ content[t] \in Contents
    BY <1>11 DEF PublishManifest, HeldOK, Locked
  <2>2. Recovered(Made(t), held[t]) \in Entry
    BY <2>1 DEF Made, Recovered, Claim, Entry
  <2>3. TypeOK' BY <1>11, <2>2 DEF PublishManifest, Go, TypeOK, Locked
  <2>4. HeldOK' BY <1>11, <2>1 DEF PublishManifest, Go, TypeOK, HeldOK, Locked
  <2> QED BY <2>3, <2>4
<1>12. ASSUME NEW t \in Threads, UnlinkClaim(t) PROVE TypeInv'
  <2>1. TypeOK' BY <1>12, DropType DEF UnlinkClaim, Leave, TypeOK
  <2>2. HeldOK' BY <1>12 DEF UnlinkClaim, Leave, Drop, Go, TypeOK, HeldOK, Locked
  <2> QED BY <2>1, <2>2
<1>13. ASSUME NEW t \in Threads, Sweep(t) PROVE TypeInv'
  BY <1>13 DEF Sweep, TypeOK, HeldOK, local
<1>14. ASSUME NEW t \in Threads, NEW r \in Ranges, NEW o \in Owners, Release(t, r, o)
       PROVE TypeInv'
  BY <1>14 DEF Release, TypeOK, HeldOK, local
<1>15. ASSUME NEW p \in Processes, Crash(p) PROVE TypeInv'
  <2>1. TypeOK' BY <1>15 DEF Crash, TypeOK, durable, Receipt
  <2>2. HeldOK' BY <1>15 DEF Crash, TypeOK, HeldOK, Locked, Dies
  <2> QED BY <2>1, <2>2
<1>16. CASE UNCHANGED vars
  BY <1>16 DEF vars, TypeOK, HeldOK
<1> QED
  BY <1>1, <1>2, <1>3, <1>4, <1>5, <1>6, <1>7, <1>8, <1>9, <1>10, <1>11, <1>12,
     <1>13, <1>14, <1>15, <1>16 DEF Next, Step

\* Every file and every thread keeps its type, with or without release_claim.
THEOREM TypeCorrect == Spec => []TypeOK
<1>1. TypeInv => TypeOK BY DEF TypeInv
<1> QED BY <1>1, TypeInit, TypeStep, PTL DEF Spec

-----------------------------------------------------------------------------
(* The files.  The state of the files and what the thread inside the lock     *)
(* knows of it are inductive, with or without release_claim.                  *)

LEMMA OverlapsReflexive == \A r \in Ranges : Overlaps(r, r)
BY RangesAssumption DEF Overlaps

LEMMA OverlapsSymmetric == \A r, s \in Ranges : Overlaps(r, s) => Overlaps(s, r)
BY DEF Overlaps

\* Only one thread is inside the lock.
LockOK == \A t \in Threads : pc[t] \in Locked => lock = t

\* Claims are disjoint, and disjoint from what is finalized except for a claim
\* that is only left to be swept.
ClaimsOK ==
  /\ NonOverlapping(claims)
  /\ \A e \in manifest, c \in claims : Overlaps(e.range, c.range) => SameOwner(e, c)
  /\ \A c \in claims : c.receipt # None =>
       [range |-> c.range, content |-> c.receipt] \in outcomes

\* Only its own claim, bound to its content, touches a shard that is not in the
\* manifest.
OrphansOK ==
  \A s \in Orphans, c \in claims :
    Overlaps(c.range, s.range) => c.range = s.range /\ c.receipt = s.content

FilesOK == ClaimsOK /\ OrphansOK /\ DisjointAndBacked /\ Provenance

\* No shard, listed or not, touches the range of the thread's claim.
Free(t) == \A s \in shards : ~ Overlaps(s.range, held[t].range)

\* What a thread inside the lock knows of the files.
Knows(t) ==
  /\ pc[t] \in Locked \ {"renamed"} => Orphans = {}
  /\ pc[t] = "swept" /\ call[t] = "begin" => held[t].receipt = None
  /\ pc[t] \in {"outcome", "bound", "renamed", "published"} =>
       held[t] \in claims /\ Made(t) \in outcomes
  /\ pc[t] \in {"outcome", "bound"} => Free(t)
  /\ pc[t] \in {"bound", "renamed", "published"} => held[t].receipt = content[t]
  /\ pc[t] = "renamed" => Orphans = {Made(t)}
  /\ pc[t] = "published" => Recovered(Made(t), held[t]) \in manifest

StoreInv == TypeInv /\ LockOK /\ FilesOK /\ (\A t \in Threads : Knows(t))

LEMMA StoreInit == Init => StoreInv
<1> SUFFICES ASSUME Init PROVE StoreInv OBVIOUS
<1>1. TypeInv BY TypeInit
<1>2. LockOK BY DEF LockOK, Init, Locked
<1>3. FilesOK
  BY DEF FilesOK, ClaimsOK, OrphansOK, DisjointAndBacked, Provenance, Init,
         NonOverlapping, Orphans
<1>4. \A t \in Threads : Knows(t) BY DEF Knows, Init, Locked
<1> QED BY <1>1, <1>2, <1>3, <1>4 DEF StoreInv

\* Adopting an orphan gives an entry of that very shard.
LEMMA RecoveredShard == \A s \in Shard : \A c : ShardOf(Recovered(s, c)) = s
BY DEF ShardOf, Recovered, Shard

LEMMA AdoptedOrphan == TypeOK => \A x \in Adopted : ShardOf(x) \in Orphans
<1> SUFFICES ASSUME TypeOK, NEW x \in Adopted PROVE ShardOf(x) \in Orphans OBVIOUS
<1>1. PICK s \in Orphans : \E c \in Matching(s) : x = Recovered(s, c) BY DEF Adopted
<1>2. s \in Shard BY DEF TypeOK, Orphans
<1> QED BY <1>1, <1>2, RecoveredShard

\* Entering adopts every orphan, with the owner and the receipt of its claim.
LEMMA EnterAdopts ==
  ASSUME StoreInv, NEW t \in Threads, NEW op, Enter(t, op)
  PROVE  /\ Orphans' = {}
         /\ FilesOK'
<1> USE DEF StoreInv, FilesOK, TypeInv
<1>1. manifest' = manifest \cup Adopted /\ UNCHANGED <<shards, claims, outcomes>>
  BY DEF Enter
<1>2. \A s \in Orphans : \E x \in Adopted : ShardOf(x) = s
  <2> SUFFICES ASSUME NEW s \in Orphans PROVE \E x \in Adopted : ShardOf(x) = s OBVIOUS
  <2>1. Matching(s) # {} BY FS_EmptySet DEF Enter, Synchronizable
  <2>2. PICK c \in Matching(s) : Recovered(s, c) \in Adopted BY <2>1 DEF Adopted
  <2>3. s \in Shard BY DEF TypeOK, Orphans
  <2> QED BY <2>2, <2>3, RecoveredShard
<1>3. Orphans' = {} BY <1>1, <1>2 DEF Orphans
<1>4. ASSUME NEW x \in Adopted
      PROVE  \E c \in claims :
               SameOwner(x, c) /\ c.receipt = x.content /\ x.receipt = x.content
  <2>1. PICK s \in Orphans : \E c \in Matching(s) : x = Recovered(s, c) BY DEF Adopted
  <2>2. PICK c \in Matching(s) : x = Recovered(s, c) BY <2>1
  <2>3. c \in claims /\ c.range = s.range /\ Overlaps(c.range, s.range)
    BY <2>2, OverlapsReflexive DEF Matching, TypeOK, Claim
  <2> QED BY <2>2, <2>3 DEF Recovered, SameOwner, OrphansOK
<1>5. ClaimsOK'
  <2>1. ASSUME NEW e \in manifest', NEW c \in claims, Overlaps(e.range, c.range)
        PROVE SameOwner(e, c)
    <3>1. CASE e \in manifest BY <3>1, <2>1 DEF ClaimsOK
    <3>2. CASE e \in Adopted
      <4>1. PICK d \in claims : SameOwner(e, d) BY <3>2, <1>4
      <4>2. d = c BY <4>1, <2>1 DEF ClaimsOK, NonOverlapping, SameOwner
      <4> QED BY <4>1, <4>2
    <3> QED BY <3>1, <3>2, <1>1
  <2> QED BY <1>1, <2>1 DEF ClaimsOK, NonOverlapping, SameOwner
<1>6. DisjointAndBacked'
  <2>1. NonOverlapping(manifest \cup Adopted) BY DEF Enter, Synchronizable
  <2>2. \A e \in manifest' : ShardOf(e) \in shards
    BY <1>1, AdoptedOrphan DEF DisjointAndBacked, Orphans
  <2> QED BY <1>1, <2>1, <2>2 DEF DisjointAndBacked, NonOverlapping, ShardOf
<1>7. OrphansOK' BY <1>3 DEF OrphansOK
<1>8. Provenance' BY <1>1, <1>4 DEF Provenance
<1> QED BY <1>3, <1>5, <1>6, <1>7, <1>8

\* A step that leaves the files alone leaves what is known of them alone.
LEMMA FilesUnchanged ==
  ASSUME FilesOK, UNCHANGED durable
  PROVE  FilesOK'
BY DEF FilesOK, ClaimsOK, OrphansOK, DisjointAndBacked, Provenance, NonOverlapping,
       Orphans, ShardOf, SameOwner, durable

\* Threads that are not inside the lock know nothing.
LEMMA OutsideKnows ==
  ASSUME NEW t \in Threads, pc[t] \notin Locked
  PROVE  Knows(t)
BY DEF Knows, Locked

\* The other threads: their locals do not change, and a thread inside the lock
\* keeps everyone else out.
Others(t) ==
  \A u \in Threads \ {t} :
    /\ pc'[u] = pc[u] /\ call'[u] = call[u]
    /\ held'[u] = held[u] /\ content'[u] = content[u]

\* A call is entered: nobody else is inside the lock.
LEMMA EnterStep ==
  ASSUME StoreInv, TypeInv', NEW t \in Threads, NEW op, Enter(t, op), Others(t),
         call'[t] = "begin" => held'[t].receipt = None
  PROVE  StoreInv'
<1>1. FilesOK' /\ Orphans' = {} BY EnterAdopts
<1>2. pc'[t] = "swept" /\ \A u \in Threads \ {t} : pc'[u] \notin Locked
  <2>1. \A u \in Threads : pc[u] \notin Locked
    BY ThreadsAssumption DEF Enter, StoreInv, LockOK
  <2> QED BY <2>1 DEF Enter, Others, StoreInv, TypeInv, TypeOK, Go
<1>3. LockOK' BY <1>2 DEF LockOK, Enter
<1>4. Knows(t)' BY <1>1, <1>2 DEF Knows, Locked
<1>5. \A u \in Threads \ {t} : Knows(u)' BY <1>2 DEF Knows, Locked
<1> QED BY <1>1, <1>3, <1>4, <1>5 DEF StoreInv

\* A call returns or raises, or a writer is dropped, and the files stay.
LEMMA DropStep ==
  ASSUME StoreInv, TypeInv', NEW t \in Threads, Drop(t), UNCHANGED durable,
         lock' = lock \/ (lock' = None /\ pc[t] \in Locked)
  PROVE  StoreInv'
<1>1. FilesOK' BY FilesUnchanged DEF StoreInv
<1>2. pc'[t] = "idle" /\ Others(t)
  BY DEF Drop, Go, StoreInv, TypeInv, TypeOK, Others
<1>3. ASSUME NEW u \in Threads \ {t}, pc'[u] \in Locked PROVE lock' = u
  BY <1>2, <1>3 DEF Others, StoreInv, LockOK
<1>4. LockOK' BY <1>2, <1>3 DEF LockOK, Locked
<1>5. Knows(t)' BY <1>2 DEF Knows, Locked
<1>6. \A u \in Threads \ {t} : Knows(u)'
  BY <1>2 DEF Others, StoreInv, Knows, Free, Made, Recovered, Orphans, ShardOf, durable
<1> QED BY <1>1, <1>4, <1>5, <1>6 DEF StoreInv

\* A thread inside the lock moves on: only its own knowledge has to be shown.
LEMMA InsideStep ==
  ASSUME StoreInv, TypeInv', NEW t \in Threads, pc[t] \in Locked, Others(t),
         lock' = lock \/ pc'[t] \notin Locked,
         FilesOK', Knows(t)'
  PROVE  StoreInv'
<1>1. lock = t BY DEF StoreInv, LockOK
<1>2. \A u \in Threads \ {t} : pc'[u] \notin Locked
  BY <1>1 DEF StoreInv, LockOK, Others
<1>3. LockOK' BY <1>1, <1>2 DEF LockOK
<1>4. \A u \in Threads \ {t} : Knows(u)' BY <1>2 DEF Knows, Locked
<1> QED BY <1>3, <1>4 DEF StoreInv

\* The steps inside the lock that touch the files, one lemma each.
LEMMA SweepStep ==
  ASSUME StoreInv, TypeInv', NEW t \in Threads, Sweep(t)
  PROVE  StoreInv'
<1> USE DEF StoreInv, FilesOK
<1>1. PICK c \in Completed : claims' = claims \ {c} BY DEF Sweep
<1>2. UNCHANGED <<manifest, shards, outcomes, lock, local>> BY DEF Sweep
<1>3. Orphans = {} /\ Orphans' = {} BY <1>2 DEF Sweep, Knows, Orphans, Locked
<1>4. ClaimsOK' BY <1>1, <1>2 DEF ClaimsOK, NonOverlapping, SameOwner
<1>5. OrphansOK' BY <1>3 DEF OrphansOK
<1>6. DisjointAndBacked' /\ Provenance'
  BY <1>2 DEF DisjointAndBacked, Provenance, NonOverlapping, ShardOf
<1>7. Knows(t)' BY <1>2, <1>3 DEF Sweep, Knows, local
<1>8. Others(t) BY <1>2 DEF Others, local
<1>9. pc[t] \in Locked BY DEF Sweep, Locked
<1> QED BY <1>2, <1>4, <1>5, <1>6, <1>7, <1>8, <1>9, InsideStep

LEMMA BegunStep ==
  ASSUME StoreInv, TypeInv', NEW t \in Threads, Begun(t)
  PROVE  StoreInv'
<1> USE DEF StoreInv, FilesOK
<1>1. UNCHANGED <<manifest, shards, outcomes>> /\ pc[t] = "swept" /\ call[t] = "begin"
  BY DEF Begun, Swept
<1>2. pc'[t] = "writing" /\ Others(t) BY DEF Begun, Go, TypeInv, TypeOK, Others
<1>3. Orphans = {} /\ Orphans' = {} BY <1>1 DEF Knows, Orphans, Locked
<1>4. ClaimsOK'
  <2>1. CASE UNCHANGED claims
    BY <1>1, <2>1 DEF ClaimsOK, NonOverlapping, SameOwner
  <2>2. CASE claims' = claims \cup {held[t]} /\ \A c \in claims : ~ SameOwner(c, held[t])
    <3>1. held[t] \in Claim BY <1>1 DEF TypeInv, HeldOK
    <3>2. \A c \in claims : ~ Overlaps(c.range, held[t].range)
      BY <2>2 DEF Begun, Blocked
    <3>3. \A c \in claims : ~ Overlaps(held[t].range, c.range)
      BY <3>1, <3>2, OverlapsSymmetric DEF TypeInv, TypeOK, Claim
    <3>4. \A e \in manifest : ~ Overlaps(e.range, held[t].range)
      BY DEF Begun, Blocked
    <3>5. held[t].receipt = None BY <1>1 DEF Knows
    <3> QED BY <1>1, <2>2, <3>2, <3>3, <3>4, <3>5 DEF ClaimsOK, NonOverlapping, SameOwner
  <2> QED BY <2>1, <2>2 DEF Begun
<1>5. OrphansOK' BY <1>3 DEF OrphansOK
<1>6. DisjointAndBacked' /\ Provenance'
  BY <1>1 DEF DisjointAndBacked, Provenance, NonOverlapping, ShardOf
<1>7. Knows(t)' BY <1>2 DEF Knows, Locked
<1> QED BY <1>1, <1>2, <1>4, <1>5, <1>6, <1>7, InsideStep DEF Locked

LEMMA PersistStep ==
  ASSUME StoreInv, TypeInv', NEW t \in Threads, PersistOutcome(t)
  PROVE  StoreInv'
<1> USE DEF StoreInv, FilesOK
<1>1. /\ UNCHANGED <<manifest, shards, claims, lock, call, held, content>>
      /\ outcomes' = outcomes \cup {Made(t)}
      /\ pc[t] = "swept" /\ call[t] = "finalize" /\ ~ Refused(t)
  BY DEF PersistOutcome, Swept
<1>2. pc'[t] = "outcome" /\ Others(t)
  BY DEF PersistOutcome, Go, TypeInv, TypeOK, Others
<1>3. Orphans = {} /\ Orphans' = {} BY <1>1 DEF Knows, Orphans, Locked
<1>4. held[t] \in claims /\ \A e \in manifest : ~ Overlaps(e.range, held[t].range)
  BY <1>1 DEF Refused
<1>5. Free(t)
  <2>1. \A s \in shards : \E e \in manifest : s = ShardOf(e) BY <1>3 DEF Orphans
  <2> QED BY <1>4, <2>1 DEF Free, ShardOf
<1>6. ClaimsOK' BY <1>1 DEF ClaimsOK, NonOverlapping, SameOwner
<1>7. OrphansOK' BY <1>3 DEF OrphansOK
<1>8. DisjointAndBacked' BY <1>1 DEF DisjointAndBacked, NonOverlapping, ShardOf
<1>9. Provenance'
  <2>1. \A x \in outcomes : x.range = held[t].range => x = Made(t)
    BY <1>1 DEF Refused, Made, Outcome, TypeInv, TypeOK
  <2> QED BY <1>1, <2>1 DEF Provenance, Made
<1>10. Knows(t)' BY <1>1, <1>2, <1>3, <1>4, <1>5 DEF Knows, Free, Made, Locked
<1> QED BY <1>1, <1>2, <1>6, <1>7, <1>8, <1>9, <1>10, InsideStep DEF Locked

LEMMA BindStep ==
  ASSUME StoreInv, TypeInv', NEW t \in Threads, BindReceipt(t)
  PROVE  StoreInv'
<1> USE DEF StoreInv, FilesOK
<1>1. /\ UNCHANGED <<manifest, shards, outcomes, lock, call, content>>
      /\ claims' = (claims \ {held[t]}) \cup {BoundClaim(t)}
      /\ pc[t] = "outcome"
  BY DEF BindReceipt
<1>2. pc'[t] = "bound" /\ held'[t] = BoundClaim(t) /\ Others(t)
  BY DEF BindReceipt, Go, TypeInv, TypeOK, Others
<1>3. Orphans = {} /\ Orphans' = {} BY <1>1 DEF Knows, Orphans, Locked
<1>4. held[t] \in claims /\ Made(t) \in outcomes /\ Free(t) BY <1>1 DEF Knows
<1>5. /\ BoundClaim(t).range = held[t].range
      /\ BoundClaim(t).owner = held[t].owner
      /\ BoundClaim(t).receipt = content[t]
  BY DEF BoundClaim
<1>6. ClaimsOK'
  <2>1. NonOverlapping(claims') BY <1>1, <1>4, <1>5 DEF ClaimsOK, NonOverlapping
  <2>2. \A e \in manifest, c \in claims' : Overlaps(e.range, c.range) => SameOwner(e, c)
    BY <1>1, <1>4, <1>5 DEF ClaimsOK, SameOwner
  <2>3. \A c \in claims' : c.receipt # None =>
          [range |-> c.range, content |-> c.receipt] \in outcomes
    BY <1>1, <1>4, <1>5 DEF ClaimsOK, Made
  <2> QED BY <1>1, <2>1, <2>2, <2>3 DEF ClaimsOK, SameOwner
<1>7. OrphansOK' BY <1>3 DEF OrphansOK
<1>8. DisjointAndBacked' /\ Provenance'
  BY <1>1 DEF DisjointAndBacked, Provenance, NonOverlapping, ShardOf
<1>9. Knows(t)'
  <2>1. Made(t)' = Made(t) BY <1>1, <1>2, <1>5 DEF Made
  <2>2. Free(t)' BY <1>1, <1>2, <1>4, <1>5 DEF Free
  <2> QED BY <1>1, <1>2, <1>3, <1>4, <1>5, <2>1, <2>2 DEF Knows, Locked
<1> QED BY <1>1, <1>2, <1>6, <1>7, <1>8, <1>9, InsideStep DEF Locked

LEMMA RenameStep ==
  ASSUME StoreInv, TypeInv', NEW t \in Threads, RenameShard(t)
  PROVE  StoreInv'
<1> USE DEF StoreInv, FilesOK
<1>1. /\ UNCHANGED <<manifest, claims, outcomes, lock, call, held, content>>
      /\ shards' = shards \cup {Made(t)}
      /\ pc[t] = "bound"
  BY DEF RenameShard
<1>2. pc'[t] = "renamed" /\ Others(t)
  BY DEF RenameShard, Go, TypeInv, TypeOK, Others
<1>3. /\ Orphans = {} /\ Free(t) /\ held[t] \in claims
      /\ Made(t) \in outcomes /\ held[t].receipt = content[t]
  BY <1>1 DEF Knows, Locked
<1>4. Made(t).range = held[t].range /\ Made(t).content = content[t]
      /\ held[t].range \in Ranges
  BY <1>3 DEF Made, TypeInv, TypeOK, Claim
<1>5. \A s \in shards : ~ Overlaps(s.range, Made(t).range) /\ ~ Overlaps(Made(t).range, s.range)
  BY <1>3, <1>4, OverlapsSymmetric DEF Free, TypeInv, TypeOK, Shard
<1>6. Made(t) \notin shards BY <1>4, <1>5, OverlapsReflexive
<1>7. Orphans' = {Made(t)}
  BY <1>1, <1>3, <1>6 DEF Orphans, DisjointAndBacked
<1>8. OrphansOK'
  BY <1>1, <1>3, <1>4, <1>7 DEF OrphansOK, FilesOK, ClaimsOK, NonOverlapping
<1>9. ClaimsOK' BY <1>1 DEF ClaimsOK, NonOverlapping, SameOwner
<1>10. DisjointAndBacked' BY <1>1, <1>5 DEF DisjointAndBacked, NonOverlapping, ShardOf
<1>11. Provenance' BY <1>1, <1>3 DEF Provenance
<1>12. Knows(t)' BY <1>1, <1>2, <1>3, <1>7 DEF Knows, Made, Locked
<1> QED BY <1>1, <1>2, <1>8, <1>9, <1>10, <1>11, <1>12, InsideStep DEF Locked

LEMMA PublishStep ==
  ASSUME StoreInv, TypeInv', NEW t \in Threads, PublishManifest(t)
  PROVE  StoreInv'
<1> USE DEF StoreInv, FilesOK
<1> DEFINE new == Recovered(Made(t), held[t])
<1>1. /\ UNCHANGED <<shards, claims, outcomes, lock, call, held, content>>
      /\ manifest' = manifest \cup {new}
      /\ pc[t] = "renamed"
  BY DEF PublishManifest
<1>2. pc'[t] = "published" /\ Others(t)
  BY DEF PublishManifest, Go, TypeInv, TypeOK, Others
<1>3. /\ Orphans = {Made(t)} /\ held[t] \in claims
      /\ Made(t) \in outcomes /\ held[t].receipt = content[t]
  BY <1>1 DEF Knows
<1>4. held[t] \in Claim /\ content[t] \in Contents
  BY <1>1 DEF TypeInv, HeldOK, Locked
<1>5. /\ new.range = held[t].range /\ new.owner = held[t].owner
      /\ new.content = content[t] /\ new.receipt = content[t]
      /\ new.range \in Ranges
  BY <1>3, <1>4 DEF Recovered, Made, Claim
<1>6. Made(t) \in Shard BY <1>4 DEF Made, Claim, Shard
<1>7. ShardOf(new) = Made(t) BY <1>6, RecoveredShard
<1>8. Orphans' = {} BY <1>1, <1>3, <1>7 DEF Orphans
<1>9. Made(t) \in shards /\ \A e \in manifest : ShardOf(e) # Made(t)
  BY <1>3 DEF Orphans
<1>10. \A e \in manifest : ~ Overlaps(e.range, new.range) /\ ~ Overlaps(new.range, e.range)
  <2>1. ASSUME NEW e \in manifest
        PROVE ShardOf(e) \in shards /\ ShardOf(e).range = e.range
    BY <2>1 DEF DisjointAndBacked, ShardOf
  <2>2. Made(t).range = new.range BY <1>5 DEF Made
  <2> QED BY <1>9, <2>1, <2>2 DEF DisjointAndBacked, NonOverlapping
<1>11. ClaimsOK'
  <2>1. \A c \in claims : Overlaps(new.range, c.range) => SameOwner(new, c)
    BY <1>3, <1>5 DEF ClaimsOK, NonOverlapping, SameOwner
  <2> QED BY <1>1, <2>1 DEF ClaimsOK, NonOverlapping, SameOwner
<1>12. OrphansOK' BY <1>8 DEF OrphansOK
<1>13. DisjointAndBacked'
  BY <1>1, <1>7, <1>9, <1>10 DEF DisjointAndBacked, NonOverlapping, ShardOf
<1>14. Provenance' BY <1>1, <1>5 DEF Provenance
<1>15. Knows(t)' BY <1>1, <1>2, <1>3, <1>8 DEF Knows, Made, Recovered, Locked
<1> QED BY <1>1, <1>2, <1>11, <1>12, <1>13, <1>14, <1>15, InsideStep DEF Locked

LEMMA UnlinkStep ==
  ASSUME StoreInv, TypeInv', NEW t \in Threads, UnlinkClaim(t)
  PROVE  StoreInv'
<1> USE DEF StoreInv, FilesOK
<1>1. /\ UNCHANGED <<manifest, shards, outcomes>>
      /\ claims' = claims \ {held[t]}
      /\ pc[t] = "published"
  BY DEF UnlinkClaim
<1>2. pc'[t] = "idle" /\ Others(t)
  BY DEF UnlinkClaim, Leave, Drop, Go, TypeInv, TypeOK, Others
<1>3. Orphans = {} /\ Orphans' = {} BY <1>1 DEF Knows, Orphans, Locked
<1>4. ClaimsOK' BY <1>1 DEF ClaimsOK, NonOverlapping, SameOwner
<1>5. OrphansOK' BY <1>3 DEF OrphansOK
<1>6. DisjointAndBacked' /\ Provenance'
  BY <1>1 DEF DisjointAndBacked, Provenance, NonOverlapping, ShardOf
<1>7. Knows(t)' BY <1>2 DEF Knows, Locked
<1> QED BY <1>1, <1>2, <1>4, <1>5, <1>6, <1>7, InsideStep DEF Locked

LEMMA CrashStep ==
  ASSUME StoreInv, TypeInv', NEW p \in Processes, Crash(p)
  PROVE  StoreInv'
<1> USE DEF StoreInv
<1>1. FilesOK' BY FilesUnchanged DEF Crash
<1>2. \A u \in Dies(p) : pc'[u] = "idle" BY DEF Crash, Dies
<1>3. \A u \in Threads \ Dies(p) :
        pc'[u] = pc[u] /\ call'[u] = call[u] /\ held'[u] = held[u] /\ content'[u] = content[u]
  BY DEF Crash
<1>4. LockOK' BY <1>2, <1>3 DEF LockOK, Locked, Crash, Dies
<1>5. \A u \in Dies(p) : Knows(u)' BY <1>2 DEF Knows, Locked
<1>6. \A u \in Threads \ Dies(p) : Knows(u)'
  BY <1>3 DEF Crash, Knows, Free, Made, Recovered, Orphans, ShardOf, durable
<1> QED BY <1>1, <1>4, <1>5, <1>6

\* release_claim unlinks a claim while nobody is inside the lock.
LEMMA ReleaseStep ==
  ASSUME StoreInv, TypeInv', NEW t \in Threads, NEW r \in Ranges, NEW o \in Owners,
         Release(t, r, o)
  PROVE  StoreInv'
<1> USE DEF StoreInv, FilesOK
<1>1. PICK c \in claims : claims' = claims \ {c} BY DEF Release
<1>2. UNCHANGED <<manifest, shards, outcomes, lock, pc, call, held, content>> /\ lock = None
  BY DEF Release, local
<1>3. ClaimsOK' BY <1>1, <1>2 DEF ClaimsOK, NonOverlapping, SameOwner
<1>4. OrphansOK' BY <1>1, <1>2 DEF OrphansOK, Orphans, ShardOf
<1>5. DisjointAndBacked' /\ Provenance'
  BY <1>2 DEF DisjointAndBacked, Provenance, NonOverlapping, ShardOf
<1>6. \A u \in Threads : pc[u] \notin Locked BY <1>2, ThreadsAssumption DEF LockOK
<1>7. \A u \in Threads : Knows(u)' BY <1>2, <1>6 DEF Knows, Locked
<1>8. LockOK' BY <1>2 DEF LockOK
<1> QED BY <1>3, <1>4, <1>5, <1>7, <1>8

LEMMA StoreStep ==
  ASSUME StoreInv, [Next]_vars
  PROVE  StoreInv'
<1>0. TypeInv' BY TypeStep DEF StoreInv
<1> USE <1>0
<1>1. ASSUME NEW t \in Threads, Open(t) PROVE StoreInv'
  <2>1. Others(t) /\ Enter(t, "open") /\ call'[t] # "begin"
    BY <1>1 DEF Open, Enter, Go, Others, StoreInv, TypeInv, TypeOK
  <2> QED BY <2>1, EnterStep
<1>2. ASSUME NEW t \in Threads, NEW r \in Ranges, NEW o \in Owners, Begin(t, r, o)
      PROVE StoreInv'
  <2>1. Others(t) /\ Enter(t, "begin") /\ held'[t].receipt = None
    BY <1>2 DEF Begin, Enter, Go, Others, StoreInv, TypeInv, TypeOK
  <2> QED BY <2>1, EnterStep
<1>3. ASSUME NEW t \in Threads, NEW k \in Contents, Finalize(t, k) PROVE StoreInv'
  <2>1. Others(t) /\ Enter(t, "finalize") /\ call'[t] # "begin"
    BY <1>3 DEF Finalize, Enter, Go, Others, StoreInv, TypeInv, TypeOK
  <2> QED BY <2>1, EnterStep
<1>4. ASSUME NEW t \in Threads,
             \/ Opened(t) \/ BeginRaises(t) \/ FinalizeRaises(t)
             \/ WriteRaises(t) \/ Abort(t) \/ EnterRaises(t)
      PROVE StoreInv'
  <2>1. Drop(t) /\ UNCHANGED durable /\ (lock' = lock \/ (lock' = None /\ pc[t] \in Locked))
    BY <1>4 DEF Opened, BeginRaises, FinalizeRaises, WriteRaises, Abort, EnterRaises,
                Leave, Swept, Locked
  <2> QED BY <2>1, DropStep
<1>5. ASSUME NEW t \in Threads, NEW r \in Ranges, NEW o \in Owners, Release(t, r, o)
      PROVE StoreInv'
  BY <1>5, ReleaseStep
<1>6. ASSUME NEW p \in Processes, Crash(p) PROVE StoreInv'
  BY <1>6, CrashStep
<1>7. CASE UNCHANGED vars
  <2>1. FilesOK' BY <1>7, FilesUnchanged DEF StoreInv, vars, durable
  <2>2. LockOK' BY <1>7 DEF StoreInv, LockOK, vars
  <2>3. \A t \in Threads : Knows(t)'
    BY <1>7 DEF StoreInv, Knows, Free, Made, Recovered, Orphans, ShardOf, vars
  <2> QED BY <2>1, <2>2, <2>3 DEF StoreInv
<1> QED
  BY <1>1, <1>2, <1>3, <1>4, <1>5, <1>6, <1>7, SweepStep, BegunStep, PersistStep,
     BindStep, RenameStep, PublishStep, UnlinkStep DEF Next, Step

LEMMA StoreInvariant == Spec => []StoreInv
<1>1. StoreInv /\ [Next]_vars => StoreInv' BY StoreStep
<1> QED BY <1>1, StoreInit, PTL DEF Spec

\* No attempt is covered by two shards and no manifest entry lacks its shard,
\* also when callers release claims that others are working on.
THEOREM ShardsDisjoint == Spec => []DisjointAndBacked
<1>1. StoreInv => DisjointAndBacked BY DEF StoreInv, FilesOK
<1> QED BY <1>1, StoreInvariant, PTL

\* Every shard has the durable outcome its manifest entry is bound to, also when
\* callers release claims.
THEOREM ShardsHaveProvenance == Spec => []Provenance
<1>1. StoreInv => Provenance BY DEF StoreInv, FilesOK
<1> QED BY <1>1, StoreInvariant, PTL

\* A thread publishes for an undisputed claim only, bound to what it publishes,
\* whatever was released and claimed anew since it began.
THEOREM OnlyClaimedPublished == Spec => OnlyClaimed
<1> DEFINE Undisputed ==
      \A s \in shards' \ shards :
        \E c \in claims :
          /\ c.range = s.range /\ c.receipt = s.content
          /\ \A d \in claims : Overlaps(d.range, s.range) => d = c
<1>1. StoreInv /\ [Next]_vars => [Undisputed]_vars
  <2> SUFFICES ASSUME StoreInv, Next PROVE Undisputed OBVIOUS
  <2>1. ASSUME NEW t \in Threads, RenameShard(t) PROVE Undisputed
    <3>1. pc[t] = "bound" /\ shards' = shards \cup {Made(t)} BY <2>1 DEF RenameShard
    <3>2. held[t] \in claims /\ held[t].receipt = content[t] BY <3>1 DEF StoreInv, Knows
    <3>3. Made(t).range = held[t].range /\ Made(t).content = content[t] BY DEF Made
    <3>4. NonOverlapping(claims) BY DEF StoreInv, FilesOK, ClaimsOK
    <3> QED BY <3>1, <3>2, <3>3, <3>4 DEF NonOverlapping
  <2>2. CASE shards' = shards BY <2>2
  <2>3. ASSUME NEW t \in Threads, Step(t) PROVE RenameShard(t) \/ shards' = shards
    BY <2>3 DEF Step, Open, Begin, Finalize, Enter, Opened, Begun, BeginRaises, Abort,
       FinalizeRaises, PersistOutcome, BindReceipt, PublishManifest,
       UnlinkClaim, Sweep, EnterRaises, WriteRaises, Release, durable
  <2>4. ASSUME NEW p \in Processes, Crash(p) PROVE shards' = shards
    BY <2>4 DEF Crash, durable
  <2> QED BY <2>1, <2>2, <2>3, <2>4 DEF Next
<1> QED BY <1>1, StoreInvariant, PTL DEF Spec, OnlyClaimed

-----------------------------------------------------------------------------
(* Without release_claim a shard also keeps its claim until it is listed.     *)

OrphansClaimed == \A s \in Orphans : \E c \in claims : c.range = s.range

\* The invariant makes the next synchronization succeed.
LEMMA InvSynchronizable == StoreInv /\ OrphansClaimed => Synchronizable
<1> SUFFICES ASSUME StoreInv, OrphansClaimed PROVE Synchronizable OBVIOUS
<1> USE DEF StoreInv, FilesOK, TypeInv, TypeOK
<1>1. NonOverlapping(claims) BY DEF ClaimsOK
<1>2. ASSUME NEW s \in Orphans PROVE Cardinality(Matching(s)) = 1
  <2>1. PICK c \in claims : c.range = s.range BY DEF OrphansClaimed
  <2>2. ASSUME NEW d \in claims, d.range = s.range PROVE d = c
    <3>1. c.range \in Ranges BY DEF Claim
    <3>2. Overlaps(c.range, d.range) BY <2>1, <2>2, <3>1, OverlapsReflexive
    <3> QED BY <1>1, <3>2 DEF NonOverlapping
  <2>3. Matching(s) = {c} BY <2>1, <2>2 DEF Matching
  <2> QED BY <2>3, FS_Singleton
<1>3. ASSUME NEW a \in manifest \cup Adopted, NEW b \in manifest \cup Adopted, a # b
      PROVE  ~ Overlaps(a.range, b.range)
  <2>1. ASSUME NEW x \in manifest \cup Adopted PROVE ShardOf(x) \in shards
    BY <2>1, AdoptedOrphan DEF DisjointAndBacked, Orphans
  <2>2. CASE ShardOf(a) # ShardOf(b)
    BY <2>1, <2>2 DEF DisjointAndBacked, NonOverlapping, ShardOf
  <2>3. CASE ShardOf(a) = ShardOf(b)
    <3>1. a.range = b.range /\ a.content = b.content BY <2>3 DEF ShardOf
    <3>2. \A x \in Adopted : ShardOf(x) \in Orphans BY AdoptedOrphan
    <3>3. CASE a \in manifest /\ b \in manifest
      BY <3>3, <1>3 DEF DisjointAndBacked, NonOverlapping
    <3>4. CASE a \in manifest /\ b \in Adopted
      BY <3>4, <3>2, <2>3 DEF Orphans
    <3>5. CASE a \in Adopted /\ b \in manifest
      BY <3>5, <3>2, <2>3 DEF Orphans
    <3>6. CASE a \in Adopted /\ b \in Adopted
      <4>1. PICK s \in Orphans : \E c \in Matching(s) : a = Recovered(s, c)
        BY <3>6 DEF Adopted
      <4>2. PICK c \in Matching(s) : a = Recovered(s, c) BY <4>1
      <4>3. PICK u \in Orphans : \E d \in Matching(u) : b = Recovered(u, d)
        BY <3>6 DEF Adopted
      <4>4. PICK d \in Matching(u) : b = Recovered(u, d) BY <4>3
      <4>5. c \in claims /\ d \in claims /\ c.range = d.range /\ c.range \in Ranges
        BY <4>2, <4>4, <3>1 DEF Matching, Recovered, Claim
      <4>6. c = d BY <4>5, <1>1, OverlapsReflexive DEF NonOverlapping
      <4> QED BY <4>2, <4>4, <4>6, <3>1, <1>3 DEF Recovered
    <3> QED BY <3>3, <3>4, <3>5, <3>6
  <2> QED BY <2>2, <2>3
<1> QED BY <1>1, <1>2, <1>3 DEF Synchronizable, NonOverlapping

LEMMA ClaimedStep ==
  ASSUME ~ WithRelease, StoreInv, OrphansClaimed, [Next]_vars
  PROVE  OrphansClaimed'
<1>1. ASSUME NEW t \in Threads, NEW op, Enter(t, op) PROVE OrphansClaimed'
  BY <1>1, EnterAdopts DEF OrphansClaimed
<1>2. ASSUME NEW t \in Threads, Sweep(t) \/ Begun(t) \/ BindReceipt(t) \/ UnlinkClaim(t)
      PROVE OrphansClaimed'
  <2>1. pc[t] \in Locked \ {"renamed"} /\ UNCHANGED <<manifest, shards>>
    BY <1>2 DEF Sweep, Begun, Swept, BindReceipt, UnlinkClaim, Locked
  <2> QED BY <2>1 DEF StoreInv, Knows, OrphansClaimed, Orphans
<1>3. ASSUME NEW t \in Threads, PersistOutcome(t) \/ PublishManifest(t)
      PROVE OrphansClaimed'
  BY <1>3 DEF PersistOutcome, PublishManifest, OrphansClaimed, Orphans
<1>4. ASSUME NEW t \in Threads, RenameShard(t) PROVE OrphansClaimed'
  <2>1. /\ UNCHANGED <<manifest, claims>> /\ shards' = shards \cup {Made(t)}
        /\ held[t] \in claims
    BY <1>4 DEF RenameShard, StoreInv, Knows
  <2> QED BY <2>1 DEF OrphansClaimed, Orphans, Made
<1>5. CASE UNCHANGED durable
  BY <1>5 DEF OrphansClaimed, Orphans, ShardOf, durable
<1>6. ASSUME NEW t \in Threads, Step(t)
      PROVE  \/ \E op : Enter(t, op)
             \/ Sweep(t) \/ Begun(t) \/ BindReceipt(t) \/ UnlinkClaim(t)
             \/ PersistOutcome(t) \/ PublishManifest(t) \/ RenameShard(t)
             \/ UNCHANGED durable
  BY <1>6 DEF Step, Open, Begin, Finalize, Opened, BeginRaises, Abort, FinalizeRaises,
     EnterRaises, WriteRaises, Release
<1> QED
  BY <1>1, <1>2, <1>3, <1>4, <1>5, <1>6 DEF Next, Crash, vars, durable

\* What holds of a store whose callers never release a claim.
KeptInv == StoreInv /\ OrphansClaimed

LEMMA KeptInvariant == ASSUME ~ WithRelease PROVE Spec => []KeptInv
<1>1. Init => KeptInv
  <2>1. Init => OrphansClaimed BY DEF Init, OrphansClaimed, Orphans
  <2> QED BY <2>1, StoreInit DEF KeptInv
<1>2. KeptInv /\ [Next]_vars => KeptInv'
  BY StoreStep, ClaimedStep DEF KeptInv
<1> QED BY <1>1, <1>2, PTL DEF Spec

\* Whatever the interleaving of threads, the kills and the failing writes, no
\* caller is ever locked out of the store by the files another one left.
THEOREM NeverLockedOut == ASSUME ~ WithRelease PROVE Spec => []AlwaysSynchronizable
<1>1. KeptInv => AlwaysSynchronizable
  BY InvSynchronizable DEF AlwaysSynchronizable, KeptInv
<1> QED BY <1>1, KeptInvariant, PTL

-----------------------------------------------------------------------------
(* The refinement: which step of Corpus each step of the store is.            *)

Reserved == {<<c.range, c.owner>> : c \in {d \in claims :
               \A s \in shards : s.range # d.range}}
Promised == {<<x.range, x.content>> : x \in outcomes}
Shown    == <<manifest \cup Adopted, Reserved, Promised>>

LEMMA NoneAdopted == Orphans = {} => Adopted = {}
BY DEF Adopted

\* An orphan is adopted with the thread's claim while the thread is between the
\* rename and the manifest.
LEMMA OneAdopted ==
  StoreInv => \A t \in Threads :
    pc[t] = "renamed" => Adopted = {Recovered(Made(t), held[t])}
<1> SUFFICES ASSUME StoreInv, NEW t \in Threads, pc[t] = "renamed"
             PROVE  Adopted = {Recovered(Made(t), held[t])}
  OBVIOUS
<1>1. Orphans = {Made(t)} /\ held[t] \in claims BY DEF StoreInv, Knows
<1>2. held[t].range \in Ranges BY <1>1 DEF StoreInv, TypeInv, TypeOK, Claim
<1>3. Made(t).range = held[t].range BY DEF Made
<1>4. NonOverlapping(claims) BY DEF StoreInv, FilesOK, ClaimsOK
<1>5. \A c \in claims : c.range = held[t].range => c = held[t]
  BY <1>1, <1>2, <1>4, OverlapsReflexive DEF NonOverlapping
<1>6. Matching(Made(t)) = {held[t]} BY <1>1, <1>3, <1>5 DEF Matching
<1> QED BY <1>1, <1>6 DEF Adopted

\* Claims that are left for ranges with a shard are not reservations.
LEMMA ReservedBy ==
  \A x : x \in Reserved <=>
    \E c \in claims : x = <<c.range, c.owner>> /\ \A s \in shards : s.range # c.range
BY DEF Reserved

\* Entering, whatever it adopts, shows nothing new.
LEMMA EnterShows ==
  ASSUME StoreInv, NEW t \in Threads, NEW op, Enter(t, op)
  PROVE  UNCHANGED Shown
<1>1. manifest' = manifest \cup Adopted /\ UNCHANGED <<shards, claims, outcomes>>
  BY DEF Enter
<1>2. Orphans' = {} BY EnterAdopts
<1>3. Adopted' = {} BY <1>2 DEF Adopted
<1> QED BY <1>1, <1>3 DEF Shown, Reserved, Promised

\* A claim that is unlinked once its shard is there shows nothing new.
LEMMA UnlinkShows ==
  ASSUME StoreInv, Orphans = {}, NEW c \in claims, claims' = claims \ {c},
         UNCHANGED <<manifest, shards, outcomes>>,
         NEW e \in manifest, e.range = c.range
  PROVE  UNCHANGED Shown
<1>1. Orphans' = {} BY DEF Orphans, ShardOf
<1>2. Adopted = {} /\ Adopted' = {} BY <1>1 DEF Adopted
<1>3. ShardOf(e) \in shards /\ ShardOf(e).range = c.range
  BY DEF StoreInv, FilesOK, DisjointAndBacked, ShardOf
<1>4. Reserved' = Reserved BY <1>3 DEF Reserved
<1> QED BY <1>2, <1>4 DEF Shown, Promised

\* A range is reserved by the claim file.
LEMMA BegunReserves ==
  ASSUME StoreInv, NEW t \in Threads, Begun(t)
  PROVE  Abstract!Next \/ UNCHANGED Shown
<1>1. /\ UNCHANGED <<manifest, shards, outcomes>> /\ pc[t] = "swept" /\ call[t] = "begin"
      /\ ~ Blocked(t)
  BY DEF Begun, Swept
<1>2. Orphans = {} /\ Orphans' = {} BY <1>1 DEF StoreInv, Knows, Orphans, ShardOf, Locked
<1>3. Adopted = {} /\ Adopted' = {} BY <1>2 DEF Adopted
<1>4. CASE UNCHANGED claims
  BY <1>1, <1>3, <1>4 DEF Shown, Reserved, Promised
<1>5. CASE claims' = claims \cup {held[t]} /\ \A c \in claims : ~ SameOwner(c, held[t])
  <2>1. PICK r, o : r = held[t].range /\ o = held[t].owner OBVIOUS
  <2>2. held[t] \in Claim BY <1>1 DEF StoreInv, TypeInv, HeldOK
  <2>3. r \in Ranges /\ o \in Owners BY <2>1, <2>2 DEF Claim
  <2>4. \A e \in manifest : ~ Overlaps(e.range, r) BY <1>1, <2>1 DEF Blocked
  <2>5. \A c \in claims : ~ Overlaps(c.range, r) BY <1>1, <1>5, <2>1 DEF Blocked
  <2>6. \A s \in shards : s.range # r
    <3>1. \A s \in shards : \E e \in manifest : s = ShardOf(e) BY <1>2 DEF Orphans
    <3> QED BY <3>1, <2>3, <2>4, OverlapsReflexive DEF ShardOf
  <2>7. Reserved' = Reserved \cup {<<r, o>>}
    BY <1>1, <1>5, <2>1, <2>6 DEF Reserved
  <2>8. Abstract!Reserve(r, o)
    BY <1>1, <1>3, <2>4, <2>5, <2>7
    DEF Abstract!Reserve, Abstract!Overlaps, Overlaps, Reserved, Promised
  <2> QED BY <2>3, <2>8 DEF Abstract!Next
<1> QED BY <1>4, <1>5 DEF Begun

\* The outcome receipt is the promise, made once.
LEMMA PersistPromises ==
  ASSUME StoreInv, NEW t \in Threads, PersistOutcome(t)
  PROVE  Abstract!Next \/ UNCHANGED Shown
<1>1. /\ UNCHANGED <<manifest, shards, claims>> /\ outcomes' = outcomes \cup {Made(t)}
      /\ pc[t] = "swept" /\ call[t] = "finalize" /\ ~ Refused(t)
  BY DEF PersistOutcome, Swept
<1>2. Orphans = {} /\ Orphans' = {} BY <1>1 DEF StoreInv, Knows, Orphans, ShardOf, Locked
<1>3. Adopted = {} /\ Adopted' = {} BY <1>2 DEF Adopted
<1>4. CASE Made(t) \in outcomes
  BY <1>1, <1>3, <1>4 DEF Shown, Reserved, Promised
<1>5. CASE Made(t) \notin outcomes
  <2>1. PICK r, o, k : r = held[t].range /\ o = held[t].owner /\ k = content[t] OBVIOUS
  <2>2. held[t] \in claims /\ held[t] \in Claim /\ k \in Contents
    BY <1>1, <2>1 DEF Refused, StoreInv, TypeInv, HeldOK
  <2>3. r \in Ranges /\ o \in Owners BY <2>1, <2>2 DEF Claim
  <2>4. \A s \in shards : s.range # r
    <3>1. \A s \in shards : \E e \in manifest : s = ShardOf(e) BY <1>2 DEF Orphans
    <3>2. \A e \in manifest : ~ Overlaps(e.range, r) BY <1>1, <2>1 DEF Refused
    <3> QED BY <3>1, <3>2, <2>3, OverlapsReflexive DEF ShardOf
  <2>5. <<r, o>> \in Reserved BY <2>1, <2>2, <2>4 DEF Reserved
  <2>6. \A x \in outcomes : x.range # r
    <3>1. \A x \in outcomes : x.range = r => x.content = k BY <1>1, <2>1 DEF Refused
    <3>2. outcomes \subseteq Outcome BY DEF StoreInv, TypeInv, TypeOK
    <3> QED BY <3>1, <3>2, <1>5, <2>1 DEF Made, Outcome
  <2>7. \A p \in Promised : p[1] # r BY <2>6 DEF Promised
  <2>8. Promised' = Promised \cup {<<r, k>>}
    <3>1. PICK m : m = Made(t) OBVIOUS
    <3>2. m.range = r /\ m.content = k BY <3>1, <2>1 DEF Made
    <3>3. outcomes' = outcomes \cup {m} BY <1>1, <3>1
    <3> QED BY <3>2, <3>3 DEF Promised
  <2>9. Reserved' = Reserved BY <1>1 DEF Reserved
  <2>10. Abstract!Promise(r, o, k)
    BY <1>1, <1>3, <2>5, <2>7, <2>8, <2>9 DEF Abstract!Promise, Reserved, Promised
  <2> QED BY <2>2, <2>3, <2>10 DEF Abstract!Next
<1> QED BY <1>4, <1>5

\* Binding the receipt changes neither the range nor the owner of the claim.
LEMMA BindShows ==
  ASSUME StoreInv, NEW t \in Threads, BindReceipt(t)
  PROVE  UNCHANGED Shown
<1>1. /\ UNCHANGED <<manifest, shards, outcomes>> /\ pc[t] = "outcome"
      /\ claims' = (claims \ {held[t]}) \cup {BoundClaim(t)}
  BY DEF BindReceipt
<1>2. Orphans = {} /\ Orphans' = {} BY <1>1 DEF StoreInv, Knows, Orphans, ShardOf, Locked
<1>3. Adopted = {} /\ Adopted' = {} BY <1>2 DEF Adopted
<1>4. held[t] \in claims BY <1>1 DEF StoreInv, Knows
<1>5. BoundClaim(t).range = held[t].range /\ BoundClaim(t).owner = held[t].owner
  BY DEF BoundClaim
<1>6. Reserved' = Reserved BY <1>1, <1>4, <1>5 DEF Reserved
<1> QED BY <1>1, <1>3, <1>6 DEF Shown, Promised

\* The rename is the instant at which the range is final.
LEMMA RenameFinalizes ==
  ASSUME StoreInv, StoreInv', NEW t \in Threads, RenameShard(t)
  PROVE  Abstract!Next
<1>1. /\ UNCHANGED <<manifest, claims, outcomes, held, content>>
      /\ shards' = shards \cup {Made(t)} /\ pc[t] = "bound" /\ pc'[t] = "renamed"
  BY DEF RenameShard, Go, StoreInv, TypeInv, TypeOK
<1>2. /\ Orphans = {} /\ Free(t) /\ held[t] \in claims
      /\ Made(t) \in outcomes /\ held[t].receipt = content[t]
  BY <1>1 DEF StoreInv, Knows, Locked
<1>3. Adopted = {} BY <1>2 DEF Adopted
<1>4. Adopted' = {Recovered(Made(t), held[t])'}
  <2>1. Made(t)' = Made(t) BY <1>1 DEF Made
  <2>2. Orphans' = {Made(t)} /\ Matching(Made(t))' = Matching(Made(t))
    BY <1>1, <2>1 DEF StoreInv, Knows, Matching
  <2>3. Made(t).range = held[t].range /\ held[t].range \in Ranges
    BY <1>2 DEF Made, StoreInv, TypeInv, TypeOK, Claim
  <2>4. Matching(Made(t)) = {held[t]}
    BY <1>2, <2>3, OverlapsReflexive
    DEF Matching, StoreInv, FilesOK, ClaimsOK, NonOverlapping
  <2> QED BY <1>1, <2>1, <2>2, <2>4 DEF Adopted, Recovered
<1>5. PICK r, o, k : r = held[t].range /\ o = held[t].owner /\ k = content[t] OBVIOUS
<1>6. r \in Ranges /\ o \in Owners /\ k \in Contents
  BY <1>1, <1>2, <1>5 DEF StoreInv, TypeInv, TypeOK, HeldOK, Claim, Locked
<1>7. Recovered(Made(t), held[t])' = [range |-> r, owner |-> o, content |-> k, receipt |-> k]
  BY <1>1, <1>2, <1>5 DEF Recovered, Made
<1>8. \A s \in shards : s.range # r
  BY <1>2, <1>5, <1>6, OverlapsReflexive DEF Free
<1>9. <<r, o>> \in Reserved BY <1>2, <1>5, <1>8 DEF Reserved
<1>10. <<r, k>> \in Promised BY <1>2, <1>5 DEF Promised, Made
<1>11. Reserved' = Reserved \ {<<r, o>>}
  <2>1. \A c \in claims : c.range = r => c.owner = o
    BY <1>2, <1>5, <1>6, OverlapsReflexive
    DEF StoreInv, FilesOK, ClaimsOK, NonOverlapping
  <2>2. Made(t).range = r BY <1>5 DEF Made
  <2> QED BY <1>1, <2>1, <2>2 DEF Reserved
<1>12. Abstract!Finalize(r, o, k)
  BY <1>1, <1>3, <1>4, <1>7, <1>9, <1>10, <1>11
  DEF Abstract!Finalize, Reserved, Promised
<1> QED BY <1>6, <1>12 DEF Abstract!Next

\* Listing the shard shows nothing new: recovery would have listed the same.
LEMMA PublishShows ==
  ASSUME StoreInv, StoreInv', NEW t \in Threads, PublishManifest(t)
  PROVE  UNCHANGED Shown
<1>1. /\ UNCHANGED <<shards, claims, outcomes, held>> /\ pc[t] = "renamed"
      /\ pc'[t] = "published"
      /\ manifest' = manifest \cup {Recovered(Made(t), held[t])}
  BY DEF PublishManifest, Go, StoreInv, TypeInv, TypeOK
<1>2. Adopted = {Recovered(Made(t), held[t])} BY <1>1, OneAdopted
<1>3. Orphans' = {} BY <1>1 DEF StoreInv, Knows, Locked
<1>4. Adopted' = {} BY <1>3 DEF Adopted
<1> QED BY <1>1, <1>2, <1>4 DEF Shown, Reserved, Promised

\* Every step of the store is a step of Corpus or one it does not see.
LEMMA StoreRefines ==
  ASSUME ~ WithRelease, StoreInv, StoreInv', [Next]_vars
  PROVE  Abstract!Next \/ UNCHANGED Shown
<1>1. ASSUME NEW t \in Threads, Sweep(t) PROVE UNCHANGED Shown
  <2>1. PICK c \in Completed : claims' = claims \ {c} BY <1>1 DEF Sweep
  <2>2. UNCHANGED <<manifest, shards, outcomes>> /\ pc[t] = "swept" BY <1>1 DEF Sweep
  <2>3. Orphans = {} BY <2>2 DEF StoreInv, Knows, Locked
  <2>4. c \in claims /\ \E e \in manifest : e.range = c.range BY DEF Completed
  <2> QED BY <2>1, <2>2, <2>3, <2>4, UnlinkShows
<1>2. ASSUME NEW t \in Threads, UnlinkClaim(t) PROVE UNCHANGED Shown
  <2>1. /\ claims' = claims \ {held[t]} /\ UNCHANGED <<manifest, shards, outcomes>>
        /\ pc[t] = "published"
    BY <1>2 DEF UnlinkClaim
  <2>2. /\ Orphans = {} /\ held[t] \in claims
        /\ Recovered(Made(t), held[t]) \in manifest
    BY <2>1 DEF StoreInv, Knows, Locked
  <2>3. Recovered(Made(t), held[t]).range = held[t].range BY DEF Recovered, Made
  <2> QED BY <2>1, <2>2, <2>3, UnlinkShows
<1>3. CASE UNCHANGED durable
  BY <1>3 DEF Shown, Reserved, Promised, Adopted, Orphans, Matching, ShardOf, durable
<1>4. ASSUME NEW t \in Threads, Step(t)
      PROVE  \/ \E op : Enter(t, op)
             \/ Sweep(t) \/ Begun(t) \/ BindReceipt(t) \/ UnlinkClaim(t)
             \/ PersistOutcome(t) \/ PublishManifest(t) \/ RenameShard(t)
             \/ UNCHANGED durable
  BY <1>4 DEF Step, Open, Begin, Finalize, Opened, BeginRaises, Abort, FinalizeRaises,
     EnterRaises, WriteRaises, Release
<1> QED
  BY <1>1, <1>2, <1>3, <1>4, EnterShows, BegunReserves, PersistPromises, BindShows,
     RenameFinalizes, PublishShows DEF Next, Crash, vars, durable

\* The claim files, the shard files, the outcome files and the manifest of any
\* number of processes implement the corpus: ranges are reserved, promised and
\* finalized once each, however a finalization is cut short and completed.
THEOREM FilesImplementCorpus == ASSUME ~ WithRelease PROVE Spec => ImplementsCorpus
<1>1. Init => Abstract!Init
  BY DEF Init, Abstract!Init, Adopted, Orphans
<1>2. StoreInv /\ StoreInv' /\ [Next]_vars => [Abstract!Next]_(Abstract!vars)
  BY StoreRefines DEF Abstract!vars, Shown, Reserved, Promised
<1> QED BY <1>1, <1>2, StoreInvariant, PTL DEF Spec, ImplementsCorpus, Abstract!Spec

-----------------------------------------------------------------------------
\* Nothing durable is ever dropped or rewritten, with or without release_claim.
THEOREM NothingLost == Spec => AppendOnly
<1> DEFINE Kept == /\ manifest \subseteq manifest'
                   /\ shards \subseteq shards'
                   /\ outcomes \subseteq outcomes'
<1>1. [Next]_vars => [Kept]_vars
  <2>1. ASSUME NEW t \in Threads, Step(t) PROVE Kept
    BY <2>1 DEF Step, Open, Begin, Finalize, Enter, Opened, Begun, BeginRaises, Abort,
       FinalizeRaises, PersistOutcome, BindReceipt, RenameShard, PublishManifest,
       UnlinkClaim, Sweep, EnterRaises, WriteRaises, Release, durable
  <2>2. ASSUME NEW p \in Processes, Crash(p) PROVE Kept
    BY <2>2 DEF Crash, durable
  <2> QED BY <2>1, <2>2 DEF Next
<1> QED BY <1>1, PTL DEF Spec, AppendOnly

-----------------------------------------------------------------------------
(* A run of the pipeline is a run of the store.                               *)

LEMMA Staff ==
  \A p \in Processes :
    /\ Main[p] \in Threads /\ Pool(p) \subseteq Threads
    /\ \A t \in Threads : ProcessOf[t] = p <=> t = Main[p] \/ t \in Pool(p)
    /\ Main[p] \notin Pool(p)
BY PipelineAssumption DEF Pool

Phases == {"absent", "stopped", "opened", "running", "done"}

\* The ranges of a pool are ranges of the plan.
PipeTypes == /\ phase \in [Processes -> Phases]
             /\ todo \in [Processes -> SUBSET Ranges]

LEMMA PipeTypesInit == PInit => PipeTypes
BY DEF PInit, PipeTypes, Phases

LEMMA PipeTypesStep == PipeTypes /\ [PNext]_pvars => PipeTypes'
<1> SUFFICES ASSUME PipeTypes, [PNext]_pvars PROVE PipeTypes' OBVIOUS
<1> USE DEF PipeTypes, Phases
<1>1. ASSUME NEW p \in Processes, MainStep(p) \/ BreakMain(p) \/ Kill(p) PROVE PipeTypes'
  BY <1>1 DEF MainStep, MainEnters, StoreOpened, Submit, Complete, Fail, Sweeps, BreakMain,
     Kill, To
<1>2. ASSUME NEW p \in Processes, NEW t \in Pool(p), PoolStep(p, t) \/ Break(p, t)
      PROVE  PipeTypes'
  BY <1>2 DEF PoolStep, Take, Work, Lose, Sweeps, Break
<1>3. CASE UNCHANGED pvars BY <1>3 DEF pvars
<1> QED BY <1>1, <1>2, <1>3 DEF PNext, AllDone

LEMMA PipelineStep == PipeTypes /\ [PNext]_pvars => [Next]_vars
<1> SUFFICES ASSUME PipeTypes, [PNext]_pvars PROVE [Next]_vars OBVIOUS
<1>1. ASSUME NEW p \in Processes, MainStep(p) PROVE [Next]_vars
  <2>1. Main[p] \in Threads BY Staff
  <2>2. Step(Main[p]) \/ UNCHANGED vars
    BY <1>1 DEF MainStep, MainEnters, StoreOpened, Submit, Complete, Fail, Sweeps, Step
  <2> QED BY <2>1, <2>2 DEF Next
<1>2. ASSUME NEW p \in Processes, BreakMain(p) \/ Kill(p) PROVE [Next]_vars
  <2>1. Main[p] \in Threads BY Staff
  <2> QED BY <1>2, <2>1 DEF BreakMain, Kill, Next, Step
<1>3. ASSUME NEW p \in Processes, NEW t \in Pool(p), PoolStep(p, t) \/ Break(p, t)
      PROVE  [Next]_vars
  <2>1. t \in Threads BY Staff
  <2>2. PoolStep(p, t) => Step(t)
    <3>1. ASSUME Take(p, t) PROVE Step(t)
      <4>1. PICK r \in todo[p], o \in Owners : Begin(t, r, o) BY <3>1 DEF Take
      <4>2. r \in Ranges BY DEF PipeTypes
      <4> QED BY <4>1, <4>2 DEF Step
    <3> QED BY <3>1 DEF PoolStep, Work, Lose, Sweeps, Step
  <2>3. Break(p, t) => Step(t) BY DEF Break, Step
  <2> QED BY <1>3, <2>1, <2>2, <2>3 DEF Next
<1>4. CASE UNCHANGED pvars BY <1>4 DEF pvars
<1> QED BY <1>1, <1>2, <1>3, <1>4 DEF PNext, AllDone

\* Whatever holds of every store holds of the one the pipeline runs on.
LEMMA PipelineIsStore == PSpec => Spec
<1>1. PInit => Init BY DEF PInit
<1> QED BY <1>1, PipeTypesInit, PipeTypesStep, PipelineStep, PTL DEF PSpec, Spec


-----------------------------------------------------------------------------
(* The ranges of a process are shared out once.  The lemmas say what a step   *)
(* of one of its workers, of its main thread, or of another process does.     *)

\* No worker of the process has anything to do.
Quiet(p) == todo[p] = {} /\ \A t \in Pool(p) : pc[t] = "idle"

\* The main thread only opens the store; outside a run, and when it asks for
\* the receipt, the pool is quiet.
Order(p) ==
  /\ pc[Main[p]] \in {"idle", "swept"} /\ call[Main[p]] = "open"
  /\ phase[p] \in {"absent", "done"} => pc[Main[p]] = "idle"
  /\ phase[p] # "running" \/ pc[Main[p]] = "swept" => Quiet(p)
  /\ \A t \in Pool(p) : pc[t] = "swept" => call[t] # "open"

\* Every other process is absent.
Sole(p) == \A q \in Processes \ {p} : phase[q] = "absent"

\* The worker's range is its own: it has no shard until the worker puts it there.
Assigned(p, t) ==
  /\ held[t].range \notin todo[p]
  /\ pc[t] = "writing" \/ (pc[t] = "swept" /\ call[t] = "finalize") => held[t] \in claims
  /\ pc[t] \notin {"renamed", "published"} => \A s \in shards : s.range # held[t].range
  /\ \A u \in Pool(p) \ {t} : pc[u] # "idle" => held[u].range # held[t].range

\* A process alone on its root shares out the ranges that have no shard.
Shares(p) ==
  /\ \A r \in todo[p] : \A s \in shards : s.range # r
  /\ \A t \in Pool(p) : pc[t] # "idle" => Assigned(p, t)

\* A run that succeeded has finalized its plan.
Receipts == \A p \in Processes : phase[p] = "done" => Ranges \subseteq Finalized

PipeInv ==
  /\ PipeTypes /\ Receipts
  /\ \A p \in Processes : Order(p) /\ (Sole(p) => Shares(p))

LEMMA PlanDisjoint == \A r, s \in Ranges : Overlaps(r, s) => r = s
<1> SUFFICES ASSUME NEW r \in Ranges, NEW s \in Ranges, Overlaps(r, s) PROVE r = s
  OBVIOUS
<1>1. PICK a, b : a = [range |-> r] /\ b = [range |-> s] OBVIOUS
<1>2. a.range = r /\ b.range = s BY <1>1
<1>3. NonOverlapping({[range |-> q] : q \in Ranges}) BY PipelineAssumption
<1>4. a = b BY <1>1, <1>2, <1>3 DEF NonOverlapping
<1> QED BY <1>2, <1>4

LEMMA PipeInit == PInit => PipeInv
<1> SUFFICES ASSUME PInit PROVE PipeInv OBVIOUS
<1>1. PipeTypes BY PipeTypesInit
<1>2. Receipts BY DEF PInit, Receipts
<1>3. ASSUME NEW p \in Processes PROVE Order(p) /\ Shares(p)
  <2>1. Main[p] \in Threads /\ Pool(p) \subseteq Threads BY Staff
  <2>2. todo[p] = {} BY DEF PInit
  <2>3. \A t \in Threads : pc[t] = "idle" /\ call[t] = "open" BY DEF PInit, Init
  <2> QED BY <2>1, <2>2, <2>3 DEF Order, Shares, Quiet, PInit
<1> QED BY <1>1, <1>2, <1>3 DEF PipeInv

\* The other processes: their runs and their threads do not move.
Aside(p) ==
  /\ \A q \in Processes \ {p} : phase'[q] = phase[q] /\ todo'[q] = todo[q]
  /\ \A t \in Threads : ProcessOf[t] # p => pc'[t] = pc[t] /\ call'[t] = call[t]

\* What a step of a process that is there leaves to be shown.
LEMMA ProcessStep ==
  ASSUME PipeInv, PipeTypes', manifest \subseteq manifest', NEW p \in Processes, Aside(p),
         phase[p] # "absent", phase'[p] # "absent",
         phase'[p] = "done" => phase[p] = "done" \/ Ranges \subseteq Finalized',
         Order(p)', Sole(p) => Shares(p)'
  PROVE  PipeInv'
<1>1. Receipts'
  <2>1. Finalized \subseteq Finalized' BY DEF Finalized
  <2> QED BY <2>1 DEF PipeInv, Receipts, Aside
<1>2. Sole(p)' => Sole(p) BY DEF Sole, Aside
<1>3. ASSUME NEW q \in Processes \ {p} PROVE Order(q)' /\ ~ Sole(q)'
  <2>1. /\ Main[q] \in Threads /\ ProcessOf[Main[q]] # p
        /\ \A t \in Pool(q) : t \in Threads /\ ProcessOf[t] # p
    BY Staff
  <2>2. Order(q) BY DEF PipeInv
  <2>3. Order(q)' BY <2>1, <2>2 DEF Order, Quiet, Aside
  <2>4. ~ Sole(q)' BY DEF Sole
  <2> QED BY <2>3, <2>4
<1> QED BY <1>1, <1>2, <1>3 DEF PipeInv

\* A quiet pool has nothing left to share.
LEMMA QuietShares == ASSUME NEW p \in Processes, Quiet(p)' PROVE Shares(p)'
BY DEF Quiet, Shares

\* A worker with something to do works for a run whose main thread waits.
LEMMA WorkerOrder ==
  ASSUME NEW p \in Processes, Order(p), NEW t \in Pool(p), Others(t),
         pc[t] # "idle" \/ todo[p] # {}, phase' = phase,
         pc'[t] = "swept" => call'[t] # "open"
  PROVE  Order(p)' /\ phase[p] = "running"
<1>1. phase[p] = "running" /\ pc[Main[p]] = "idle" BY DEF Order, Quiet
<1>2. /\ Main[p] \in Threads \ {t}
      /\ \A u \in Pool(p) : u \in Threads
  BY Staff
<1>3. pc'[Main[p]] = pc[Main[p]] /\ call'[Main[p]] = call[Main[p]] BY <1>2 DEF Others
<1>4. \A u \in Pool(p) \ {t} : pc'[u] = pc[u] /\ call'[u] = call[u] BY <1>2 DEF Others
<1> QED BY <1>1, <1>3, <1>4 DEF Order

\* A worker adds at most the shard of its own range, and takes away at most its
\* own claim and those of ranges that have a shard.
LEMMA SharesFrame ==
  ASSUME NEW p \in Processes, Shares(p), NEW t \in Pool(p), pc[t] # "idle", Others(t),
         todo'[p] = todo[p],
         pc'[t] = "idle" \/ held'[t].range = held[t].range,
         \A s \in shards' : s \in shards \/ s.range = held[t].range,
         \A c \in claims : \/ c \in claims' \/ c = held[t]
                           \/ \E s \in shards : s.range = c.range,
         pc'[t] = "writing" \/ (pc'[t] = "swept" /\ call'[t] = "finalize")
           => held'[t] \in claims',
         pc'[t] \notin {"renamed", "published", "idle"} =>
           pc[t] \notin {"renamed", "published"} /\ shards' = shards
  PROVE  Shares(p)'
<1>1. Assigned(p, t) BY DEF Shares
<1>2. \A r \in todo'[p] : \A s \in shards' : s.range # r
  BY <1>1 DEF Shares, Assigned
<1>3. ASSUME NEW u \in Pool(p) \ {t}, pc'[u] # "idle" PROVE Assigned(p, u)'
  <2>1. /\ pc'[u] = pc[u] /\ call'[u] = call[u] /\ held'[u] = held[u]
        /\ \A v \in Pool(p) \ {t} : pc'[v] = pc[v] /\ held'[v] = held[v]
    BY Staff DEF Others
  <2>2. Assigned(p, u) BY <1>3, <2>1 DEF Shares
  <2>3. held[u].range # held[t].range BY <2>2 DEF Assigned
  <2>4. held'[u].range \notin todo'[p] BY <2>1, <2>2 DEF Assigned
  <2>5. pc'[u] = "writing" \/ (pc'[u] = "swept" /\ call'[u] = "finalize")
          => held'[u] \in claims'
    BY <2>1, <2>2, <2>3 DEF Assigned
  <2>6. pc'[u] \notin {"renamed", "published"} => \A s \in shards' : s.range # held'[u].range
    BY <2>1, <2>2, <2>3 DEF Assigned
  <2>7. ASSUME NEW v \in Pool(p) \ {u}, pc'[v] # "idle" PROVE held'[v].range # held'[u].range
    <3>1. CASE v = t BY <3>1, <2>1, <2>3, <2>7
    <3>2. CASE v # t BY <3>2, <2>1, <2>2, <2>7 DEF Assigned
    <3> QED BY <3>1, <3>2
  <2> QED BY <2>4, <2>5, <2>6, <2>7 DEF Assigned
<1>4. ASSUME pc'[t] # "idle" PROVE Assigned(p, t)'
  <2>1. held'[t].range = held[t].range BY <1>4
  <2>2. \A u \in Pool(p) \ {t} : pc'[u] = pc[u] /\ held'[u] = held[u] BY Staff DEF Others
  <2>3. pc'[t] \notin {"renamed", "published"} => \A s \in shards' : s.range # held'[t].range
    BY <1>1, <1>4, <2>1 DEF Assigned
  <2> QED BY <1>1, <2>1, <2>2, <2>3 DEF Assigned
<1> QED BY <1>2, <1>3, <1>4 DEF Shares

-----------------------------------------------------------------------------
(* The steps of a worker.                                                     *)

\* A worker takes a range nobody else has and that has no shard.
LEMMA TakeStep ==
  ASSUME PipeInv, StoreInv, NEW p \in Processes, NEW t \in Pool(p), Take(p, t)
  PROVE  Order(p)' /\ (Sole(p) => Shares(p)') /\ Aside(p)
<1>1. PICK r \in todo[p], o \in Owners :
        Begin(t, r, o) /\ todo' = [todo EXCEPT ![p] = @ \ {r}]
  BY DEF Take
<1>2. /\ UNCHANGED <<shards, claims, phase>> /\ pc[t] = "idle"
      /\ phase[p] = "running" /\ t \in Threads
  BY <1>1, Staff DEF Take, Begin, Enter
<1>3. /\ pc'[t] = "swept" /\ call'[t] = "begin" /\ Others(t)
      /\ held'[t] = [range |-> r, owner |-> o, receipt |-> None]
  BY <1>1, <1>2 DEF Begin, Enter, Go, Others, StoreInv, TypeInv, TypeOK
<1>4. held'[t].range = r BY <1>3
<1>5. todo'[p] = todo[p] \ {r} /\ \A q \in Processes \ {p} : todo'[q] = todo[q]
  BY <1>1 DEF PipeInv, PipeTypes
<1>6. Order(p)' BY <1>2, <1>3, WorkerOrder DEF PipeInv
<1>7. ASSUME Sole(p) PROVE Shares(p)'
  <2>1. Shares(p) BY <1>7 DEF PipeInv
  <2>2. \A x \in todo'[p] : \A s \in shards' : s.range # x BY <1>2, <1>5, <2>1 DEF Shares
  <2>3. ASSUME NEW u \in Pool(p) \ {t}, pc'[u] # "idle" PROVE Assigned(p, u)'
    <3>1. /\ pc'[u] = pc[u] /\ call'[u] = call[u] /\ held'[u] = held[u]
          /\ \A v \in Pool(p) \ {t} : pc'[v] = pc[v] /\ held'[v] = held[v]
      BY <1>3, Staff DEF Others
    <3>2. Assigned(p, u) BY <2>1, <2>3, <3>1 DEF Shares
    <3>3. held[u].range # r BY <3>2 DEF Assigned
    <3>4. \A v \in Pool(p) \ {u} : pc'[v] # "idle" => held'[v].range # held'[u].range
      BY <1>4, <3>1, <3>2, <3>3 DEF Assigned
    <3> QED BY <1>2, <1>5, <3>1, <3>2, <3>4 DEF Assigned
  <2>4. Assigned(p, t)'
    <3>1. \A v \in Pool(p) \ {t} : pc'[v] = pc[v] /\ held'[v] = held[v]
      BY <1>3, Staff DEF Others
    <3>2. \A v \in Pool(p) \ {t} : pc'[v] # "idle" => held'[v].range # r
      BY <2>1, <3>1 DEF Shares, Assigned
    <3>3. \A s \in shards : s.range # r BY <2>1 DEF Shares
    <3> QED BY <1>2, <1>3, <1>4, <1>5, <3>2, <3>3 DEF Assigned
  <2> QED BY <2>2, <2>3, <2>4 DEF Shares
<1>8. Aside(p) BY <1>2, <1>3, <1>5, Staff DEF Aside, Others
<1> QED BY <1>6, <1>7, <1>8

\* Every other step of a worker: what it does to its range.
LEMMA WorkerShares ==
  ASSUME PipeInv, StoreInv, NEW p \in Processes, NEW t \in Pool(p), Shares(p),
         todo' = todo, Work(t) \/ Sweep(t) \/ (Drop(t) /\ pc[t] # "idle" /\ UNCHANGED durable)
  PROVE  Shares(p)'
<1> USE DEF StoreInv, TypeInv, TypeOK, Others, Go
<1>0. t \in Threads BY Staff
<1>1. CASE Drop(t) /\ pc[t] # "idle" /\ UNCHANGED durable
  BY <1>0, <1>1, SharesFrame DEF Drop, durable
<1>2. CASE Sweep(t)
  <2>1. PICK c \in Completed : claims' = claims \ {c} BY <1>2 DEF Sweep
  <2>2. /\ UNCHANGED <<manifest, shards, pc, call, held, content>> /\ pc[t] = "swept"
    BY <1>2 DEF Sweep, local
  <2>3. \E s \in shards : s.range = c.range
    BY <2>1 DEF Completed, FilesOK, DisjointAndBacked, ShardOf
  <2>4. Assigned(p, t) BY <2>2 DEF Shares
  <2>5. call[t] = "finalize" => held[t] \in claims'
    BY <2>1, <2>2, <2>3, <2>4 DEF Assigned
  <2>6. \A x \in claims : x \in claims' \/ \E s \in shards : s.range = x.range
    BY <2>1, <2>3
  <2> QED BY <2>2, <2>5, <2>6, SharesFrame
<1>3. CASE Begun(t)
  <2>1. /\ UNCHANGED <<shards>> /\ pc[t] = "swept" /\ pc'[t] = "writing" /\ Others(t)
    BY <1>0, <1>3 DEF Begun, Swept
  <2>2. claims \subseteq claims' /\ held'[t].range = held[t].range /\ held'[t] \in claims'
    BY <1>0, <1>3 DEF Begun, SameOwner
  <2> QED BY <2>1, <2>2, SharesFrame
<1>4. ASSUME NEW k \in Contents, Finalize(t, k) PROVE Shares(p)'
  <2>1. /\ UNCHANGED <<shards, claims, held>> /\ pc[t] = "writing" /\ pc'[t] = "swept"
        /\ Others(t)
    BY <1>0, <1>4 DEF Finalize, Enter
  <2>2. held[t] \in claims BY <2>1 DEF Shares, Assigned
  <2> QED BY <2>1, <2>2, SharesFrame
<1>5. CASE PersistOutcome(t)
  BY <1>0, <1>5, SharesFrame DEF PersistOutcome, Swept
<1>6. CASE BindReceipt(t)
  <2>1. /\ UNCHANGED shards /\ pc[t] = "outcome" /\ pc'[t] = "bound" /\ Others(t)
        /\ held'[t].range = held[t].range
    BY <1>0, <1>6 DEF BindReceipt, BoundClaim
  <2>2. \A c \in claims : c \in claims' \/ c = held[t] BY <1>6 DEF BindReceipt
  <2> QED BY <2>1, <2>2, SharesFrame
<1>7. CASE RenameShard(t)
  <2>1. /\ UNCHANGED <<claims, held>> /\ pc[t] = "bound" /\ pc'[t] = "renamed" /\ Others(t)
    BY <1>0, <1>7 DEF RenameShard
  <2>2. \A s \in shards' : s \in shards \/ s.range = held[t].range
    BY <1>7 DEF RenameShard, Made
  <2> QED BY <2>1, <2>2, SharesFrame
<1>8. CASE PublishManifest(t)
  BY <1>0, <1>8, SharesFrame DEF PublishManifest
<1>9. CASE UnlinkClaim(t)
  <2>1. /\ UNCHANGED <<shards>> /\ pc[t] = "published" /\ pc'[t] = "idle" /\ Others(t)
        /\ claims' = claims \ {held[t]}
    BY <1>0, <1>9 DEF UnlinkClaim, Leave, Drop
  <2> QED BY <2>1, SharesFrame
<1> QED BY <1>1, <1>2, <1>3, <1>4, <1>5, <1>6, <1>7, <1>8, <1>9 DEF Work

\* What such a step does to the thread itself.
LEMMA WorkerMoves ==
  ASSUME StoreInv, NEW p \in Processes, NEW t \in Pool(p),
         \/ Work(t)
         \/ Sweep(t) /\ call[t] # "open"
         \/ Drop(t) /\ pc[t] # "idle"
  PROVE  pc[t] # "idle" /\ Others(t) /\ (pc'[t] = "swept" => call'[t] # "open")
<1> USE DEF StoreInv, TypeInv, TypeOK, Others, Go
<1>0. t \in Threads BY Staff
<1>1. CASE Drop(t) /\ pc[t] # "idle" BY <1>0, <1>1 DEF Drop
<1>2. CASE Sweep(t) /\ call[t] # "open" BY <1>2 DEF Sweep, local
<1>3. CASE Work(t)
  BY <1>0, <1>3 DEF Work, Begun, Swept, Finalize, Enter, PersistOutcome, BindReceipt, RenameShard,
     PublishManifest, UnlinkClaim, Leave, Drop
<1> QED BY <1>1, <1>2, <1>3

LEMMA WorkerStep ==
  ASSUME PipeInv, StoreInv, PipeTypes', manifest \subseteq manifest',
         NEW p \in Processes, NEW t \in Pool(p), PoolStep(p, t) \/ Break(p, t)
  PROVE  PipeInv'
<1>1. phase' = phase
  BY DEF PoolStep, Take, Work, Lose, Sweeps, Break
<1>2. CASE Take(p, t)
  <2>1. phase[p] = "running" BY <1>2 DEF Take
  <2> QED BY <1>1, <1>2, <2>1, TakeStep, ProcessStep
<1>3. CASE Work(t) \/ Sweeps(t) \/ Lose(p, t) \/ Break(p, t)
  <2>1. todo' = todo BY <1>3 DEF Work, Sweeps, Lose, Break
  <2>2. Work(t) \/ Sweep(t) \/ (Drop(t) /\ pc[t] # "idle" /\ UNCHANGED durable)
    BY <1>3 DEF Sweeps, Lose, Break, BeginRaises, FinalizeRaises, Swept, Abort, WriteRaises,
       Leave, Locked
  <2>3. Sweep(t) => call[t] # "open" BY DEF Sweep, PipeInv, Order
  <2>4. pc[t] # "idle" /\ Others(t) /\ (pc'[t] = "swept" => call'[t] # "open")
    <3>1. \/ Work(t)
          \/ Sweep(t) /\ call[t] # "open"
          \/ Drop(t) /\ pc[t] # "idle"
      BY <2>2, <2>3
    <3> QED BY <3>1, WorkerMoves, Zenon
  <2>5. Order(p)' /\ phase[p] = "running"
    BY <1>1, <2>4, WorkerOrder DEF PipeInv
  <2>6. Sole(p) => Shares(p)' BY <2>1, <2>2, WorkerShares DEF PipeInv
  <2>7. Aside(p) BY <1>1, <2>1, <2>4, Staff DEF Aside, Others
  <2> QED BY <1>1, <2>5, <2>6, <2>7, ProcessStep
<1> QED BY <1>2, <1>3 DEF PoolStep

-----------------------------------------------------------------------------
(* The steps of a main thread, and the end of a process.                      *)

\* Main has left or entered the store, or sweeps: its pool does not move.
LEMMA MainMoves ==
  ASSUME StoreInv, NEW p \in Processes, NEW q \in {"idle", "swept"},
         Others(Main[p]), pc'[Main[p]] = q, call'[Main[p]] = "open"
  PROVE  /\ \A t \in Pool(p) : pc'[t] = pc[t] /\ call'[t] = call[t]
         /\ \A t \in Threads : ProcessOf[t] # p => pc'[t] = pc[t] /\ call'[t] = call[t]
BY Staff DEF Others

LEMMA MainEntersStep ==
  ASSUME PipeInv, StoreInv, NEW p \in Processes, MainEnters(p)
  PROVE  Order(p)' /\ Shares(p)' /\ Aside(p) /\ phase[p] # "absent" /\ phase' = phase
<1>1. Main[p] \in Threads BY Staff
<1>2. /\ pc'[Main[p]] = "swept" /\ call'[Main[p]] = "open" /\ Others(Main[p])
      /\ UNCHANGED <<phase, todo>>
  BY <1>1 DEF MainEnters, Open, Enter, Go, Others, StoreInv, TypeInv, TypeOK
<1>3. phase[p] \in {"stopped", "opened", "running"} /\ Quiet(p)
  BY DEF MainEnters, PipeInv, Order, Quiet
<1>4. /\ \A t \in Pool(p) : pc'[t] = pc[t] /\ call'[t] = call[t]
      /\ \A t \in Threads : ProcessOf[t] # p => pc'[t] = pc[t] /\ call'[t] = call[t]
  BY <1>2, MainMoves
<1>5. Quiet(p)' BY <1>2, <1>3, <1>4 DEF Quiet
<1>6. Order(p)' BY <1>2, <1>3, <1>4, <1>5 DEF Order, Quiet
<1>7. Aside(p) BY <1>2, <1>4 DEF Aside
<1> QED BY <1>2, <1>3, <1>5, <1>6, <1>7, QuietShares

\* The main thread returns or raises out of the store.
LEMMA MainLeavesStep ==
  ASSUME PipeInv, StoreInv, PipeTypes', NEW p \in Processes,
         StoreOpened(p) \/ Submit(p) \/ Complete(p) \/ BreakMain(p)
  PROVE  /\ Order(p)' /\ Shares(p)' /\ Aside(p)
         /\ phase[p] # "absent" /\ phase'[p] # "absent"
         /\ phase'[p] = "done" => Ranges \subseteq Finalized'
<1>1. Main[p] \in Threads BY Staff
<1>2. Drop(Main[p]) /\ UNCHANGED durable /\ pc[Main[p]] \in Locked
  BY DEF StoreOpened, Submit, Complete, BreakMain, Opened, Swept, Leave, WriteRaises, Locked
<1>3. pc'[Main[p]] = "idle" /\ call'[Main[p]] = "open" /\ Others(Main[p])
  BY <1>1, <1>2 DEF Drop, Go, Others, StoreInv, TypeInv, TypeOK
<1>4. pc[Main[p]] = "swept" /\ Quiet(p) /\ phase[p] \notin {"absent", "done"}
  BY <1>2 DEF PipeInv, Order, Locked
<1>5. /\ \A t \in Pool(p) : pc'[t] = pc[t] /\ call'[t] = call[t]
      /\ \A t \in Threads : ProcessOf[t] # p => pc'[t] = pc[t] /\ call'[t] = call[t]
  BY <1>3, MainMoves
<1>6. \A t \in Pool(p) : pc'[t] = "idle" BY <1>4, <1>5 DEF Quiet
<1>7. \A q \in Processes \ {p} : phase'[q] = phase[q] /\ todo'[q] = todo[q]
  BY DEF StoreOpened, Submit, Complete, BreakMain, To, PipeInv, PipeTypes
<1>8. Aside(p) BY <1>5, <1>7 DEF Aside
<1>9. CASE StoreOpened(p) \/ Complete(p) \/ BreakMain(p)
  <2>1. /\ phase'[p] \in {"opened", "done", "stopped"} /\ todo' = todo
        /\ phase'[p] = "done" => Ranges \subseteq Finalized
    BY <1>9 DEF StoreOpened, Complete, BreakMain, To, PipeInv, PipeTypes
  <2>2. Finalized' = Finalized BY <1>2 DEF Finalized, durable
  <2>3. Quiet(p)' BY <1>4, <1>6, <2>1 DEF Quiet
  <2>4. Order(p)' BY <1>3, <1>6, <2>3 DEF Order
  <2> QED BY <1>4, <1>8, <2>1, <2>2, <2>3, <2>4, QuietShares
<1>10. CASE Submit(p)
  <2>1. phase'[p] = "running" /\ todo'[p] = Ranges \ Finalized
    BY <1>10 DEF Submit, To, PipeInv, PipeTypes
  <2>2. Order(p)' BY <1>3, <1>6, <2>1 DEF Order
  <2>3. Orphans = {} BY <1>1, <1>4 DEF StoreInv, Knows, Locked
  <2>4. \A s \in shards : s.range \in Finalized
    BY <2>3 DEF Orphans, ShardOf, Finalized
  <2>5. \A r \in todo'[p] : \A s \in shards' : s.range # r
    BY <1>2, <2>1, <2>4 DEF durable
  <2>6. Shares(p)' BY <1>6, <2>5 DEF Shares
  <2> QED BY <1>4, <1>8, <2>1, <2>2, <2>6
<1> QED BY <1>9, <1>10

\* The run ends, or the process is killed, or the main thread sweeps.
LEMMA MainRestStep ==
  ASSUME PipeInv, StoreInv, NEW p \in Processes, Fail(p) \/ Kill(p) \/ Sweeps(Main[p])
  PROVE  /\ Order(p)' /\ Shares(p)' /\ Aside(p)
         /\ phase[p] # "absent" /\ phase'[p] \notin {"absent", "done"}
<1>1. Main[p] \in Threads BY Staff
<1>2. CASE Fail(p)
  <2>1. /\ UNCHANGED <<pc, call, todo>> /\ phase[p] = "running" /\ phase'[p] = "stopped"
        /\ Quiet(p) /\ \A q \in Processes \ {p} : phase'[q] = phase[q]
    BY <1>2 DEF Fail, To, Quiet, vars, PipeInv, PipeTypes
  <2>2. Quiet(p)' BY <2>1 DEF Quiet
  <2>3. Order(p)' BY <2>1, <2>2 DEF Order, PipeInv
  <2>4. Aside(p) BY <2>1 DEF Aside
  <2> QED BY <2>1, <2>2, <2>3, <2>4, QuietShares
<1>3. CASE Sweeps(Main[p])
  <2>1. UNCHANGED <<pc, call, todo, phase>> /\ pc[Main[p]] = "swept"
    BY <1>3 DEF Sweeps, Sweep, local
  <2>2. Quiet(p) /\ phase[p] \notin {"absent", "done"} BY <2>1 DEF PipeInv, Order
  <2>3. Quiet(p)' BY <2>1, <2>2 DEF Quiet
  <2>4. Order(p)' BY <2>1, <2>3 DEF Order, PipeInv
  <2>5. Aside(p) BY <2>1 DEF Aside
  <2> QED BY <2>1, <2>2, <2>3, <2>4, <2>5, QuietShares
<1>4. CASE Kill(p)
  <2>1. /\ phase[p] # "absent" /\ phase'[p] = "stopped" /\ todo'[p] = {}
        /\ \A q \in Processes \ {p} : phase'[q] = phase[q] /\ todo'[q] = todo[q]
    BY <1>4 DEF Kill, To, PipeInv, PipeTypes
  <2>2. \A t \in Threads : IF ProcessOf[t] = p THEN pc'[t] = "idle" /\ call'[t] = "open"
                                              ELSE pc'[t] = pc[t] /\ call'[t] = call[t]
    BY <1>4 DEF Kill, Crash, Dies
  <2>3. /\ pc'[Main[p]] = "idle" /\ call'[Main[p]] = "open"
        /\ \A t \in Pool(p) : pc'[t] = "idle"
    BY <2>2, Staff
  <2>4. Quiet(p)' BY <2>1, <2>3 DEF Quiet
  <2>5. Order(p)' BY <2>3, <2>4 DEF Order
  <2>6. Aside(p) BY <2>1, <2>2 DEF Aside
  <2> QED BY <2>1, <2>4, <2>5, <2>6, QuietShares
<1> QED BY <1>2, <1>3, <1>4

LEMMA PipeStep ==
  ASSUME PipeInv, StoreInv, [PNext]_pvars
  PROVE  PipeInv'
<1>1. PipeTypes' BY PipeTypesStep DEF PipeInv
<1>2. manifest \subseteq manifest'
  <2>1. [Next]_vars BY PipelineStep DEF PipeInv
  <2>2. ASSUME NEW t \in Threads, Step(t) PROVE manifest \subseteq manifest'
    BY <2>2 DEF Step, Open, Begin, Finalize, Enter, Opened, Begun, BeginRaises, Abort,
       FinalizeRaises, PersistOutcome, BindReceipt, RenameShard, PublishManifest,
       UnlinkClaim, Sweep, EnterRaises, WriteRaises, Release, durable
  <2> QED BY <2>1, <2>2 DEF Next, Crash, durable, vars
<1>3. ASSUME NEW p \in Processes, MainStep(p) \/ BreakMain(p) \/ Kill(p) PROVE PipeInv'
  <2>1. CASE MainEnters(p) BY <1>1, <1>2, <2>1, MainEntersStep, ProcessStep
  <2>2. CASE StoreOpened(p) \/ Submit(p) \/ Complete(p) \/ BreakMain(p)
    BY <1>1, <1>2, <2>2, MainLeavesStep, ProcessStep
  <2>3. CASE Fail(p) \/ Kill(p) \/ Sweeps(Main[p])
    BY <1>1, <1>2, <2>3, MainRestStep, ProcessStep
  <2> QED BY <1>3, <2>1, <2>2, <2>3 DEF MainStep
<1>4. ASSUME NEW p \in Processes, NEW t \in Pool(p), PoolStep(p, t) \/ Break(p, t)
      PROVE  PipeInv'
  BY <1>1, <1>2, <1>4, WorkerStep
<1>5. CASE UNCHANGED pvars
  BY <1>5 DEF pvars, vars, PipeInv, PipeTypes, Receipts, Finalized, Order, Quiet, Sole, Shares,
     Assigned
<1> QED BY <1>3, <1>4, <1>5 DEF PNext, AllDone

-----------------------------------------------------------------------------
(* The theorems.                                                              *)

LEMMA PipelineInvariant == PSpec => [](PipeInv /\ StoreInv)
<1>1. PipeInv /\ StoreInv /\ [PNext]_pvars => PipeInv' BY PipeStep
<1> QED BY <1>1, PipeInit, PipelineIsStore, StoreInvariant, PTL DEF PSpec

\* A run that returns a receipt has finalized its whole plan, each shard bound
\* to the durable outcome of its range.
THEOREM ReceiptsAreComplete == PSpec => []ReceiptIsComplete
<1>1. PipeInv /\ StoreInv => ReceiptIsComplete
  <2> SUFFICES ASSUME PipeInv, StoreInv, NEW p \in Processes, phase[p] = "done",
                      NEW r \in Ranges
               PROVE  \E e \in manifest :
                        e.range = r /\ [range |-> r, content |-> e.receipt] \in outcomes
    BY DEF ReceiptIsComplete
  <2>1. PICK e \in manifest : e.range = r BY DEF PipeInv, Receipts, Finalized
  <2>2. ShardOf(e) \in outcomes /\ e.receipt = e.content
    BY DEF StoreInv, FilesOK, DisjointAndBacked, Provenance
  <2> QED BY <2>1, <2>2 DEF ShardOf
<1> QED BY <1>1, PipelineInvariant, PTL

\* A producer alone on its root is never refused its own ranges, whatever kills
\* and errors of its earlier runs left behind.
THEOREM NeverRefusedAlone == PSpec => []SoleProducerNeverRefused
<1>1. PipeInv /\ StoreInv => SoleProducerNeverRefused
  <2> SUFFICES ASSUME PipeInv, StoreInv, NEW t \in Threads, Sole(ProcessOf[t]),
                      Swept(t, "begin") \/ Swept(t, "finalize")
               PROVE  ~ Blocked(t) /\ (Swept(t, "finalize") => ~ Refused(t))
    BY DEF SoleProducerNeverRefused, Sole, Swept
  <2>1. PICK p \in Processes : p = ProcessOf[t] BY ThreadsAssumption
  <2>2. t \in Pool(p) BY <2>1, Staff DEF PipeInv, Order, Swept
  <2>3. Assigned(p, t) BY <2>1, <2>2 DEF PipeInv, Shares, Swept
  <2>4. held[t] \in Claim BY DEF StoreInv, TypeInv, HeldOK, Swept
  <2>5. \A s \in shards : s.range # held[t].range BY <2>3 DEF Assigned, Swept
  <2>6. \A e \in manifest : ~ Overlaps(e.range, held[t].range)
    <3> SUFFICES ASSUME NEW e \in manifest, Overlaps(e.range, held[t].range) PROVE FALSE
      OBVIOUS
    <3>1. e.range \in Ranges /\ held[t].range \in Ranges
      BY <2>4 DEF StoreInv, TypeInv, TypeOK, Entry, Claim
    <3>2. e.range = held[t].range BY <3>1, PlanDisjoint
    <3>3. ShardOf(e) \in shards BY DEF StoreInv, FilesOK, DisjointAndBacked
    <3> QED BY <2>5, <3>2, <3>3 DEF ShardOf
  <2>7. \A c \in claims : Overlaps(c.range, held[t].range) => SameOwner(c, held[t])
    <3> SUFFICES ASSUME NEW c \in claims, Overlaps(c.range, held[t].range)
                 PROVE  SameOwner(c, held[t])
      OBVIOUS
    <3>1. c \in Claim BY DEF StoreInv, TypeInv, TypeOK
    <3>2. c.range = held[t].range BY <2>4, <3>1, PlanDisjoint DEF Claim
    <3>3. c.owner = held[t].owner BY <2>4, <3>1, PipelineAssumption DEF Claim
    <3> QED BY <3>2, <3>3 DEF SameOwner
  <2>8. ~ Blocked(t) BY <2>6, <2>7 DEF Blocked
  <2>9. ASSUME Swept(t, "finalize") PROVE ~ Refused(t)
    <3>1. held[t] \in claims /\ content[t] \in Contents
      BY <2>3, <2>9 DEF Assigned, Swept, StoreInv, TypeInv, HeldOK
    <3>2. \A x \in outcomes : x.content = content[t]
      BY <3>1, PipelineAssumption DEF StoreInv, TypeInv, TypeOK, Outcome
    <3>3. held[t].receipt \in {None, content[t]}
      BY <2>4, <3>1, PipelineAssumption DEF Claim, Receipt
    <3> QED BY <2>6, <3>1, <3>2, <3>3 DEF Refused
  <2> QED BY <2>8, <2>9
<1> QED BY <1>1, PipelineInvariant, PTL

\* Under the pipeline no main thread and no worker is ever locked out of the
\* store by the files that another one left.
THEOREM PipelineNeverLockedOut == PSpec => []AlwaysSynchronizable
<1>1. ~ WithRelease BY PipelineAssumption
<1> QED BY <1>1, PipelineIsStore, NeverLockedOut, PTL

\* And the files it leaves implement the corpus.
THEOREM PipelineImplementsCorpus == PSpec => ImplementsCorpus
<1>1. ~ WithRelease BY PipelineAssumption
<1> QED BY <1>1, PipelineIsStore, FilesImplementCorpus
=============================================================================
