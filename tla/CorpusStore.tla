----------------------------- MODULE CorpusStore ----------------------------
(***************************************************************************)
(* corpus_shards.CorpusStore and its CorpusShardWriter, driven the way     *)
(* corpus_pipeline._generate_shard drives them: several threads of several *)
(* processes share one corpus root.  The root holds                        *)
(*   manifest.json   the finalized shards,                                 *)
(*   shards/         immutable shard files, put there by rename,           *)
(*   claims/         one file per claimed attempt range,                   *)
(*   outcomes/       one receipt per range, written before the shard.      *)
(* Every file is replaced atomically, so the unit of a step is one durable *)
(* write, and a thread can stop between any two of them: its process is    *)
(* killed (Crash) or the write raises (WriteRaises).  The store lock is    *)
(* held across the writes of one call and is dropped by the kernel when    *)
(* its holder dies.  The corpus identity, the hashes and the record format *)
(* are abstracted: a root serves one identity, and a content stands for    *)
(* the bytes of a shard and for every digest of them.                      *)
(***************************************************************************)
EXTENDS Naturals, FiniteSets

CONSTANTS Ranges,       \* attempt ranges <<start, stop>> the callers ask for
          Owners,       \* digests of the producers' owner ids
          Contents,     \* shard bytes a generator may produce for a range
          Threads,      \* threads that use the store
          Processes,    \* processes they belong to
          ProcessOf,    \* the process of each thread
          None,         \* no thread, no claim, no content, no receipt
          WithRelease   \* whether callers use release_claim / abort(release)

\* AttemptRange.__post_init__ : 0 <= start < stop.
ASSUME RangesAssumption ==
  \A r \in Ranges : r \in Nat \X Nat /\ r[1] < r[2]

ASSUME ThreadsAssumption ==
  /\ ProcessOf \in [Threads -> Processes]
  /\ None \notin Threads
  /\ None \notin Contents
  /\ WithRelease \in BOOLEAN

Overlaps(r, s) == r[1] < s[2] /\ s[1] < r[2]

VARIABLES manifest,   \* entries of manifest.json
          shards,     \* files under shards/
          claims,     \* files under claims/
          outcomes,   \* files under outcomes/
          lock,       \* the thread that holds the store lock, or None
          pc,         \* where each thread is
          call,       \* what the thread entered the lock for
          held,       \* the claim in the caller's or the writer's hands
          content     \* the bytes in the writer's temporary file

durable == <<manifest, shards, claims, outcomes>>
local   == <<pc, call, held, content>>
vars    == <<manifest, shards, claims, outcomes, lock, pc, call, held, content>>

-----------------------------------------------------------------------------
(* Data. *)

Receipt == Contents \cup {None}
Claim   == [range : Ranges, owner : Owners, receipt : Receipt]
Shard   == [range : Ranges, content : Contents]
Entry   == [range : Ranges, owner : Owners, content : Contents, receipt : Receipt]
Outcome == [range : Ranges, content : Contents]

\* Threads that hold the lock are at one of these points.
Locked == {"swept", "outcome", "bound", "renamed", "published"}

TypeOK ==
  /\ manifest \subseteq Entry
  /\ shards   \subseteq Shard
  /\ claims   \subseteq Claim
  /\ outcomes \subseteq Outcome
  /\ lock \in Threads \cup {None}
  /\ pc \in [Threads -> {"idle", "writing"} \cup Locked]
  /\ call \in [Threads -> {"open", "begin", "finalize"}]
  /\ held \in [Threads -> Claim \cup {None}]
  /\ content \in [Threads -> Receipt]

-----------------------------------------------------------------------------
(* _synchronize_locked. *)

ShardOf(e) == [range |-> e.range, content |-> e.content]

Orphans == shards \ {ShardOf(e) : e \in manifest}

Matching(s) == {c \in claims : c.range = s.range}

\* Mutants: recovery forgets the claim's owner, or its receipt.
RecoveredAnonymous(s, c) ==
  [range |-> s.range, owner |-> None, content |-> s.content, receipt |-> c.receipt]
RecoveredUnbound(s, c) ==
  [range |-> s.range, owner |-> c.owner, content |-> s.content, receipt |-> None]

\* The entry a scan of the orphan gives with the owner and receipt of claim c.
Recovered(s, c) ==
  [range |-> s.range, owner |-> c.owner, content |-> s.content, receipt |-> c.receipt]

Adopted == UNION {{Recovered(s, c) : c \in Matching(s)} : s \in Orphans}

NonOverlapping(S) == \A a, b \in S : a # b => ~ Overlaps(a.range, b.range)

\* Everything that makes _load_manifest_locked, _claims_locked or the scan of
\* the orphans raise.
Synchronizable ==
  /\ NonOverlapping(claims)
  /\ \A s \in Orphans : Cardinality(Matching(s)) = 1
  /\ NonOverlapping(manifest \cup Adopted)

\* Claims whose range and owner are finalized.
Completed == {c \in claims : \E e \in manifest : e.range = c.range /\ e.owner = c.owner}

Go(t, l) == pc' = [pc EXCEPT ![t] = l]

\* The thread is between calls and has no writer open.
Drop(t) ==
  /\ Go(t, "idle")
  /\ call' = [call EXCEPT ![t] = "open"]
  /\ held' = [held EXCEPT ![t] = None]
  /\ content' = [content EXCEPT ![t] = None]

\* Mutant: recovery publishes a manifest of the adopted shards alone.
EnterForgetting(t, op) ==
  /\ lock = None
  /\ Synchronizable
  /\ manifest' = IF Orphans = {} THEN manifest ELSE Adopted
  /\ lock' = t
  /\ call' = [call EXCEPT ![t] = op]
  /\ Go(t, "swept")
  /\ UNCHANGED <<shards, claims, outcomes>>

\* A call takes the lock, checks the store and publishes the adopted orphans:
\* one manifest write if there are any.
Enter(t, op) ==
  /\ lock = None
  /\ Synchronizable
  /\ manifest' = manifest \cup Adopted
  /\ lock' = t
  /\ call' = [call EXCEPT ![t] = op]
  /\ Go(t, "swept")
  /\ UNCHANGED <<shards, claims, outcomes>>

\* The same call on a store that fails the checks raises: nothing durable
\* changes, and a writer that was finalizing is dropped.
EnterRaises(t) ==
  /\ pc[t] = "writing"
  /\ lock = None
  /\ ~ Synchronizable
  /\ Drop(t)
  /\ UNCHANGED <<durable, lock>>

\* The sweep unlinks the completed claims one by one.
Sweep(t) ==
  /\ pc[t] = "swept"
  /\ \E c \in Completed : claims' = claims \ {c}
  /\ UNCHANGED <<manifest, shards, outcomes, lock, local>>

Swept(t, op) == pc[t] = "swept" /\ Completed = {} /\ call[t] = op

\* The call returns or raises: the lock is released, the writer is dropped.
Leave(t) == lock' = None /\ Drop(t)

-----------------------------------------------------------------------------
(* Opening the store, reading its manifest, verifying it. *)

Open(t) ==
  /\ pc[t] = "idle"
  /\ Enter(t, "open")
  /\ UNCHANGED <<held, content>>

Opened(t) == Swept(t, "open") /\ Leave(t) /\ UNCHANGED durable

-----------------------------------------------------------------------------
(* begin_shard. *)

Begin(t, r, o) ==
  /\ pc[t] = "idle"
  /\ Enter(t, "begin")
  /\ held' = [held EXCEPT ![t] = [range |-> r, owner |-> o, receipt |-> None]]
  /\ UNCHANGED content

\* Mutant: only an identical claim file is taken over.
SameOwnerAndReceipt(c, d) == c = d

\* _RangeClaim.has_same_owner ignores the receipt.
SameOwner(c, d) == c.range = d.range /\ c.owner = d.owner

Blocked(t) ==
  \/ \E e \in manifest : Overlaps(e.range, held[t].range)
  \/ \E c \in claims : Overlaps(c.range, held[t].range) /\ ~ SameOwner(c, held[t])

\* A claim of the same range and owner is taken over as it is, receipt included.
Begun(t) ==
  LET own == {c \in claims : SameOwner(c, held[t])}
  IN  /\ Swept(t, "begin")
      /\ ~ Blocked(t)
      /\ \/ /\ own = {}
            /\ claims' = claims \cup {held[t]}
            /\ UNCHANGED held
         \/ \E c \in own : held' = [held EXCEPT ![t] = c] /\ UNCHANGED claims
      /\ lock' = None
      /\ Go(t, "writing")
      /\ UNCHANGED <<manifest, shards, outcomes, call, content>>

BeginRaises(t) ==
  Swept(t, "begin") /\ Blocked(t) /\ Leave(t) /\ UNCHANGED durable

\* The generator raises while the writer is open: _generate_shard aborts it,
\* which deletes the temporary file and leaves the claim.
Abort(t) == pc[t] = "writing" /\ Drop(t) /\ UNCHANGED <<durable, lock>>

-----------------------------------------------------------------------------
(* finalize. *)

Finalize(t, k) ==
  /\ pc[t] = "writing"
  /\ Enter(t, "finalize")
  /\ content' = [content EXCEPT ![t] = k]
  /\ UNCHANGED held

\* Mutant: finalize does not look at the claim file.
RefusedUnclaimed(t) ==
  \/ \E e \in manifest : Overlaps(e.range, held[t].range)
  \/ \E x \in outcomes : x.range = held[t].range /\ x.content # content[t]
  \/ held[t].receipt \notin {None, content[t]}

\* The claim file is no longer exactly the writer's, the range is taken, or
\* the durable outcome or the claim's receipt is of other content.
Refused(t) ==
  \/ held[t] \notin claims
  \/ \E e \in manifest : Overlaps(e.range, held[t].range)
  \/ \E x \in outcomes : x.range = held[t].range /\ x.content # content[t]
  \/ held[t].receipt \notin {None, content[t]}

FinalizeRaises(t) ==
  Swept(t, "finalize") /\ Refused(t) /\ Leave(t) /\ UNCHANGED durable

Made(t) == [range |-> held[t].range, content |-> content[t]]

\* Mutant: the outcome is left for after the publication.
PersistOutcomeLater(t) ==
  /\ Swept(t, "finalize")
  /\ ~ Refused(t)
  /\ Go(t, "outcome")
  /\ UNCHANGED <<durable, lock, call, held, content>>

\* before_publish: the outcome is durable before anything names the shard.
PersistOutcome(t) ==
  /\ Swept(t, "finalize")
  /\ ~ Refused(t)
  /\ outcomes' = outcomes \cup {Made(t)}
  /\ Go(t, "outcome")
  /\ UNCHANGED <<manifest, shards, claims, lock, call, held, content>>

\* The claim file is rewritten with the receipt's digest.
BoundClaim(t) == [range |-> held[t].range, owner |-> held[t].owner, receipt |-> content[t]]

BindReceipt(t) ==
  /\ pc[t] = "outcome"
  /\ claims' = (claims \ {held[t]}) \cup {BoundClaim(t)}
  /\ held' = [held EXCEPT ![t] = BoundClaim(t)]
  /\ Go(t, "bound")
  /\ UNCHANGED <<manifest, shards, outcomes, lock, call, content>>

\* Mutants: the manifest is written, or the claim unlinked, before the rename.
RenameAfterManifest(t) ==
  /\ pc[t] = "bound"
  /\ manifest' = manifest \cup {Recovered(Made(t), held[t])}
  /\ Go(t, "renamed")
  /\ UNCHANGED <<shards, claims, outcomes, lock, call, held, content>>
RenameUnclaimed(t) ==
  /\ pc[t] = "bound"
  /\ shards' = shards \cup {Made(t)}
  /\ claims' = claims \ {held[t]}
  /\ Go(t, "renamed")
  /\ UNCHANGED <<manifest, outcomes, lock, call, held, content>>

RenameShard(t) ==
  /\ pc[t] = "bound"
  /\ shards' = shards \cup {Made(t)}
  /\ Go(t, "renamed")
  /\ UNCHANGED <<manifest, claims, outcomes, lock, call, held, content>>

PublishManifest(t) ==
  /\ pc[t] = "renamed"
  /\ manifest' = manifest \cup {Recovered(Made(t), held[t])}
  /\ Go(t, "published")
  /\ UNCHANGED <<shards, claims, outcomes, lock, call, held, content>>

UnlinkClaim(t) ==
  /\ pc[t] = "published"
  /\ claims' = claims \ {held[t]}
  /\ Leave(t)
  /\ UNCHANGED <<manifest, shards, outcomes>>

-----------------------------------------------------------------------------
(* Failures and release_claim. *)

\* A write or a scan inside the lock raises: the lock is released on the way
\* out, what is already durable stays.
WriteRaises(t) == pc[t] \in Locked /\ Leave(t) /\ UNCHANGED durable

Dies(p) == {t \in Threads : ProcessOf[t] = p}

Crash(p) ==
  /\ \E t \in Dies(p) : pc[t] # "idle"
  /\ pc' = [t \in Threads |-> IF t \in Dies(p) THEN "idle" ELSE pc[t]]
  /\ call' = [t \in Threads |-> IF t \in Dies(p) THEN "open" ELSE call[t]]
  /\ held' = [t \in Threads |-> IF t \in Dies(p) THEN None ELSE held[t]]
  /\ content' = [t \in Threads |-> IF t \in Dies(p) THEN None ELSE content[t]]
  /\ lock' = IF lock \in Dies(p) THEN None ELSE lock
  /\ UNCHANGED durable

\* release_claim, and abort(release_claim=True): takes the lock but does not
\* synchronize, and unlinks the claim of this range and owner if there is one.
Release(t, r, o) ==
  /\ WithRelease
  /\ pc[t] = "idle"
  /\ lock = None
  /\ \E c \in claims : c.range = r /\ c.owner = o /\ claims' = claims \ {c}
  /\ UNCHANGED <<manifest, shards, outcomes, lock, local>>

-----------------------------------------------------------------------------
Init ==
  /\ manifest = {} /\ shards = {} /\ claims = {} /\ outcomes = {}
  /\ lock = None
  /\ pc = [t \in Threads |-> "idle"]
  /\ call = [t \in Threads |-> "open"]
  /\ held = [t \in Threads |-> None]
  /\ content = [t \in Threads |-> None]

Step(t) ==
  \/ Open(t) \/ Opened(t)
  \/ \E r \in Ranges, o \in Owners : Begin(t, r, o)
  \/ Begun(t) \/ BeginRaises(t) \/ Abort(t)
  \/ \E k \in Contents : Finalize(t, k)
  \/ FinalizeRaises(t) \/ PersistOutcome(t) \/ BindReceipt(t)
  \/ RenameShard(t) \/ PublishManifest(t) \/ UnlinkClaim(t)
  \/ Sweep(t) \/ EnterRaises(t) \/ WriteRaises(t)
  \/ \E r \in Ranges, o \in Owners : Release(t, r, o)

Next == (\E t \in Threads : Step(t)) \/ (\E p \in Processes : Crash(p))

Spec == Init /\ [][Next]_vars
-----------------------------------------------------------------------------
(* Properties. *)

\* Whatever instant a process dies or a write raises, the next caller can still
\* enter the store: claims stay disjoint, and every shard file that is not yet in
\* the manifest has exactly one claim to be adopted with
\* (corpus_shards.py:689-692, 844-890).
AlwaysSynchronizable == Synchronizable

\* No two shard files, listed in the manifest or still to be adopted, cover a
\* common attempt, and every manifest entry has its file: a record is never
\* counted twice nor lost (corpus_shards.py:619-643, 1052-1069).
DisjointAndBacked ==
  /\ NonOverlapping(shards)
  /\ NonOverlapping(manifest)
  /\ \A e \in manifest : ShardOf(e) \in shards

\* The outcome receipt of a shard is durable before the shard exists, whichever
\* of rename, recovery or a retry by another process put it there, and the
\* manifest entry carries the receipt of that very content
\* (corpus_pipeline.py:776-781, verify_binding 651-689).
Provenance ==
  /\ \A x, y \in outcomes : x.range = y.range => x = y
  /\ \A s \in shards : s \in outcomes
  /\ \A e \in manifest : e.receipt = e.content

\* The corpus only grows: no step drops or rewrites an entry, a shard file or an
\* outcome, so a reader that scans the files of an older manifest outside the
\* lock still finds them all (corpus_shards.py:1052-1095).
AppendOnly == [][/\ manifest \subseteq manifest'
                 /\ shards \subseteq shards'
                 /\ outcomes \subseteq outcomes']_vars

\* Only an undisputed claim turns into a shard: a file appears only for a range
\* that exactly one claim touches at that instant, the one bound to that content,
\* so a writer whose claim was released and whose attempts were claimed anew
\* never publishes (corpus_shards.py:974-976).
OnlyClaimed ==
  [][\A s \in shards' \ shards :
       \E c \in claims :
         /\ c.range = s.range /\ c.receipt = s.content
         /\ \A d \in claims : Overlaps(d.range, s.range) => d = c]_vars

\* The files implement the abstract corpus: a shard is final from its rename
\* on, with the owner and the receipt that recovery would give it.
Abstract == INSTANCE Corpus WITH
  final    <- manifest \cup Adopted,
  reserved <- {<<c.range, c.owner>> : c \in {d \in claims :
                 \A s \in shards : s.range # d.range}},
  promised <- {<<x.range, x.content>> : x \in outcomes}

ImplementsCorpus == Abstract!Spec
=============================================================================
