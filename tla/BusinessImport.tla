--------------------------- MODULE BusinessImport ---------------------------
(***************************************************************************)
(* The import of business rows from the retired stores: e4/importer.py and *)
(* e4/repository.py, driven chunk by chunk by scripts/e4_import.py.        *)
(*                                                                         *)
(* A bundle is a file of source entities.  Each chunk of it is one         *)
(* REPEATABLE READ transaction: it validates the whole bundle against what *)
(* its snapshot shows, locks the batch row, then records, maps and writes  *)
(* the chunk's entities, each looked up again under its lock.  The last    *)
(* chunk closes the batch.  A conflict undoes the chunk, also the status   *)
(* "blocked" it has just set; an operator starts the command again.        *)
(*                                                                         *)
(* Every row of a bundle comes from one state of the source, its digest.   *)
(* The command refuses entities whose encrypted key has no version before  *)
(* it opens the database, so the importer's quarantine is left out.        *)
(***************************************************************************)
EXTENDS Integers, Sequences, FiniteSets, Functions

CONSTANTS
  SourceOrder,   \* the source keys in the order of _ordered_entity_keys.sort_key
  Parents,       \* the required references of each
  Media,         \* source keys of media
  Digests,       \* states of the source
  Batches,
  Bundles,       \* the bundles an operator may prepare for a batch
  Operators,     \* processes of the command
  ChunkSize,
  MaxFaults,     \* bound: crashes, deadlocks and lost connections
  None, Edited, Deleted   \* no row yet; a row the application has changed, or deleted, since

Keys == Range(SourceOrder)

ASSUME ImportAssumption ==
  /\ SourceOrder \in Seq(Keys) /\ Parents \in [Keys -> SUBSET Keys]
  /\ Bundles \subseteq [entities : SUBSET Keys, media : SUBSET Media, known : SUBSET Keys,
                        targets : SUBSET Keys, digest : Digests]
  /\ \A bundle \in Bundles :
       IsFiniteSet(bundle.entities) /\ (bundle.entities # {} \/ bundle.media # {})
  /\ ChunkSize \in Nat \ {0} /\ MaxFaults \in Nat
  /\ {None, Edited, Deleted} \cap Digests = {} /\ Cardinality({None, Edited, Deleted}) = 3

VARIABLES
  bundles,   \* the bundle of each batch
  batches,   \* e4_migration_batches: status
  entities,  \* e4_migration_entities: keys imported under a batch
  mappings,  \* migration_maps: the digest a key was mapped with
  rows,      \* the business rows, by the key they came from
  media,     \* media_assets
  runs,      \* the command of an operator
  faults

vars == <<bundles, batches, entities, mappings, rows, media, runs, faults>>
tables == <<batches, entities, mappings, rows, media>>

NoRun == [pc |-> "idle", batch |-> None, resume |-> FALSE, todo |-> <<>>, seen |-> {}]
Asset == [source : Media, content : Digests]

TypeOK ==
  /\ bundles \in [Batches -> Bundles]
  /\ batches \in [Batches -> {"absent", "importing", "imported"}]
  /\ entities \in [Batches -> SUBSET Keys]
  /\ mappings \in [Keys -> Digests \cup {None}]
  /\ rows \in [Keys -> Digests \cup {None, Edited, Deleted}]
  /\ media \subseteq Asset
  /\ runs \in [Operators -> [pc : {"idle", "open", "validated"}, batch : Batches \cup {None},
                             resume : BOOLEAN, todo : Seq(Keys), seen : SUBSET Keys]]
  /\ faults \in 0..MaxFaults
  /\ \A b \in Batches : batches[b] = "absent" => entities[b] = {}
  /\ \A a, c \in media : a.source = c.source => a = c

Init ==
  /\ bundles \in [Batches -> Bundles]
  /\ batches = [b \in Batches |-> "absent"]
  /\ entities = [b \in Batches |-> {}]
  /\ mappings = [k \in Keys |-> None]
  /\ rows = [k \in Keys |-> None]
  /\ media = {}
  /\ runs = [o \in Operators |-> NoRun]
  /\ faults = 0
-----------------------------------------------------------------------------
(* A bundle and what the database says of it                                 *)

Place(k) == CHOOSE i \in DOMAIN SourceOrder : SourceOrder[i] = k

\* The keys in a sequence that agrees with an order, a set of pairs.
Arranged(chosen, before) ==
  {todo \in [1..Cardinality(chosen) -> chosen] :
     \A j \in DOMAIN todo : \A i \in 1..(j - 1) : <<todo[i], todo[j]>> \in before}

(* Fault: entities go in the order of their keys. *)
OrderedByKey(chosen) ==
  Arranged(chosen, {pair \in chosen \X chosen : Place(pair[1]) < Place(pair[2])})

\* The keys that are placed after n rounds: each in the one after its last reference.
Placed(chosen) ==
  LET placed[n \in 0..Cardinality(chosen)] ==
        IF n = 0 THEN {} ELSE {k \in chosen : Parents[k] \cap chosen \subseteq placed[n - 1]}
  IN placed

\* Dependencies first, round by round, those on a cycle behind all others.
Ordered(chosen) ==
  LET placed       == Placed(chosen)
      Round(k)     == Cardinality({n \in DOMAIN placed : k \notin placed[n]})
      Before(j, k) == Round(j) < Round(k) \/ (Round(j) = Round(k) /\ Place(j) < Place(k))
  IN Arranged(chosen, {pair \in chosen \X chosen : Before(pair[1], pair[2])})

Orders ==
  UNION {{[of |-> bundle.entities, todo |-> todo] : todo \in Ordered(bundle.entities)}
           : bundle \in Bundles}

\* No bundle has entities that refer to each other in a circle: of any of them,
\* one refers to none of the others.
NoCycles ==
  \A bundle \in Bundles : \A part \in SUBSET bundle.entities :
    part # {} => \E k \in part : Parents[k] \cap part = {}

\* Every bundle has an order, and it has all of the bundle, references first.
OrdersAreSound ==
  /\ \A bundle \in Bundles : \E order \in Orders : order.of = bundle.entities
  /\ \A order \in Orders :
       /\ Range(order.todo) = order.of
       /\ \A j \in DOMAIN order.todo : \A p \in Parents[order.todo[j]] \cap order.of :
            \E i \in 1..(j - 1) : order.todo[i] = p

Live(k) == rows[k] \notin {None, Deleted}

\* What a transaction reads of a key before it holds any lock.
TargetExists(k) == Live(k) \/ \E b \in Batches : k \in entities[b]

\* _base_decisions: a digest that changed, a target that nobody mapped.
Conflicting(k, digest) ==
  \/ mappings[k] \notin {None, digest}
  \/ mappings[k] = None /\ TargetExists(k)

\* _merge_facts: a mapping the bundle lists stands in for one that was not read.
Resolvable(bundle) == bundle.entities \cup bundle.known

\* _reconcile_references: a reference is in the bundle or among those mappings.
Orphaned(k, bundle) == ~(Parents[k] \subseteq Resolvable(bundle))

\* _merge_facts: a bundle that lists existing targets must list those there are
\* of its own entities, every time it is validated; one that lists none is not asked.
Disagrees(bundle) ==
  bundle.targets # {} /\ bundle.targets # {k \in bundle.entities : TargetExists(k)}

Blocked(bundle) ==
  \/ Disagrees(bundle)
  \/ \E k \in bundle.entities : Conflicting(k, bundle.digest) \/ Orphaned(k, bundle)
-----------------------------------------------------------------------------
(* One chunk                                                                 *)

Bundle(o) == bundles[runs[o].batch]
LastChunk(o) == Len(runs[o].todo) <= ChunkSize
Chunk(o) == SubSeq(runs[o].todo, 1, IF LastChunk(o) THEN Len(runs[o].todo) ELSE ChunkSize)
FirstChunk(o) == Len(runs[o].todo) = Cardinality(Bundle(o).entities)

\* The entities the chunk still has to import; without --resume none may be done.
Outstanding(o) == Range(Chunk(o)) \ entities[runs[o].batch]
Resumable(o) == runs[o].resume \/ Outstanding(o) = Range(Chunk(o))

\* map_entity under the lock: replayed with the same facts, or new.
Mappable(k, digest) == mappings[k] \in {None, digest}

\* _write_business_row: the row is there as the source has it, or is inserted,
\* when the foreign keys allow it; what the batch has imported is not written again.
Writable(i, o) ==
  LET k == Chunk(o)[i] IN
  /\ rows[k] \in {None, Deleted, Bundle(o).digest}
  /\ \A p \in Parents[k] :
       Live(p) \/ \E j \in 1..(i - 1) : Chunk(o)[j] = p /\ p \in Outstanding(o)

\* record_media_asset: replayed under its key or, with the same content, another's.
MediaAccepted(bundle) ==
  \A a \in media : a.source \in bundle.media => a.content = bundle.digest
MediaStored(bundle) ==
  IF bundle.media = {} \/ \E a \in media : a.content = bundle.digest THEN media
  ELSE media \cup {[source |-> CHOOSE m \in bundle.media : TRUE, content |-> bundle.digest]}

\* _assert_batch_complete reads the snapshot and what the transaction added itself.
Complete(o) == runs[o].seen \cup Outstanding(o) = Bundle(o).entities

Importable(o) ==
  LET bundle == Bundle(o) IN
  /\ Resumable(o)
  /\ \A i \in DOMAIN Chunk(o) :
       Chunk(o)[i] \in Outstanding(o) => Mappable(Chunk(o)[i], bundle.digest) /\ Writable(i, o)
  /\ FirstChunk(o) => MediaAccepted(bundle)
  /\ LastChunk(o) /\ batches[runs[o].batch] # "imported" => Complete(o)
-----------------------------------------------------------------------------
(* The command                                                               *)

Start(o, b, resume) ==
  /\ runs[o].pc = "idle"
  /\ \E order \in Orders :
       /\ order.of = bundles[b].entities
       /\ runs' = [runs EXCEPT ![o] = [pc |-> "open", batch |-> b, resume |-> resume,
                                       seen |-> {}, todo |-> order.todo]]
  /\ UNCHANGED <<bundles, tables, faults>>

\* A chunk's transaction opens; its snapshot also is what the end of it goes by.
Validate(o) ==
  /\ runs[o].pc = "open"
  /\ ~Blocked(Bundle(o))
  /\ runs' = [runs EXCEPT ![o].pc = "validated",
                           ![o].seen = entities[runs[o].batch]]
  /\ UNCHANGED <<bundles, tables, faults>>

(* Fault: every chunk closes the batch, as the default of finalize says. *)
BatchClosedEachTime(o) == "imported"

\* create_batch, and the steps from planned to importing.
BatchOpened(o) ==
  LET status == batches[runs[o].batch] IN IF status = "absent" THEN "importing" ELSE status
BatchClosed(o) == IF LastChunk(o) THEN "imported" ELSE BatchOpened(o)

\* The tables after the chunk.
Filled(table, missing, o) ==
  [k \in Keys |-> IF k \in Outstanding(o) /\ table[k] \in missing THEN Bundle(o).digest ELSE table[k]]
EntitiesRecorded(o) == [entities EXCEPT ![runs[o].batch] = @ \cup Outstanding(o)]
Mapped(o) == Filled(mappings, {None}, o)
Written(o) == Filled(rows, {None, Deleted}, o)

(* Fault: the mapping is committed before the row it announces. *)
ImportChunkMapsFirst(o) ==
  /\ runs[o].pc = "validated"
  /\ Importable(o)
  /\ mappings' = Mapped(o)
  /\ runs' = [runs EXCEPT ![o].pc = "open"]
  /\ UNCHANGED <<bundles, batches, entities, rows, media, faults>>

\* import_bundle over one chunk, and the commit of the command.
ImportChunk(o) ==
  /\ runs[o].pc = "validated"
  /\ Importable(o)
  /\ batches' = [batches EXCEPT ![runs[o].batch] = BatchClosed(o)]
  /\ entities' = EntitiesRecorded(o)
  /\ mappings' = Mapped(o)
  /\ rows' = Written(o)
  /\ media' = IF FirstChunk(o) THEN MediaStored(Bundle(o)) ELSE media
  /\ runs' = [runs EXCEPT ![o] = IF LastChunk(o) THEN NoRun
                                 ELSE [runs[o] EXCEPT !.pc = "open", !.seen = {},
                                          !.todo = SubSeq(@, ChunkSize + 1, Len(@))]]
  /\ UNCHANGED <<bundles, faults>>

\* The report is blocked, or the chunk raises and is rolled back.
Refuse(o) ==
  /\ \/ runs[o].pc = "open" /\ Blocked(Bundle(o))
     \/ runs[o].pc = "validated" /\ ~Importable(o)
  /\ runs' = [runs EXCEPT ![o] = NoRun]
  /\ UNCHANGED <<bundles, tables, faults>>

\* A crash, a deadlock or a lost connection: what was not committed never was.
Fail(o) ==
  /\ runs[o].pc # "idle"
  /\ faults < MaxFaults
  /\ faults' = faults + 1
  /\ runs' = [runs EXCEPT ![o] = NoRun]
  /\ UNCHANGED <<bundles, tables>>

\* The application, which is served from the target already, changes a row.
Edit(k) ==
  /\ rows[k] \in Digests
  /\ rows' = [rows EXCEPT ![k] = Edited]
  /\ UNCHANGED <<bundles, batches, entities, mappings, media, runs, faults>>

\* It deletes a row, behind all that refer to it: the foreign keys restrict.
Delete(k) ==
  /\ Live(k) /\ \A j \in Keys : k \in Parents[j] => ~Live(j)
  /\ rows' = [rows EXCEPT ![k] = Deleted]
  /\ UNCHANGED <<bundles, batches, entities, mappings, media, runs, faults>>

RunStep(o) == Validate(o) \/ ImportChunk(o) \/ Refuse(o)

Next ==
  \/ \E o \in Operators :
       \/ RunStep(o) \/ Fail(o)
       \/ \E b \in Batches, resume \in BOOLEAN : Start(o, b, resume)
  \/ \E k \in Keys : Edit(k) \/ Delete(k)

Spec == Init /\ [][Next]_vars

\* The command does not stop by itself, and somebody starts it again with
\* --resume until the batch is closed.
Fairness ==
  /\ \A o \in Operators : WF_vars(RunStep(o))
  /\ \A b \in Batches : SF_vars(\E o \in Operators : Start(o, b, TRUE))

FairSpec == Spec /\ Fairness
-----------------------------------------------------------------------------
\* A batch that is called imported is: every entity of its bundle was imported
\* under it, is mapped with the digest the bundle gives and got its row, and the
\* bytes of its media are stored, whichever of several commands, chunks and
\* restarts brought them in.
FinalizedIsComplete ==
  \A b \in Batches : batches[b] = "imported" =>
    /\ entities[b] = bundles[b].entities
    /\ \A k \in entities[b] : mappings[k] = bundles[b].digest /\ rows[k] # None
    /\ bundles[b].media # {} => \E a \in media : a.content = bundles[b].digest

\* A mapping and its row come into being together, a row is what its mapping
\* says until the application changes or deletes it, and no row is there without
\* what it refers to.
MappedIsWritten ==
  \A k \in Keys :
    /\ rows[k] \in {mappings[k], Edited, Deleted}
    /\ rows[k] \in {Edited, Deleted} => mappings[k] # None
    /\ Live(k) => \A p \in Parents[k] : Live(p)

\* Nothing stands in the way of a batch but time: no other state of the source
\* was imported over it, the application did not change what it still has to
\* write nor delete what that refers to, and its bundle does not list targets,
\* which its own first chunk may make untrue.
Clean(b) ==
  LET bundle == bundles[b] IN
  /\ bundle.targets = {}
  /\ MediaAccepted(bundle)
  /\ \A k \in bundle.entities : mappings[k] \in {None, bundle.digest} /\ ~Orphaned(k, bundle)
  /\ \A k \in bundle.entities \ entities[b] :
       /\ rows[k] \in {None, Deleted, bundle.digest}
       /\ \A p \in Parents[k] : Live(p) \/ p \in bundle.entities \ entities[b]

\* However its runs were cut short, a batch of a bundle that lists no targets is
\* closed by starting the command again, if in the end only what earlier runs
\* left is in its way: that never locks it out.
ResumeConverges ==
  \A b \in Batches : <>[]Clean(b) => <>(batches[b] = "imported")

\* What a chunk commits never locks out a batch of the same state of the source,
\* its own or an overlapping one, unless its bundle lists targets: what the chunk
\* maps and stores is what they would.
ChunksLockNobodyOut ==
  [][\A o \in Operators, b \in Batches :
       ImportChunk(o) /\ Bundle(o).digest = bundles[b].digest /\ Clean(b)
         => Clean(b)' /\ ~Blocked(bundles[b])']_vars

\* A command that resumes a batch nothing stands in the way of, and whose
\* snapshot nobody has overtaken, is not blocked and gets its chunk in, wherever
\* earlier runs were cut short: the rows it refers to are there, and the last
\* chunk finds the batch complete.
ResumedIsAccepted ==
  \A o \in Operators :
    runs[o].pc # "idle" /\ runs[o].resume /\ Clean(runs[o].batch) =>
      /\ ~Blocked(Bundle(o))
      /\ runs[o].pc = "validated" /\ runs[o].seen = entities[runs[o].batch] => Importable(o)
=============================================================================
