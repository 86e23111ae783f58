------------------------- MODULE BusinessImportProofs -------------------------
(***************************************************************************)
(* What BusinessImport guarantees for any bundles, commands, chunks and    *)
(* interruptions.                                                          *)
(***************************************************************************)
EXTENDS BusinessImport, SequenceTheorems, FiniteSetTheorems, TLAPS

(* A mapping of an imported key says what the batch's bundle says.          *)
ImportedIsMapped ==
  \A b \in Batches : \A k \in entities[b] : mappings[k] = bundles[b].digest

(* The bytes of a bundle's media are there once anything of it is.          *)
MediaThere(b) ==
  bundles[b].media # {} => \E a \in media : a.content = bundles[b].digest

MediaComeFirst == \A b \in Batches : entities[b] # {} => MediaThere(b)

OfBundle == \A b \in Batches : entities[b] \subseteq bundles[b].entities

(* A command works on what is left of its bundle; what it has seen done was *)
(* done, and behind its first chunk the media are there.                    *)
Works(o) ==
  /\ runs[o].batch \in Batches
  /\ runs[o].todo \in Seq(Bundle(o).entities)
  /\ runs[o].seen \subseteq entities[runs[o].batch]
  /\ FirstChunk(o) \/ MediaThere(runs[o].batch)

CommandsWork == \A o \in Operators : runs[o].pc # "idle" => Works(o)

IInv ==
  /\ TypeOK
  /\ OfBundle /\ ImportedIsMapped /\ MappedIsWritten
  /\ MediaComeFirst /\ CommandsWork /\ FinalizedIsComplete
-----------------------------------------------------------------------------
(* No row yet, a changed row and a deleted one are three things.             *)
LEMMA Fates == None # Edited /\ None # Deleted /\ Edited # Deleted
<1>1. Cardinality({None, Edited, Deleted}) = 3  BY ImportAssumption
<1>2. ASSUME NEW x, NEW y, {None, Edited, Deleted} = {x, y} PROVE FALSE
  <2>1. IsFiniteSet({x}) /\ Cardinality({x}) = 1  BY FS_Singleton
  <2>2. IsFiniteSet({x} \cup {y}) /\ Cardinality({x} \cup {y}) = IF y \in {x} THEN 1 ELSE 2
    BY <2>1, FS_AddElement
  <2>3. {x} \cup {y} = {x, y}  OBVIOUS
  <2>. QED  BY <1>1, <1>2, <2>2, <2>3
<1>3. None = Edited => {None, Edited, Deleted} = {None, Deleted}  OBVIOUS
<1>4. None = Deleted => {None, Edited, Deleted} = {None, Edited}  OBVIOUS
<1>5. Edited = Deleted => {None, Edited, Deleted} = {None, Edited}  OBVIOUS
<1>. QED  BY <1>2, <1>3, <1>4, <1>5

LEMMA BundleFields ==
  ASSUME TypeOK, NEW b \in Batches
  PROVE  /\ bundles[b] \in Bundles
         /\ bundles[b].entities \in SUBSET Keys
         /\ IsFiniteSet(bundles[b].entities)
         /\ bundles[b].media \in SUBSET Media
         /\ bundles[b].digest \in Digests
         /\ bundles[b].digest # None /\ bundles[b].digest # Edited /\ bundles[b].digest # Deleted
BY ImportAssumption DEF TypeOK

LEMMA RunFields ==
  ASSUME TypeOK, NEW o \in Operators, NEW pc, NEW todo, NEW seen
  PROVE  LET run == [runs[o] EXCEPT !.pc = pc, !.seen = seen, !.todo = todo]
         IN  run.pc = pc /\ run.batch = runs[o].batch /\ run.todo = todo /\ run.seen = seen
BY DEF TypeOK

LEMMA InitInv == Init => IInv
<1>. SUFFICES ASSUME Init PROVE IInv  OBVIOUS
<1>1. TypeOK
  BY ImportAssumption DEF Init, TypeOK, NoRun, Keys
<1>2. OfBundle /\ ImportedIsMapped /\ MediaComeFirst /\ CommandsWork /\ FinalizedIsComplete
  BY DEF Init, OfBundle, ImportedIsMapped, MediaComeFirst, CommandsWork, FinalizedIsComplete, NoRun
<1>3. MappedIsWritten
  BY Fates, ImportAssumption DEF Init, MappedIsWritten, Live
<1>. QED  BY <1>1, <1>2, <1>3 DEF IInv

(* A command that stops, or only reads, changes no table.                   *)
LEMMA TablesStand ==
  ASSUME IInv, UNCHANGED <<bundles, tables>>, faults' \in 0..MaxFaults,
         NEW o \in Operators,
         NEW next \in [pc : {"idle", "open", "validated"}, batch : Batches \cup {None},
                       resume : BOOLEAN, todo : Seq(Keys), seen : SUBSET Keys],
         runs' = [runs EXCEPT ![o] = next],
         next.pc # "idle" => Works(o)'
  PROVE  IInv'
<1>1. TypeOK'  BY DEF IInv, TypeOK, tables
<1>2. OfBundle' /\ ImportedIsMapped' /\ MappedIsWritten' /\ MediaComeFirst' /\ FinalizedIsComplete'
  BY DEF IInv, OfBundle, ImportedIsMapped, MappedIsWritten, Live, MediaComeFirst, MediaThere,
         FinalizedIsComplete, tables
<1>3. CommandsWork'
  <2>. SUFFICES ASSUME NEW p \in Operators, runs'[p].pc # "idle" PROVE Works(p)'
    BY DEF CommandsWork
  <2>1. CASE p = o  BY <2>1 DEF IInv, TypeOK
  <2>2. CASE p # o
    <3>1. runs'[p] = runs[p]  BY <2>2 DEF IInv, TypeOK
    <3>. QED  BY <3>1 DEF IInv, CommandsWork, Works, Bundle, FirstChunk, MediaThere, tables
  <2>. QED  BY <2>1, <2>2
<1>. QED  BY <1>1, <1>2, <1>3 DEF IInv

LEMMA NoRunType ==
  /\ NoRun \in [pc : {"idle", "open", "validated"}, batch : Batches \cup {None},
                resume : BOOLEAN, todo : Seq(Keys), seen : SUBSET Keys]
  /\ NoRun.pc = "idle"
BY DEF NoRun

LEMMA RefuseKeeps ==
  ASSUME IInv, NEW o \in Operators, Refuse(o) \/ Fail(o)
  PROVE  IInv'
<1>1. runs' = [runs EXCEPT ![o] = NoRun] /\ UNCHANGED <<bundles, tables>>
  BY DEF Refuse, Fail
<1>2. faults' \in 0..MaxFaults
  BY ImportAssumption DEF Refuse, Fail, IInv, TypeOK
<1>. QED  BY <1>1, <1>2, NoRunType, TablesStand

(* An order of a bundle has all of its entities and no other.               *)
LEMMA OrderOfBundle ==
  ASSUME TypeOK, NEW b \in Batches, NEW order \in Orders, order.of = bundles[b].entities
  PROVE  /\ order.todo \in Seq(bundles[b].entities) /\ order.todo \in Seq(Keys)
         /\ Len(order.todo) = Cardinality(bundles[b].entities)
<1>. DEFINE E == bundles[b].entities
            todo == order.todo
<1>1. todo \in Ordered(E)  BY DEF Orders
<1>2. todo \in [1..Cardinality(E) -> E]  BY <1>1 DEF Ordered, Arranged
<1>3. Cardinality(E) \in Nat  BY BundleFields, FS_CardinalityType
<1>4. E \subseteq Keys  BY BundleFields
<1>. HIDE DEF E, todo
<1>5. todo \in Seq(E)  BY <1>2, <1>3
<1>6. todo \in Seq(Keys) /\ Len(todo) = Cardinality(E)  BY <1>2, <1>3, <1>4
<1>. QED  BY <1>5, <1>6 DEF E, todo

LEMMA StartKeeps ==
  ASSUME IInv, NEW o \in Operators, NEW b \in Batches, NEW resume \in BOOLEAN,
         Start(o, b, resume)
  PROVE  IInv'
<1>1. PICK order \in Orders :
         /\ order.of = bundles[b].entities
         /\ runs' = [runs EXCEPT ![o] = [pc |-> "open", batch |-> b, resume |-> resume,
                                         seen |-> {}, todo |-> order.todo]]
  BY DEF Start
<1>. DEFINE next == [pc |-> "open", batch |-> b, resume |-> resume,
                     seen |-> {}, todo |-> order.todo]
<1>2. /\ order.todo \in Seq(bundles[b].entities) /\ order.todo \in Seq(Keys)
      /\ Len(order.todo) = Cardinality(bundles[b].entities)
  BY <1>1, OrderOfBundle DEF IInv
<1>3. next \in [pc : {"idle", "open", "validated"}, batch : Batches \cup {None},
                resume : BOOLEAN, todo : Seq(Keys), seen : SUBSET Keys]
  BY <1>2
<1>4. runs'[o] = next  BY <1>1 DEF IInv, TypeOK
<1>5. bundles' = bundles /\ UNCHANGED tables /\ faults' = faults  BY DEF Start
<1>6. Works(o)'
  BY <1>2, <1>4, <1>5 DEF Works, Bundle, FirstChunk
<1>7. faults' \in 0..MaxFaults  BY <1>5 DEF IInv, TypeOK
<1>. QED  BY <1>1, <1>3, <1>5, <1>6, <1>7, TablesStand

LEMMA ValidateKeeps ==
  ASSUME IInv, NEW o \in Operators, Validate(o)
  PROVE  IInv'
<1>. DEFINE next == [runs[o] EXCEPT !.pc = "validated", !.seen = entities[runs[o].batch]]
<1>1. Works(o)  BY DEF Validate, IInv, CommandsWork
<1>2. next \in [pc : {"idle", "open", "validated"}, batch : Batches \cup {None},
                resume : BOOLEAN, todo : Seq(Keys), seen : SUBSET Keys]
  <2>1. entities[runs[o].batch] \in SUBSET Keys  BY <1>1 DEF Works, IInv, TypeOK
  <2>2. runs[o] \in [pc : {"idle", "open", "validated"}, batch : Batches \cup {None},
                     resume : BOOLEAN, todo : Seq(Keys), seen : SUBSET Keys]
    BY DEF IInv, TypeOK
  <2>. QED  BY <2>1, <2>2
<1>3. /\ next.batch = runs[o].batch /\ next.todo = runs[o].todo
      /\ next.seen = entities[runs[o].batch]
  BY DEF IInv, TypeOK
<1>4. /\ runs' = [runs EXCEPT ![o] = next] /\ UNCHANGED <<bundles, tables>>
      /\ faults' = faults
  BY DEF Validate
<1>. HIDE DEF next
<1>5. runs'[o] = next  BY <1>4 DEF IInv, TypeOK
<1>6. Works(o)'
  BY <1>1, <1>3, <1>4, <1>5 DEF Works, Bundle, FirstChunk, MediaThere, tables
<1>7. faults' \in 0..MaxFaults  BY <1>4 DEF IInv, TypeOK
<1>. QED  BY <1>2, <1>4, <1>6, <1>7, TablesStand

(* The application changes a row, or deletes it when nothing refers to it.   *)
LEMMA EditKeeps ==
  ASSUME IInv, NEW k \in Keys, Edit(k) \/ Delete(k)
  PROVE  IInv'
<1>1. /\ rows' = [rows EXCEPT ![k] = rows'[k]]
      /\ rows'[k] \in {Edited, Deleted} /\ Live(k)
      /\ rows'[k] = Deleted => \A j \in Keys : k \in Parents[j] => ~Live(j)
      /\ UNCHANGED <<bundles, batches, entities, mappings, media, runs, faults>>
  BY Fates, ImportAssumption DEF Edit, Delete, Live, IInv, TypeOK
<1>2. mappings[k] # None
  BY <1>1 DEF Live, IInv, MappedIsWritten
<1>3. \A j \in Keys : j # k => rows'[j] = rows[j] /\ (Live(j)' <=> Live(j))
  BY <1>1 DEF Live, IInv, TypeOK
<1>4. rows'[k] # None /\ (Live(k)' => rows'[k] = Edited)
  BY <1>1, Fates DEF Live
<1>5. \A j \in Keys : rows[j] # None => rows'[j] # None  BY <1>3, <1>4
<1>6. TypeOK'  BY <1>1 DEF IInv, TypeOK
<1>7. MappedIsWritten'
  <2>. SUFFICES ASSUME NEW j \in Keys
                PROVE  /\ rows'[j] \in {mappings'[j], Edited, Deleted}
                       /\ rows'[j] \in {Edited, Deleted} => mappings'[j] # None
                       /\ Live(j)' => \A p \in Parents[j] : Live(p)'
    BY <1>1 DEF MappedIsWritten, Live
  <2>1. /\ rows'[j] \in {mappings'[j], Edited, Deleted}
        /\ rows'[j] \in {Edited, Deleted} => mappings'[j] # None
    BY <1>1, <1>2, <1>3 DEF IInv, MappedIsWritten
  <2>2. ASSUME Live(j)', NEW p \in Parents[j] PROVE Live(p)'
    <3>1. p \in Keys  BY ImportAssumption
    <3>2. Live(j)  BY <1>1, <1>3, <2>2
    <3>3. Live(p)  BY <3>2 DEF IInv, MappedIsWritten
    <3>4. CASE p # k  BY <1>3, <3>1, <3>3, <3>4
    <3>5. CASE p = k  BY <1>1, <3>2, <3>5, Fates DEF Live
    <3>. QED  BY <3>4, <3>5
  <2>. QED  BY <2>1, <2>2
<1>8. OfBundle' /\ ImportedIsMapped' /\ MediaComeFirst'
  BY <1>1 DEF IInv, OfBundle, ImportedIsMapped, MediaComeFirst, MediaThere
<1>9. CommandsWork'
  BY <1>1 DEF IInv, CommandsWork, Works, Bundle, FirstChunk, MediaThere
<1>10. FinalizedIsComplete'
  <2>1. \A b \in Batches : entities[b] \in SUBSET Keys  BY DEF IInv, TypeOK
  <2>. QED  BY <1>1, <1>5, <2>1 DEF IInv, FinalizedIsComplete
<1>. QED  BY <1>6, <1>7, <1>8, <1>9, <1>10 DEF IInv
-----------------------------------------------------------------------------
(* One chunk.                                                                *)

LEMMA PartOfSequence ==
  ASSUME NEW S, NEW s \in Seq(S), NEW m \in Nat \ {0}, NEW n \in Nat, n <= Len(s)
  PROVE  SubSeq(s, m, n) \in Seq(S)
<1>1. Len(s) \in Nat /\ m \in Int /\ n \in Int  BY LenProperties
<1>2. \A i \in m..n : i \in 1..Len(s)  BY <1>1
<1>3. \A i \in m..n : s[i] \in S  BY <1>2, ElementOfSeq
<1>. QED  BY <1>1, <1>3, SubSeqProperties

(* The entities of a chunk are of the bundle.                                *)
LEMMA ChunkOfBundle ==
  ASSUME TypeOK, NEW o \in Operators, Works(o)
  PROVE  /\ Chunk(o) \in Seq(Bundle(o).entities)
         /\ Outstanding(o) \subseteq Bundle(o).entities
         /\ Outstanding(o) \subseteq Keys
         /\ \A k \in Outstanding(o) : \E i \in DOMAIN Chunk(o) : Chunk(o)[i] = k
         /\ SubSeq(runs[o].todo, ChunkSize + 1, Len(runs[o].todo)) \in Seq(Bundle(o).entities)
<1>. DEFINE todo == runs[o].todo
            E == Bundle(o).entities
            last == IF LastChunk(o) THEN Len(todo) ELSE ChunkSize
<1>1. todo \in Seq(E) /\ runs[o].batch \in Batches  BY DEF Works
<1>2. Len(todo) \in Nat /\ \A i \in 1..Len(todo) : todo[i] \in E
  BY <1>1, LenProperties, ElementOfSeq
<1>3. ChunkSize \in Nat  BY ImportAssumption
<1>4. last \in Nat /\ last <= Len(todo)  BY <1>2, <1>3 DEF LastChunk
<1>5. Chunk(o) \in Seq(E)
  <2>. HIDE DEF todo, E, last
  <2>1. SubSeq(todo, 1, last) \in Seq(E)  BY <1>1, <1>4, PartOfSequence
  <2>. QED  BY <2>1 DEF Chunk, todo, last
<1>6. SubSeq(todo, ChunkSize + 1, Len(todo)) \in Seq(E)
  <2>. HIDE DEF todo, E
  <2>1. ChunkSize + 1 \in Nat \ {0}  BY <1>3
  <2>. QED  BY <1>1, <1>2, <2>1, PartOfSequence
<1>7. \A k \in Outstanding(o) : \E i \in DOMAIN Chunk(o) : Chunk(o)[i] = k
  BY DEF Outstanding, Range
<1>8. Outstanding(o) \subseteq E
  <2>1. \A i \in DOMAIN Chunk(o) : Chunk(o)[i] \in E
    BY <1>5, LenProperties, ElementOfSeq
  <2>. QED  BY <1>7, <2>1
<1>9. E \subseteq Keys  BY <1>1, BundleFields DEF Bundle
<1>. QED  BY <1>5, <1>6, <1>7, <1>8, <1>9

(* What a chunk may import is unmapped or mapped as its bundle says, its row *)
(* is missing or the bundle's, and what it refers to is there or in the chunk. *)
LEMMA ChunkFits ==
  ASSUME IInv, NEW o \in Operators, Works(o), Importable(o), NEW k \in Outstanding(o)
  PROVE  /\ mappings[k] \in {None, Bundle(o).digest}
         /\ rows[k] \in {None, Deleted, Bundle(o).digest}
         /\ \A p \in Parents[k] : Live(p) \/ p \in Outstanding(o)
<1>1. PICK i \in DOMAIN Chunk(o) : Chunk(o)[i] = k  BY ChunkOfBundle DEF IInv
<1>2. Mappable(k, Bundle(o).digest) /\ Writable(i, o)  BY <1>1 DEF Importable
<1>. QED  BY <1>1, <1>2 DEF Mappable, Writable

(* Committing a chunk.                                                      *)
LEMMA ImportChunkKeeps ==
  ASSUME IInv, NEW o \in Operators, ImportChunk(o)
  PROVE  IInv'
<1>. DEFINE b == runs[o].batch
            d == Bundle(o).digest
            done == Outstanding(o)
            E == Bundle(o).entities
<1>1. Works(o) /\ Importable(o)
  BY DEF ImportChunk, IInv, CommandsWork
<1>2. /\ b \in Batches /\ done \subseteq E /\ done \subseteq Keys /\ E = bundles[b].entities
      /\ d = bundles[b].digest /\ d \in Digests /\ d # None /\ d # Edited /\ d # Deleted
  BY <1>1, ChunkOfBundle, BundleFields DEF IInv, Works, Bundle
<1>3. \A k \in done : /\ mappings[k] \in {None, d} /\ rows[k] \in {None, Deleted, d}
                     /\ \A p \in Parents[k] : Live(p) \/ p \in done
  BY <1>1, ChunkFits
<1>4. /\ batches' = [batches EXCEPT ![b] = BatchClosed(o)]
      /\ entities' = [entities EXCEPT ![b] = @ \cup done]
      /\ mappings' = [k \in Keys |-> IF k \in done /\ mappings[k] \in {None} THEN d ELSE mappings[k]]
      /\ rows' = [k \in Keys |-> IF k \in done /\ rows[k] \in {None, Deleted} THEN d ELSE rows[k]]
      /\ media' = IF FirstChunk(o) THEN MediaStored(Bundle(o)) ELSE media
      /\ bundles' = bundles /\ faults' = faults
  BY DEF ImportChunk, EntitiesRecorded, Mapped, Written, Filled
<1>5. done = Range(Chunk(o)) \ entities[b]  BY DEF Outstanding
<1>6. /\ runs' = [runs EXCEPT ![o] = runs'[o]]
      /\ runs'[o] = IF LastChunk(o) THEN NoRun
                    ELSE [runs[o] EXCEPT !.pc = "open", !.seen = {},
                            !.todo = SubSeq(runs[o].todo, ChunkSize + 1, Len(runs[o].todo))]
  BY DEF ImportChunk, IInv, TypeOK
<1>7. FirstChunk(o) => MediaAccepted(Bundle(o))  BY <1>1 DEF Importable
<1>8. LastChunk(o) /\ batches[b] # "imported" => runs[o].seen \cup done = E
  BY <1>1 DEF Importable, Complete
<1>9. runs[o].seen \subseteq entities[b]  BY <1>1 DEF Works
<1>10. BatchClosed(o) \in {"importing", "imported"}
  BY <1>2 DEF BatchClosed, BatchOpened, IInv, TypeOK
<1>11. BatchClosed(o) = "imported" => LastChunk(o) \/ batches[b] = "imported"
  BY DEF BatchClosed, BatchOpened
<1>12. Bundle(o) = bundles[b]  BY DEF Bundle
<1>. HIDE DEF b, d, done, E
\* The rows that are there stay, those of the chunk come to it.
<1>13. /\ \A k \in Keys : Live(k) => rows'[k] = rows[k]
       /\ \A k \in Keys : mappings[k] # None => mappings'[k] = mappings[k]
       /\ \A k \in done : mappings'[k] = d /\ rows'[k] = d
       /\ \A k \in Keys \ done : mappings'[k] = mappings[k] /\ rows'[k] = rows[k]
       /\ \A k \in Keys : Live(k) \/ k \in done => Live(k)'
  BY <1>2, <1>3, <1>4 DEF Live
<1>14. /\ entities'[b] = entities[b] \cup done
       /\ \A c \in Batches : c # b => entities'[c] = entities[c] /\ batches'[c] = batches[c]
       /\ batches'[b] = BatchClosed(o)
  BY <1>2, <1>4 DEF IInv, TypeOK
<1>16. media \subseteq media'
  BY <1>4 DEF MediaStored
<1>17. /\ media' \subseteq Asset
       /\ \A a, c \in media' : a.source = c.source => a = c
       /\ bundles[b].media # {} => \E a \in media' : a.content = d
  <2>. DEFINE B == bundles[b]
              new == [source |-> CHOOSE m \in B.media : TRUE, content |-> d]
  <2>1. /\ media \subseteq Asset
        /\ \A a, c \in media : a.source = c.source => a = c
    BY DEF IInv, TypeOK
  <2>2. CASE ~FirstChunk(o)
    <3>1. MediaThere(b)  BY <1>1, <2>2 DEF Works, b
    <3>. QED  BY <1>2, <1>4, <2>1, <2>2, <3>1 DEF MediaThere
  <2>3. CASE FirstChunk(o)
    <3>1. \A a \in media : a.source \in B.media => a.content = d
      BY <1>2, <1>7, <1>12, <2>3 DEF MediaAccepted
    <3>2. media' = IF B.media = {} \/ \E a \in media : a.content = d THEN media
                   ELSE media \cup {new}
      BY <1>2, <1>4, <1>12, <2>3 DEF MediaStored
    <3>3. CASE B.media = {} \/ \E a \in media : a.content = d
      BY <2>1, <3>2, <3>3
    <3>4. CASE ~(B.media = {} \/ \E a \in media : a.content = d)
      <4>1. media' = media \cup {new}  BY <3>2, <3>4
      <4>2. new.source \in B.media /\ new.content = d  BY <3>4
      <4>3. B.media \subseteq Media  BY <1>2, BundleFields DEF IInv
      <4>4. new \in Asset  BY <1>2, <4>2, <4>3 DEF Asset
      <4>5. \A a \in media : a.source # new.source  BY <3>1, <3>4, <4>2
      <4>. HIDE DEF new
      <4>. QED  BY <2>1, <4>1, <4>2, <4>4, <4>5
    <3>. QED  BY <3>3, <3>4
  <2>. QED  BY <2>2, <2>3
<1>18. TypeOK'
  <2>1. batches' \in [Batches -> {"absent", "importing", "imported"}]
    BY <1>4, <1>10 DEF IInv, TypeOK
  <2>2. entities' \in [Batches -> SUBSET Keys]  BY <1>2, <1>4 DEF IInv, TypeOK
  <2>3. mappings' \in [Keys -> Digests \cup {None}]  BY <1>2, <1>4 DEF IInv, TypeOK
  <2>4. rows' \in [Keys -> Digests \cup {None, Edited, Deleted}]  BY <1>2, <1>4 DEF IInv, TypeOK
  <2>5. \A c \in Batches : batches'[c] = "absent" => entities'[c] = {}
    BY <1>10, <1>14 DEF IInv, TypeOK
  <2>6. runs'[o] \in [pc : {"idle", "open", "validated"}, batch : Batches \cup {None},
                      resume : BOOLEAN, todo : Seq(Keys), seen : SUBSET Keys]
    <3>. DEFINE rest == SubSeq(runs[o].todo, ChunkSize + 1, Len(runs[o].todo))
    <3>1. rest \in Seq(Keys)
      <4>1. rest \in Seq(E)  BY <1>1, ChunkOfBundle DEF IInv, E
      <4>2. E \subseteq Keys  BY <1>2, BundleFields DEF IInv
      <4>. QED  BY <4>1, <4>2, SeqMonotonic
    <3>2. runs[o] \in [pc : {"idle", "open", "validated"}, batch : Batches \cup {None},
                       resume : BOOLEAN, todo : Seq(Keys), seen : SUBSET Keys]
      BY DEF IInv, TypeOK
    <3>3. runs'[o] = IF LastChunk(o) THEN NoRun
                     ELSE [runs[o] EXCEPT !.pc = "open", !.seen = {}, !.todo = rest]
      BY <1>6
    <3>. HIDE DEF rest
    <3>. QED  BY <3>1, <3>2, <3>3, NoRunType
  <2>. QED  BY <1>4, <1>6, <1>17, <2>1, <2>2, <2>3, <2>4, <2>5, <2>6 DEF IInv, TypeOK
<1>19. OfBundle'
  BY <1>2, <1>4, <1>14 DEF IInv, OfBundle
<1>20. ImportedIsMapped'
  <2>. SUFFICES ASSUME NEW c \in Batches, NEW k \in entities'[c]
                PROVE  mappings'[k] = bundles[c].digest
    BY <1>4 DEF ImportedIsMapped
  <2>1. CASE k \in entities[c]
    <3>1. k \in Keys /\ mappings[k] = bundles[c].digest
      BY <2>1 DEF IInv, TypeOK, ImportedIsMapped
    <3>2. bundles[c].digest # None  BY BundleFields DEF IInv
    <3>. QED  BY <1>13, <3>1, <3>2
  <2>2. CASE k \notin entities[c]
    <3>1. c = b /\ k \in done  BY <1>14, <2>2
    <3>. QED  BY <1>2, <1>13, <3>1
  <2>. QED  BY <2>1, <2>2
<1>21. MappedIsWritten'
  <2>. SUFFICES ASSUME NEW k \in Keys
                PROVE  /\ rows'[k] \in {mappings'[k], Edited, Deleted}
                       /\ rows'[k] \in {Edited, Deleted} => mappings'[k] # None
                       /\ Live(k)' => \A p \in Parents[k] : Live(p)'
    BY DEF MappedIsWritten, Live
  <2>1. Parents[k] \in SUBSET Keys  BY ImportAssumption
  <2>2. CASE k \in done
    <3>1. mappings'[k] = d /\ rows'[k] = d  BY <1>13, <2>2
    <3>2. \A p \in Parents[k] : Live(p)'  BY <1>3, <1>13, <2>1, <2>2
    <3>. QED  BY <1>2, <3>1, <3>2
  <2>3. CASE k \notin done
    <3>1. mappings'[k] = mappings[k] /\ rows'[k] = rows[k]  BY <1>13, <2>3
    <3>2. Live(k)' <=> Live(k)  BY <3>1 DEF Live
    <3>. QED  BY <1>13, <2>1, <3>1, <3>2 DEF IInv, MappedIsWritten
  <2>. QED  BY <2>2, <2>3
<1>22. \A c \in Batches : MediaThere(c) => MediaThere(c)'
  BY <1>4, <1>16 DEF MediaThere
<1>23. \A c \in Batches : c = b => MediaThere(c)'
  BY <1>2, <1>4, <1>17 DEF MediaThere
<1>24. MediaComeFirst'
  <2>. SUFFICES ASSUME NEW c \in Batches, entities'[c] # {} PROVE MediaThere(c)'
    BY DEF MediaComeFirst
  <2>1. CASE c = b  BY <1>23, <2>1
  <2>2. CASE c # b
    <3>1. MediaThere(c)  BY <1>14, <2>2 DEF IInv, MediaComeFirst
    <3>. QED  BY <1>22, <3>1
  <2>. QED  BY <2>1, <2>2
<1>25. FinalizedIsComplete'
  <2>. SUFFICES ASSUME NEW c \in Batches, batches'[c] = "imported"
                PROVE  /\ entities'[c] = bundles[c].entities
                       /\ \A k \in entities'[c] :
                             mappings'[k] = bundles[c].digest /\ rows'[k] # None
                       /\ bundles[c].media # {} => \E a \in media' : a.content = bundles[c].digest
    BY <1>4 DEF FinalizedIsComplete
  <2>1. entities'[c] = bundles[c].entities
    <3>1. CASE batches[c] = "imported"
      <4>1. entities[c] = bundles[c].entities  BY <3>1 DEF IInv, FinalizedIsComplete
      <4>. QED  BY <1>2, <1>14, <4>1
    <3>2. CASE batches[c] # "imported"
      <4>1. c = b  BY <1>14, <3>2
      <4>2. runs[o].seen \cup done = E
        BY <1>8, <1>11, <1>14, <3>2, <4>1
      <4>3. entities'[b] \subseteq E  BY <1>2, <1>4, <1>19 DEF OfBundle
      <4>. QED  BY <1>2, <1>9, <1>14, <4>1, <4>2, <4>3
    <3>. QED  BY <3>1, <3>2
  <2>2. \A k \in entities'[c] : mappings'[k] = bundles[c].digest
    BY <1>4, <1>20 DEF ImportedIsMapped
  <2>3. bundles[c].digest # None  BY BundleFields DEF IInv
  <2>4. \A k \in entities'[c] : k \in Keys  BY <1>18 DEF TypeOK
  <2>5. \A k \in entities'[c] : rows'[k] # None
    BY <2>2, <2>3, <2>4, <1>21, Fates DEF MappedIsWritten
  <2>7. MediaThere(c)'
    <3>1. CASE c = b  BY <1>23, <3>1
    <3>2. CASE c # b
      <4>1. MediaThere(c)  BY <1>14, <3>2 DEF IInv, FinalizedIsComplete, MediaThere
      <4>. QED  BY <1>22, <4>1
    <3>. QED  BY <3>1, <3>2
  <2>. QED  BY <1>4, <2>1, <2>2, <2>5, <2>7 DEF MediaThere
<1>26. CommandsWork'
  <2>. SUFFICES ASSUME NEW p \in Operators, runs'[p].pc # "idle" PROVE Works(p)'
    BY DEF CommandsWork
  <2>1. CASE p = o
    <3>. DEFINE rest == SubSeq(runs[o].todo, ChunkSize + 1, Len(runs[o].todo))
    <3>1. runs'[o] = [runs[o] EXCEPT !.pc = "open", !.seen = {}, !.todo = rest]
      BY <1>6, <2>1, NoRunType
    <3>3. rest \in Seq(E)  BY <1>1, ChunkOfBundle DEF IInv, E
    <3>. HIDE DEF rest
    <3>2. runs'[o].batch = b /\ runs'[o].todo = rest /\ runs'[o].seen = {}
      BY <3>1, RunFields DEF IInv, b
    <3>4. PICK c \in Batches : c = b  BY <1>2
    <3>5. bundles[c].media # {} => \E a \in media' : a.content = bundles[c].digest
      BY <1>4, <1>23, <3>4 DEF MediaThere
    <3>6. runs'[p].batch = c /\ runs'[p].todo \in Seq(bundles'[c].entities)
      BY <1>2, <1>4, <2>1, <3>2, <3>3, <3>4
    <3>. QED  BY <1>4, <2>1, <3>2, <3>5, <3>6 DEF Works, Bundle, MediaThere
  <2>2. CASE p # o
    <3>1. runs'[p] = runs[p]  BY <1>6, <2>2 DEF IInv, TypeOK
    <3>2. Works(p)  BY <3>1 DEF IInv, CommandsWork
    <3>3. PICK c \in Batches : c = runs[p].batch  BY <3>2 DEF Works
    <3>4. entities[c] \subseteq entities'[c]  BY <1>14
    <3>5. FirstChunk(p)' <=> FirstChunk(p)
      BY <1>4, <3>1 DEF FirstChunk, Bundle
    <3>6. MediaThere(c) => /\ bundles[c].media # {} => \E a \in media' : a.content = bundles[c].digest
      BY <1>4, <1>22 DEF MediaThere
    <3>7. FirstChunk(p) \/ MediaThere(c)
      BY <3>2, <3>3 DEF Works, MediaThere
    <3>8. /\ runs'[p].batch = c /\ runs'[p].todo \in Seq(bundles'[c].entities)
          /\ runs'[p].seen \subseteq entities'[c]
      BY <1>4, <3>1, <3>2, <3>3, <3>4 DEF Works, Bundle
    <3>. QED  BY <1>4, <3>5, <3>6, <3>7, <3>8 DEF Works, Bundle, MediaThere
  <2>. QED  BY <2>1, <2>2
<1>. QED  BY <1>18, <1>19, <1>20, <1>21, <1>24, <1>25, <1>26 DEF IInv
-----------------------------------------------------------------------------
LEMMA NextInv == IInv /\ [Next]_vars => IInv'
<1>. SUFFICES ASSUME IInv, [Next]_vars PROVE IInv'  OBVIOUS
<1>1. CASE UNCHANGED vars
  <2>1. /\ UNCHANGED <<bundles, batches, entities, mappings, rows, media>>
        /\ UNCHANGED <<runs, faults>>
    BY <1>1 DEF vars
  <2>2. TypeOK'  BY <2>1 DEF IInv, TypeOK
  <2>3. OfBundle' /\ ImportedIsMapped' /\ MappedIsWritten' /\ MediaComeFirst' /\ FinalizedIsComplete'
    BY <2>1 DEF IInv, OfBundle, ImportedIsMapped, MappedIsWritten, Live, MediaComeFirst, MediaThere,
                FinalizedIsComplete
  <2>4. CommandsWork'
    BY <2>1 DEF IInv, CommandsWork, Works, Bundle, FirstChunk, MediaThere
  <2>. QED  BY <2>2, <2>3, <2>4 DEF IInv
<1>2. ASSUME NEW o \in Operators, RunStep(o) \/ Fail(o) PROVE IInv'
  BY <1>2, ValidateKeeps, ImportChunkKeeps, RefuseKeeps DEF RunStep
<1>3. ASSUME NEW o \in Operators, NEW b \in Batches, NEW resume \in BOOLEAN,
             Start(o, b, resume)
      PROVE  IInv'
  BY <1>3, StartKeeps
<1>4. ASSUME NEW k \in Keys, Edit(k) \/ Delete(k) PROVE IInv'
  BY <1>4, EditKeeps
<1>. QED  BY <1>1, <1>2, <1>3, <1>4 DEF Next

LEMMA Invariant == Spec => []IInv
<1>. QED  BY InitInv, NextInv, PTL DEF Spec

(* A batch is never under an identity it was not created with, an entity    *)
(* belongs to a batch that was opened, and a source of media has one asset, *)
(* whatever commands overlap.                                               *)
THEOREM TypeCorrect == Spec => []TypeOK
<1>1. IInv => TypeOK  BY DEF IInv
<1>. QED  BY <1>1, Invariant, PTL

(* A batch that is called imported is complete: its last chunk has seen or  *)
(* written every entity of the bundle, however many commands, restarts,     *)
(* edits and deletions of the rows came between (_assert_batch_complete).   *)
THEOREM FinalizedIsCompleteHolds == Spec => []FinalizedIsComplete
<1>1. IInv => FinalizedIsComplete  BY DEF IInv
<1>. QED  BY <1>1, Invariant, PTL

(* Mapping and row come into being together, and behind the rows they refer *)
(* to (map_entity and _write_business_row in one transaction).              *)
THEOREM MappedIsWrittenHolds == Spec => []MappedIsWritten
<1>1. IInv => MappedIsWritten  BY DEF IInv
<1>. QED  BY <1>1, Invariant, PTL
-----------------------------------------------------------------------------
(* The order of a bundle.                                                    *)

LEMMA UpTo ==
  ASSUME NEW n \in Nat
  PROVE  IsFiniteSet(1..n) /\ Cardinality(1..n) = n
<1>1. 1 \in Int /\ n \in Int  OBVIOUS
<1>2. IsFiniteSet(1..n) /\ Cardinality(1..n) = IF 1 > n THEN 0 ELSE n - 1 + 1
  BY <1>1, FS_Interval, Zenon
<1>3. (IF 1 > n THEN 0 ELSE n - 1 + 1) = n  OBVIOUS
<1>. QED  BY <1>2, <1>3

(* Induction is by the least number, and that there is one follows from the  *)
(* finite subsets of the naturals being well-founded.                        *)
LEMMA LeastNumber ==
  ASSUME NEW T \in SUBSET Nat, T # {}
  PROVE  \E n \in T : \A m \in T : n <= m
<1>. DEFINE below == {0..(n - 1) : n \in T}
<1>1. \A n \in Nat : IsFiniteSet(0..(n - 1)) /\ 0..(n - 1) \in SUBSET Nat
  BY FS_Interval
<1>2. below \subseteq FiniteSubsetsOf(Nat) /\ below # {}  BY <1>1 DEF FiniteSubsetsOf
<1>. HIDE DEF below
<1>3. PICK x \in below : \A y \in below : ~(<<y, x>> \in StrictSubsetOrdering(Nat))
  BY <1>2, FS_StrictSubsetOrderingWellFounded, WFMin
<1>. USE DEF below
<1>4. PICK n \in T : x = 0..(n - 1)  BY <1>3
<1>5. ASSUME NEW m \in T, m < n PROVE FALSE
  <2>1. 0..(m - 1) \subseteq 0..(n - 1) /\ 0..(m - 1) \in below  BY <1>5
  <2>2. m \in 0..(n - 1) /\ m \notin 0..(m - 1)  BY <1>5
  <2>3. <<0..(m - 1), x>> \in StrictSubsetOrdering(Nat)
    BY <1>1, <1>4, <2>1, <2>2 DEF StrictSubsetOrdering
  <2>. QED  BY <1>3, <2>1, <2>3
<1>. QED  BY <1>5

(* What holds of 0, and of a number if of the one before, holds up to N.     *)
LEMMA StepByStep ==
  ASSUME NEW N \in Nat, NEW T, 0 \in T, \A n \in 1..N : n - 1 \in T => n \in T
  PROVE  0..N \subseteq T
<1>. DEFINE others == (0..N) \ T
<1>. SUFFICES ASSUME others # {} PROVE FALSE  OBVIOUS
<1>1. others \in SUBSET Nat  OBVIOUS
<1>. HIDE DEF others
<1>2. PICK n \in others : \A m \in others : n <= m  BY <1>1, LeastNumber
<1>3. n \in 0..N /\ n \notin T  BY DEF others
<1>4. n # 0 /\ n \in 1..N /\ n - 1 \in 0..N  BY <1>3
<1>5. n - 1 \notin others  BY <1>2, <1>3
<1>. QED  BY <1>3, <1>4, <1>5 DEF others

(* The keys whose references within S are all in D.                          *)
Free(S, D) == {k \in S : Parents[k] \cap S \subseteq D}

Rounds(f, S, m) == f = [n \in 0..m |-> IF n = 0 THEN {} ELSE Free(S, f[n - 1])]

LEMMA PlacedExists ==
  ASSUME NEW S, NEW N \in Nat
  PROVE  \E f : Rounds(f, S, N)
<1>. DEFINE T == {m \in Nat : \E f : Rounds(f, S, m)}
<1>1. 0 \in T
  <2>1. Rounds([n \in 0..0 |-> {}], S, 0)  BY DEF Rounds
  <2>. QED  BY <2>1
<1>2. ASSUME NEW m \in 1..N, m - 1 \in T PROVE m \in T
  <2>1. PICK g : Rounds(g, S, m - 1)  BY <1>2
  <2>. DEFINE f == [n \in 0..m |-> IF n = 0 THEN {} ELSE Free(S, g[n - 1])]
  <2>2. ASSUME NEW n \in 0..m, n # 0 PROVE f[n - 1] = g[n - 1]
    <3>1. n - 1 \in 0..m /\ n - 1 \in 0..(m - 1)  BY <2>2
    <3>2. g[n - 1] = IF n - 1 = 0 THEN {} ELSE Free(S, g[n - 1 - 1])
      BY <2>1, <3>1 DEF Rounds
    <3>3. f[n - 1] = IF n - 1 = 0 THEN {} ELSE Free(S, g[n - 1 - 1])  BY <3>1
    <3>. QED  BY <3>2, <3>3
  <2>3. Rounds(f, S, m)  BY <2>2 DEF Rounds
  <2>. QED  BY <2>3
<1>. HIDE DEF T
<1>3. 0..N \subseteq T  BY <1>1, <1>2, StepByStep
<1>. QED  BY <1>3 DEF T

LEMMA PlacedRounds ==
  ASSUME NEW S, IsFiniteSet(S)
  PROVE  /\ Cardinality(S) \in Nat /\ DOMAIN Placed(S) = 0..Cardinality(S)
         /\ Placed(S)[0] = {}
         /\ \A n \in 1..Cardinality(S) : Placed(S)[n] = Free(S, Placed(S)[n - 1])
<1>1. Cardinality(S) \in Nat  BY FS_CardinalityType
<1>2. \E f : Rounds(f, S, Cardinality(S))  BY <1>1, PlacedExists
<1>3. Rounds(Placed(S), S, Cardinality(S))  BY <1>2 DEF Rounds, Placed, Free
<1>. QED  BY <1>1, <1>3 DEF Rounds

(* What is placed stays placed.                                              *)
LEMMA RoundsGrow ==
  ASSUME NEW S, IsFiniteSet(S), NEW n \in 1..Cardinality(S)
  PROVE  Placed(S)[n - 1] \subseteq Placed(S)[n]
<1>. DEFINE N == Cardinality(S)
            P == Placed(S)
            T == {0} \cup {m \in 1..N : P[m - 1] \subseteq P[m]}
<1>1. N \in Nat /\ P[0] = {} /\ \A m \in 1..N : P[m] = Free(S, P[m - 1])
  BY PlacedRounds
<1>2. n \in 1..N  OBVIOUS
<1>. HIDE DEF N, P
<1>3. ASSUME NEW m \in 1..N, m - 1 \in T PROVE m \in T
  <2>1. CASE m = 1  BY <1>1, <2>1
  <2>2. CASE m # 1
    <3>1. m - 1 \in 1..N /\ P[m - 1 - 1] \subseteq P[m - 1]  BY <1>1, <1>3, <2>2
    <3>2. P[m] = Free(S, P[m - 1]) /\ P[m - 1] = Free(S, P[m - 1 - 1])  BY <1>1, <3>1
    <3>. QED  BY <3>1, <3>2 DEF Free
  <2>. QED  BY <2>1, <2>2
<1>4. 0 \in T  OBVIOUS
<1>. HIDE DEF T
<1>5. 0..N \subseteq T  BY <1>1, <1>3, <1>4, StepByStep
<1>6. n \in T /\ n # 0  BY <1>1, <1>2, <1>5
<1>. QED  BY <1>2, <1>6 DEF T, P

(* Of what is not placed something is free, so that after as many rounds as  *)
(* there are keys all of them are placed.                                    *)
LEMMA AllArePlaced ==
  ASSUME NoCycles, NEW bundle \in Bundles, NEW S, S = bundle.entities
  PROVE  Placed(S)[Cardinality(S)] = S
<1>. DEFINE N == Cardinality(S)
            P == Placed(S)
            T == {n \in 0..N : P[n] \subseteq S /\ Cardinality(P[n]) >= n}
<1>0. IsFiniteSet(S)  BY ImportAssumption
<1>1. /\ N \in Nat /\ P[0] = {}
      /\ \A n \in 1..N : P[n] = Free(S, P[n - 1])
  BY <1>0, PlacedRounds
<1>2. \A n \in 1..N : P[n - 1] \subseteq P[n]  BY <1>0, RoundsGrow
<1>. HIDE DEF P
<1>3. ASSUME NEW n \in 1..N, n - 1 \in T PROVE n \in T
  <2>. DEFINE D == P[n - 1]
  <2>1. D \subseteq S /\ Cardinality(D) >= n - 1 /\ n - 1 \in Nat  BY <1>3
  <2>2. P[n] = Free(S, D) /\ D \subseteq P[n]  BY <1>1, <1>2
  <2>. HIDE DEF D
  <2>3. P[n] \subseteq S  BY <2>2 DEF Free
  <2>4. IsFiniteSet(D) /\ IsFiniteSet(P[n])  BY <1>0, <2>1, <2>3, FS_Subset
  <2>5. CASE D = S
    <3>1. P[n] = S  BY <2>2, <2>3, <2>5
    <3>. QED  BY <1>1, <2>3, <3>1
  <2>6. CASE D # S
    <3>1. PICK k \in S \ D : Parents[k] \cap (S \ D) = {}
      <4>1. S \ D # {} /\ S \ D \in SUBSET bundle.entities  BY <2>1, <2>6
      <4>. QED  BY <4>1 DEF NoCycles
    <3>2. D \cup {k} \subseteq P[n]  BY <2>2, <3>1 DEF Free
    <3>3. /\ Cardinality(D \cup {k}) = Cardinality(D) + 1 /\ IsFiniteSet(D \cup {k})
      BY <2>4, <3>1, FS_AddElement
    <3>4. Cardinality(D \cup {k}) <= Cardinality(P[n])  BY <2>4, <3>2, FS_Subset
    <3>5. Cardinality(D) \in Nat /\ Cardinality(P[n]) \in Nat  BY <2>4, FS_CardinalityType
    <3>. QED  BY <1>1, <2>1, <2>3, <3>3, <3>4, <3>5
  <2>. QED  BY <2>5, <2>6
<1>4. 0 \in T
  <2>1. Cardinality(P[0]) = 0 /\ P[0] \subseteq S  BY <1>1, FS_EmptySet
  <2>. QED  BY <1>1, <2>1
<1>. HIDE DEF T
<1>5. N \in T  BY <1>1, <1>3, <1>4, StepByStep
<1>. HIDE DEF N
<1>6. P[N] \subseteq S /\ Cardinality(P[N]) >= N  BY <1>5 DEF T
<1>7. Cardinality(P[N]) = Cardinality(S)
  BY <1>0, <1>6, FS_Subset, FS_CardinalityType DEF N
<1>8. P[N] = S  BY <1>0, <1>6, <1>7, FS_Subset
<1>. QED  BY <1>8 DEF P, N

(* The number of rounds before a key is placed.                              *)
RoundOf(S, k) == Cardinality({n \in DOMAIN Placed(S) : k \notin Placed(S)[n]})

LEMMA RoundNumber ==
  ASSUME NEW S, IsFiniteSet(S), NEW k
  PROVE  /\ RoundOf(S, k) \in Nat
         /\ IsFiniteSet({n \in DOMAIN Placed(S) : k \notin Placed(S)[n]})
<1>. DEFINE before == {n \in DOMAIN Placed(S) : k \notin Placed(S)[n]}
<1>1. IsFiniteSet(DOMAIN Placed(S))  BY PlacedRounds, FS_Interval
<1>2. before \in SUBSET DOMAIN Placed(S)  OBVIOUS
<1>. HIDE DEF before
<1>3. IsFiniteSet(before) /\ Cardinality(before) \in Nat
  BY <1>1, <1>2, FS_Subset, FS_CardinalityType
<1>. QED  BY <1>3 DEF before, RoundOf

(* A key is placed later than what it refers to.                             *)
LEMMA ReferencesFirst ==
  ASSUME NoCycles, NEW bundle \in Bundles, NEW S, S = bundle.entities,
         NEW k \in S, NEW p \in Parents[k] \cap S
  PROVE  RoundOf(S, p) < RoundOf(S, k)
<1>. DEFINE N == Cardinality(S)
            P == Placed(S)
            late == {n \in DOMAIN P : k \notin P[n]}
            early == {n \in DOMAIN P : p \notin P[n]}
            T == {n \in 0..N : k \in P[n]}
<1>0. IsFiniteSet(S)  BY ImportAssumption
<1>1. /\ N \in Nat /\ DOMAIN P = 0..N /\ P[0] = {}
      /\ \A n \in 1..N : P[n] = Free(S, P[n - 1])
  BY <1>0, PlacedRounds
<1>2. \A n \in 1..N : P[n - 1] \subseteq P[n]  BY <1>0, RoundsGrow
<1>3. k \in P[N]  BY AllArePlaced
<1>4. /\ IsFiniteSet(early) /\ Cardinality(early) = RoundOf(S, p)
      /\ IsFiniteSet(late) /\ Cardinality(late) = RoundOf(S, k)
  BY <1>0, RoundNumber DEF RoundOf
<1>5. RoundOf(S, p) \in Nat /\ RoundOf(S, k) \in Nat  BY <1>0, RoundNumber
<1>. HIDE DEF P, N
<1>6. ASSUME NEW n \in 0..N, k \in P[n] PROVE n \in 1..N /\ p \in P[n - 1]
  <2>1. n # 0  BY <1>1, <1>6
  <2>2. n \in 1..N  BY <1>1, <2>1
  <2>. QED  BY <1>1, <1>6, <2>2 DEF Free
<1>7. early \subseteq late
  BY <1>1, <1>2, <1>6
<1>8. PICK m \in T : \A i \in T : m <= i
  <2>1. N \in T /\ T \in SUBSET Nat  BY <1>1, <1>3
  <2>. HIDE DEF T
  <2>. QED  BY <2>1, LeastNumber
<1>9. m \in 1..N /\ p \in P[m - 1] /\ m - 1 \in 0..N /\ k \notin P[m - 1]
  <2>1. m \in 0..N /\ k \in P[m]  BY <1>8
  <2>2. m \in 1..N /\ p \in P[m - 1]  BY <1>6, <2>1
  <2>3. m - 1 \in 0..N /\ ~(m <= m - 1)  BY <1>1, <2>2
  <2>4. m - 1 \notin T  BY <1>8, <2>3
  <2>. QED  BY <2>2, <2>3, <2>4
<1>10. early # late  BY <1>1, <1>9
<1>. HIDE DEF early, late
<1>11. Cardinality(early) <= Cardinality(late) /\ Cardinality(early) # Cardinality(late)
  BY <1>4, <1>7, <1>10, FS_Subset
<1>. QED  BY <1>4, <1>5, <1>11

Before(S, j, k) ==
  RoundOf(S, j) < RoundOf(S, k) \/ (RoundOf(S, j) = RoundOf(S, k) /\ Place(j) < Place(k))

LEMMA OrderedByRounds ==
  ASSUME NEW S
  PROVE  Ordered(S) = Arranged(S, {pair \in S \X S : Before(S, pair[1], pair[2])})
BY DEF Ordered, Before, RoundOf

LEMMA PlaceOfKey ==
  ASSUME NEW k \in Keys
  PROVE  Place(k) \in Nat /\ SourceOrder[Place(k)] = k
<1>1. DOMAIN SourceOrder \subseteq Nat  BY ImportAssumption, LenProperties
<1>2. \E i \in DOMAIN SourceOrder : SourceOrder[i] = k  BY DEF Keys, Range
<1>. QED  BY <1>1, <1>2 DEF Place

(* Before is a strict order of a bundle: no two keys have the same place.    *)
LEMMA BeforeIsAnOrder ==
  ASSUME NEW S \in SUBSET Keys, IsFiniteSet(S)
  PROVE  /\ \A k \in S : ~Before(S, k, k)
         /\ \A j, k \in S : j = k \/ Before(S, j, k) \/ Before(S, k, j)
         /\ \A i, j, k \in S : Before(S, i, j) /\ Before(S, j, k) => Before(S, i, k)
<1>1. \A k \in S : RoundOf(S, k) \in Nat /\ Place(k) \in Nat /\ SourceOrder[Place(k)] = k
  BY RoundNumber, PlaceOfKey
<1>2. \A j, k \in S : Place(j) = Place(k) => j = k  BY <1>1
<1>. QED  BY <1>1, <1>2 DEF Before

(* Each key goes behind those that come before it, which leaves one place    *)
(* for each.                                                                 *)
LEMMA OrderExists ==
  ASSUME NEW S \in SUBSET Keys, IsFiniteSet(S)
  PROVE  Ordered(S) # {}
<1>. DEFINE N == Cardinality(S)
            ahead(k) == {j \in S : Before(S, j, k)}
            rank == [k \in S |-> Cardinality(ahead(k)) + 1]
            todo == [n \in 1..N |-> CHOOSE k \in S : rank[k] = n]
            pairs == {pair \in S \X S : Before(S, pair[1], pair[2])}
<1>1. N \in Nat  BY FS_CardinalityType
<1>2. ASSUME NEW k \in S
      PROVE  /\ IsFiniteSet(ahead(k)) /\ Cardinality(ahead(k)) \in Nat
             /\ Cardinality(ahead(k)) < N
  <2>1. ahead(k) \in SUBSET S /\ k \notin ahead(k)  BY BeforeIsAnOrder
  <2>. HIDE DEF ahead
  <2>2. /\ IsFiniteSet(ahead(k)) /\ Cardinality(ahead(k)) <= Cardinality(S)
        /\ Cardinality(S) = Cardinality(ahead(k)) => S = ahead(k)
    BY <2>1, FS_Subset
  <2>3. Cardinality(ahead(k)) \in Nat  BY <2>2, FS_CardinalityType
  <2>. QED  BY <1>1, <1>2, <2>1, <2>2, <2>3
<1>3. ASSUME NEW j \in S, NEW k \in S, Before(S, j, k) PROVE rank[j] < rank[k]
  <2>1. ahead(j) \in SUBSET ahead(k) /\ j \in ahead(k) /\ j \notin ahead(j)
    BY <1>3, BeforeIsAnOrder
  <2>2. /\ IsFiniteSet(ahead(k)) /\ Cardinality(ahead(k)) \in Nat
        /\ Cardinality(ahead(j)) \in Nat
    BY <1>2
  <2>3. rank[j] = Cardinality(ahead(j)) + 1 /\ rank[k] = Cardinality(ahead(k)) + 1  OBVIOUS
  <2>. HIDE DEF ahead, rank
  <2>4. /\ Cardinality(ahead(j)) <= Cardinality(ahead(k))
        /\ Cardinality(ahead(k)) = Cardinality(ahead(j)) => ahead(k) = ahead(j)
    BY <2>1, <2>2, FS_Subset
  <2>. QED  BY <2>1, <2>2, <2>3, <2>4
<1>4. rank \in [S -> 1..N]
  <2>. HIDE DEF ahead, N
  <2>1. ASSUME NEW k \in S PROVE Cardinality(ahead(k)) + 1 \in 1..N
    <3>1. Cardinality(ahead(k)) \in Nat /\ Cardinality(ahead(k)) < N  BY <1>2
    <3>. QED  BY <1>1, <3>1
  <2>. QED  BY <2>1
<1>. HIDE DEF rank, ahead, N
<1>5. \A j, k \in S : rank[j] = rank[k] => j = k
  BY <1>1, <1>3, <1>4, BeforeIsAnOrder
<1>6. rank \in Surjection(S, 1..N)
  <2>1. rank \in Injection(S, 1..N)  BY <1>4, <1>5 DEF Injection, IsInjective
  <2>2. IsFiniteSet(1..N) /\ Cardinality(1..N) = N  BY <1>1, UpTo
  <2>. QED  BY <2>1, <2>2, FS_Injection DEF N
<1>7. ASSUME NEW n \in 1..N PROVE todo[n] \in S /\ rank[todo[n]] = n
  BY <1>6 DEF Surjection
<1>. HIDE DEF todo
<1>8. todo \in [1..N -> S]  BY <1>7 DEF todo
<1>9. ASSUME NEW j \in 1..N, NEW i \in 1..(j - 1) PROVE <<todo[i], todo[j]>> \in pairs
  <2>1. i \in 1..N /\ i < j  BY <1>1
  <2>2. /\ todo[i] \in S /\ todo[j] \in S
        /\ rank[todo[i]] = i /\ rank[todo[j]] = j
    BY <1>7, <2>1
  <2>3. ~Before(S, todo[j], todo[i]) /\ todo[i] # todo[j]  BY <1>3, <2>1, <2>2
  <2>4. Before(S, todo[i], todo[j])  BY <2>2, <2>3, BeforeIsAnOrder
  <2>. QED  BY <2>2, <2>4
<1>. HIDE DEF pairs
<1>10. todo \in Arranged(S, pairs)  BY <1>8, <1>9 DEF Arranged, N
<1>. QED  BY <1>10, OrderedByRounds DEF pairs

(* Every bundle has an order, and if its references do not go round it has   *)
(* each of the entities once, behind everything it refers to                 *)
(* (_ordered_entity_keys).                                                   *)
THEOREM OrdersAreSoundHolds == NoCycles => OrdersAreSound
<1>0. \A bundle \in Bundles : \E order \in Orders : order.of = bundle.entities
  <2>. SUFFICES ASSUME NEW bundle \in Bundles
                PROVE  \E order \in Orders : order.of = bundle.entities
    OBVIOUS
  <2>1. bundle.entities \in SUBSET Keys /\ IsFiniteSet(bundle.entities)  BY ImportAssumption
  <2>2. PICK todo \in Ordered(bundle.entities) : TRUE  BY <2>1, OrderExists
  <2>3. [of |-> bundle.entities, todo |-> todo] \in Orders  BY DEF Orders
  <2>. QED  BY <2>3
<1>. SUFFICES ASSUME NoCycles, NEW order \in Orders
     PROVE  /\ Range(order.todo) = order.of
            /\ \A j \in DOMAIN order.todo : \A p \in Parents[order.todo[j]] \cap order.of :
                 \E i \in 1..(j - 1) : order.todo[i] = p
  BY <1>0 DEF OrdersAreSound
<1>1. PICK bundle \in Bundles : order.of = bundle.entities /\ order.todo \in Ordered(bundle.entities)
  BY DEF Orders
<1>. DEFINE S == bundle.entities
            todo == order.todo
            N == Cardinality(S)
<1>2. IsFiniteSet(S) /\ S \subseteq Keys /\ N \in Nat  BY ImportAssumption, FS_CardinalityType
<1>3. /\ todo \in [1..N -> S]
      /\ \A j \in 1..N : \A i \in 1..(j - 1) : Before(S, todo[i], todo[j])
  <2>. DEFINE pairs == {pair \in S \X S : Before(S, pair[1], pair[2])}
  <2>1. todo \in Arranged(S, pairs)  BY <1>1, OrderedByRounds
  <2>. HIDE DEF pairs
  <2>2. /\ todo \in [1..N -> S]
        /\ \A j \in DOMAIN todo : \A i \in 1..(j - 1) : <<todo[i], todo[j]>> \in pairs
    BY <2>1 DEF Arranged
  <2>3. ASSUME NEW a, NEW c, <<a, c>> \in pairs PROVE Before(S, a, c)  BY <2>3 DEF pairs
  <2>. QED  BY <2>2, <2>3
<1>. HIDE DEF todo, N
<1>4. \A k \in S : RoundOf(S, k) \in Nat /\ Place(k) \in Nat
  BY <1>2, PlaceOfKey, RoundNumber
<1>5. ASSUME NEW i \in 1..N, NEW j \in 1..N, i < j PROVE todo[i] # todo[j]
  <2>1. i \in 1..(j - 1) /\ todo[i] \in S /\ todo[j] \in S  BY <1>3, <1>5
  <2>. QED  BY <1>3, <1>4, <2>1 DEF Before
<1>6. todo \in Injection(1..N, S)
  BY <1>2, <1>3, <1>5 DEF Injection, IsInjective
<1>7. todo \in Surjection(1..N, S)
  <2>1. Cardinality(1..N) = N  BY <1>2, UpTo
  <2>. QED  BY <1>2, <1>6, <2>1, FS_Injection DEF N
<1>8. DOMAIN todo = 1..N /\ Range(todo) = S
  BY <1>3, <1>7 DEF Surjection, Range
<1>9. ASSUME NEW j \in 1..N, NEW p \in Parents[todo[j]] \cap S
      PROVE  \E i \in 1..(j - 1) : todo[i] = p
  <2>1. todo[j] \in S  BY <1>3
  <2>2. RoundOf(S, p) < RoundOf(S, todo[j])  BY <2>1, ReferencesFirst
  <2>3. PICK i \in 1..N : todo[i] = p  BY <1>7 DEF Surjection
  <2>4. i # j  BY <1>4, <2>1, <2>2, <2>3
  <2>5. ~(j < i)
    <3>. SUFFICES ASSUME j < i PROVE FALSE  OBVIOUS
    <3>1. j \in 1..(i - 1)  OBVIOUS
    <3>2. RoundOf(S, todo[j]) <= RoundOf(S, p)
      BY <1>3, <1>4, <2>1, <2>3, <3>1 DEF Before
    <3>. QED  BY <1>4, <2>1, <2>2, <3>2
  <2>6. i \in 1..(j - 1)  BY <1>2, <2>4, <2>5
  <2>. QED  BY <2>3, <2>6
<1>. QED  BY <1>1, <1>8, <1>9 DEF todo
-----------------------------------------------------------------------------
(* Nothing an import leaves behind locks it out.                             *)

(* What a command has left to do is the end of an order of its bundle; what  *)
(* comes before that is imported.                                            *)
Progress(o) ==
  \E order \in Orders, n \in Nat :
    /\ order.of = Bundle(o).entities
    /\ Len(order.todo) = n + Len(runs[o].todo)
    /\ \A i \in 1..Len(runs[o].todo) : runs[o].todo[i] = order.todo[n + i]
    /\ \A i \in 1..n : order.todo[i] \in entities[runs[o].batch]

ProgressMade == \A o \in Operators : runs[o].pc # "idle" => Progress(o)

LEMMA FirstPart ==
  ASSUME NEW S, NEW s \in Seq(S), NEW c \in Nat, c <= Len(s)
  PROVE  /\ DOMAIN SubSeq(s, 1, c) = 1..c
         /\ \A i \in 1..c : SubSeq(s, 1, c)[i] = s[i]
<1>1. \A i \in 1..c : s[i] \in S  BY LenProperties, ElementOfSeq
<1>2. /\ SubSeq(s, 1, c) \in Seq(S)
      /\ Len(SubSeq(s, 1, c)) = IF 1 <= c THEN c - 1 + 1 ELSE 0
      /\ \A i \in 1..c - 1 + 1 : SubSeq(s, 1, c)[i] = s[1 + i - 1]
  BY <1>1, SubSeqProperties
<1>. QED  BY <1>2, LenProperties

LEMMA LaterStillThere ==
  ASSUME IInv, NEW o \in Operators, runs'[o].pc # "idle", bundles' = bundles,
         runs[o].pc # "idle", ProgressMade,
         runs'[o].todo = runs[o].todo, runs'[o].batch = runs[o].batch,
         entities[runs[o].batch] \subseteq entities'[runs[o].batch]
  PROVE  Progress(o)'
<1>1. PICK order \in Orders, n \in Nat :
        /\ order.of = Bundle(o).entities
        /\ Len(order.todo) = n + Len(runs[o].todo)
        /\ \A i \in 1..Len(runs[o].todo) : runs[o].todo[i] = order.todo[n + i]
        /\ \A i \in 1..n : order.todo[i] \in entities[runs[o].batch]
  BY DEF ProgressMade, Progress
<1>2. Bundle(o)' = Bundle(o)  BY DEF Bundle
<1>3. \A i \in 1..n : order.todo[i] \in entities'[runs'[o].batch]  BY <1>1
<1>4. /\ order.of = Bundle(o)'.entities
      /\ Len(order.todo) = n + Len(runs'[o].todo)
      /\ \A i \in 1..Len(runs'[o].todo) : runs'[o].todo[i] = order.todo[n + i]
  BY <1>1, <1>2
<1>. QED  BY <1>3, <1>4 DEF Progress

LEMMA StartProgresses ==
  ASSUME IInv, ProgressMade, NEW o \in Operators, NEW b \in Batches, NEW resume \in BOOLEAN,
         Start(o, b, resume)
  PROVE  ProgressMade'
<1>1. PICK order \in Orders :
         /\ order.of = bundles[b].entities
         /\ runs' = [runs EXCEPT ![o] = [pc |-> "open", batch |-> b, resume |-> resume,
                                         seen |-> {}, todo |-> order.todo]]
  BY DEF Start
<1>2. bundles' = bundles /\ entities' = entities  BY DEF Start, tables
<1>. SUFFICES ASSUME NEW p \in Operators, runs'[p].pc # "idle" PROVE Progress(p)'
  BY DEF ProgressMade
<1>3. CASE p # o
  <2>1. runs'[p] = runs[p]  BY <1>1, <1>3 DEF IInv, TypeOK
  <2>. QED  BY <1>2, <2>1, LaterStillThere
<1>4. CASE p = o
  <2>1. runs'[p].batch = b /\ runs'[p].todo = order.todo  BY <1>1, <1>4 DEF IInv, TypeOK
  <2>2. Len(order.todo) \in Nat  BY <1>1, OrderOfBundle, LenProperties DEF IInv
  <2>3. order.of = Bundle(p)'.entities  BY <1>1, <1>2, <2>1 DEF Bundle
  <2>4. /\ Len(order.todo) = 0 + Len(runs'[p].todo)
        /\ \A i \in 1..Len(runs'[p].todo) : runs'[p].todo[i] = order.todo[0 + i]
    BY <2>1, <2>2
  <2>5. \A i \in 1..0 : order.todo[i] \in entities'[runs'[p].batch]  OBVIOUS
  <2>6. 0 \in Nat  OBVIOUS
  <2>. QED  BY <1>1, <2>3, <2>4, <2>5, <2>6 DEF Progress
<1>. QED  BY <1>3, <1>4

LEMMA ChunkProgresses ==
  ASSUME IInv, ProgressMade, NEW o \in Operators, ImportChunk(o)
  PROVE  ProgressMade'
<1>. DEFINE todo == runs[o].todo
            b == runs[o].batch
<1>1. Works(o) /\ Progress(o)  BY DEF ImportChunk, IInv, CommandsWork, ProgressMade
<1>2. /\ b \in Batches /\ todo \in Seq(Bundle(o).entities) /\ Len(todo) \in Nat
      /\ ChunkSize \in Nat \ {0}
  BY <1>1, ImportAssumption, LenProperties DEF Works
<1>3. /\ bundles' = bundles
      /\ entities' = [entities EXCEPT ![b] = @ \cup Outstanding(o)]
      /\ runs' = [runs EXCEPT ![o] = IF LastChunk(o) THEN NoRun
                    ELSE [runs[o] EXCEPT !.pc = "open", !.seen = {},
                            !.todo = SubSeq(@, ChunkSize + 1, Len(@))]]
  BY DEF ImportChunk, EntitiesRecorded
<1>4. \A c \in Batches : entities[c] \subseteq entities'[c]  BY <1>3 DEF IInv, TypeOK
<1>5. entities'[b] = entities[b] \cup Range(Chunk(o))
  BY <1>2, <1>3 DEF Outstanding, IInv, TypeOK
<1>. SUFFICES ASSUME NEW p \in Operators, runs'[p].pc # "idle" PROVE Progress(p)'
  BY DEF ProgressMade
<1>6. CASE p # o
  <2>1. runs'[p] = runs[p]  BY <1>3, <1>6 DEF IInv, TypeOK
  <2>2. runs[p].batch \in Batches  BY <2>1 DEF IInv, CommandsWork, Works
  <2>. QED  BY <1>3, <1>4, <2>1, <2>2, LaterStillThere
<1>7. CASE p = o
  <2>. DEFINE rest == SubSeq(todo, ChunkSize + 1, Len(todo))
  <2>1. /\ ~LastChunk(o)
        /\ runs'[p] = [runs[o] EXCEPT !.pc = "open", !.seen = {}, !.todo = rest]
    BY <1>3, <1>7, NoRunType DEF IInv, TypeOK
  <2>2. runs'[p].batch = b /\ runs'[p].todo = rest
    <3>1. runs[o] \in [pc : {"idle", "open", "validated"}, batch : Batches \cup {None},
                       resume : BOOLEAN, todo : Seq(Keys), seen : SUBSET Keys]
      BY DEF IInv, TypeOK
    <3>. HIDE DEF rest
    <3>. QED  BY <2>1, <3>1
  <2>3. ChunkSize < Len(todo) /\ Chunk(o) = SubSeq(todo, 1, ChunkSize)
    BY <1>2, <2>1 DEF LastChunk, Chunk
  <2>4. \A i \in 1..Len(todo) : todo[i] \in Bundle(o).entities  BY <1>2, ElementOfSeq
  <2>5. /\ Len(rest) = Len(todo) - ChunkSize
        /\ \A i \in 1..Len(rest) : rest[i] = todo[ChunkSize + i]
    <3>. HIDE DEF todo
    <3>1. \A i \in (ChunkSize + 1)..Len(todo) : todo[i] \in Bundle(o).entities
      BY <1>2, <2>4
    <3>2. /\ Len(rest) = IF ChunkSize + 1 <= Len(todo) THEN Len(todo) - (ChunkSize + 1) + 1 ELSE 0
          /\ \A i \in 1..Len(todo) - (ChunkSize + 1) + 1 : rest[i] = todo[(ChunkSize + 1) + i - 1]
      BY <1>2, <3>1, SubSeqProperties
    <3>. QED  BY <1>2, <2>3, <3>2
  <2>6. \A i \in 1..ChunkSize : todo[i] \in Range(Chunk(o))
    <3>. HIDE DEF todo
    <3>1. /\ DOMAIN Chunk(o) = 1..ChunkSize
          /\ \A i \in 1..ChunkSize : Chunk(o)[i] = todo[i]
      BY <1>2, <2>3, FirstPart
    <3>. QED  BY <3>1 DEF Range
  <2>7. PICK order \in Orders, n \in Nat :
          /\ order.of = Bundle(o).entities
          /\ Len(order.todo) = n + Len(todo)
          /\ \A i \in 1..Len(todo) : todo[i] = order.todo[n + i]
          /\ \A i \in 1..n : order.todo[i] \in entities[b]
    BY <1>1 DEF Progress
  <2>. HIDE DEF todo, rest, b
  <2>8. n + ChunkSize \in Nat /\ Len(order.todo) = (n + ChunkSize) + Len(rest)
    BY <1>2, <2>5, <2>7
  <2>9. ASSUME NEW i \in 1..Len(rest) PROVE rest[i] = order.todo[(n + ChunkSize) + i]
    <3>1. ChunkSize + i \in 1..Len(todo) /\ n + (ChunkSize + i) = (n + ChunkSize) + i
      BY <1>2, <2>3, <2>5
    <3>. QED  BY <2>5, <2>7, <3>1
  <2>10. ASSUME NEW i \in 1..(n + ChunkSize) PROVE order.todo[i] \in entities'[b]
    <3>1. CASE i \in 1..n  BY <1>5, <2>7, <3>1
    <3>2. CASE i \notin 1..n
      <4>1. i - n \in 1..ChunkSize /\ n + (i - n) = i /\ i - n \in 1..Len(todo)
        BY <1>2, <2>3, <3>2
      <4>2. order.todo[i] = todo[i - n]  BY <2>7, <4>1
      <4>. QED  BY <1>5, <2>6, <4>1, <4>2
    <3>. QED  BY <3>1, <3>2
  <2>11. order.of = Bundle(p)'.entities
    BY <1>3, <2>2, <2>7 DEF Bundle, b
  <2>. QED  BY <2>2, <2>8, <2>9, <2>10, <2>11 DEF Progress
<1>. QED  BY <1>6, <1>7

LEMMA ProgressStep == IInv /\ ProgressMade /\ [Next]_vars => ProgressMade'
<1>. SUFFICES ASSUME IInv, ProgressMade, [Next]_vars PROVE ProgressMade'  OBVIOUS
<1>1. ASSUME NEW o \in Operators, Validate(o) \/ Refuse(o) \/ Fail(o) PROVE ProgressMade'
  <2>1. bundles' = bundles /\ entities' = entities
    BY <1>1 DEF Validate, Refuse, Fail, tables
  <2>. SUFFICES ASSUME NEW p \in Operators, runs'[p].pc # "idle" PROVE Progress(p)'
    BY DEF ProgressMade
  <2>2. runs[p].pc # "idle" /\ runs'[p].todo = runs[p].todo /\ runs'[p].batch = runs[p].batch
    BY <1>1, NoRunType DEF Validate, Refuse, Fail, IInv, TypeOK
  <2>. QED  BY <2>1, <2>2, LaterStillThere
<1>2. ASSUME UNCHANGED <<bundles, entities, runs>> PROVE ProgressMade'
  BY <1>2, LaterStillThere DEF ProgressMade
<1>. QED
  BY <1>1, <1>2, StartProgresses, ChunkProgresses DEF Next, RunStep, Edit, Delete, vars

(* What is mapped as the bundle says blocks no bundle that lists no targets: *)
(* a target without a mapping does not come into being.                      *)
LEMMA CleanIsNotBlocked ==
  ASSUME IInv, NEW b \in Batches, Clean(b)
  PROVE  ~Blocked(bundles[b])
<1>. DEFINE E == bundles[b].entities
            d == bundles[b].digest
<1>1. E \subseteq Keys  BY BundleFields DEF IInv
<1>2. ASSUME NEW k \in Keys, mappings[k] = None PROVE ~TargetExists(k)
  <2>1. ~Live(k)  BY <1>2 DEF IInv, MappedIsWritten, Live
  <2>2. \A c \in Batches : bundles[c].digest # None  BY BundleFields DEF IInv
  <2>3. \A c \in Batches : k \notin entities[c]  BY <1>2, <2>2 DEF IInv, ImportedIsMapped
  <2>. QED  BY <2>1, <2>3 DEF TargetExists
<1>3. \A k \in E : mappings[k] \in {None, d} /\ ~Orphaned(k, bundles[b])  BY DEF Clean
<1>4. \A k \in E : ~Conflicting(k, d)  BY <1>1, <1>2, <1>3 DEF Conflicting
<1>5. bundles[b].targets = {}  BY DEF Clean
<1>. QED  BY <1>3, <1>4, <1>5 DEF Blocked, Disagrees

(* A resumed command that nobody overtakes is accepted: what was imported    *)
(* before, by whichever runs, has its rows, and the chunk comes behind what  *)
(* it refers to (import_bundle, _assert_batch_complete).                     *)
LEMMA UndisturbedIsAccepted ==
  ASSUME OrdersAreSound, IInv, ProgressMade, NEW o \in Operators, runs[o].pc = "validated",
         runs[o].resume, Clean(runs[o].batch), runs[o].seen = entities[runs[o].batch]
  PROVE  Importable(o)
<1>. DEFINE todo == runs[o].todo
            b == runs[o].batch
            E == Bundle(o).entities
            last == IF LastChunk(o) THEN Len(todo) ELSE ChunkSize
<1>1. Works(o)  BY DEF IInv, CommandsWork
<1>2. PICK order \in Orders, n \in Nat :
        /\ order.of = E
        /\ Len(order.todo) = n + Len(todo)
        /\ \A i \in 1..Len(todo) : todo[i] = order.todo[n + i]
        /\ \A i \in 1..n : order.todo[i] \in entities[b]
  BY DEF ProgressMade, Progress
<1>3. /\ b \in Batches /\ E = bundles[b].entities /\ Bundle(o) = bundles[b]
      /\ todo \in Seq(E) /\ Len(todo) \in Nat /\ ChunkSize \in Nat
      /\ E \subseteq Keys /\ Bundle(o).digest # None
  BY <1>1, ImportAssumption, LenProperties, BundleFields DEF Works, Bundle, IInv
<1>4. /\ DOMAIN order.todo = 1..(n + Len(todo))
      /\ Range(order.todo) = E
      /\ \A j \in DOMAIN order.todo : \A p \in Parents[order.todo[j]] \cap E :
           \E i \in 1..(j - 1) : order.todo[i] = p
  <2>1. order.todo \in Seq(E)  BY <1>2, <1>3, OrderOfBundle DEF IInv
  <2>. QED  BY <1>2, <2>1, LenProperties DEF OrdersAreSound
<1>5. \A i \in 1..Len(todo) : todo[i] \in E  BY <1>3, ElementOfSeq
<1>6. /\ last \in Nat /\ last <= Len(todo)
      /\ DOMAIN Chunk(o) = 1..last
      /\ \A i \in 1..last : Chunk(o)[i] = todo[i]
  <2>1. last \in Nat /\ last <= Len(todo)  BY <1>3 DEF LastChunk
  <2>. HIDE DEF todo, last, E
  <2>2. /\ DOMAIN SubSeq(todo, 1, last) = 1..last
        /\ \A i \in 1..last : SubSeq(todo, 1, last)[i] = todo[i]
    BY <1>3, <2>1, FirstPart
  <2>3. Chunk(o) = SubSeq(todo, 1, last)  BY DEF Chunk, todo, last
  <2>. QED  BY <2>1, <2>2, <2>3
<1>7. Clean(b)  OBVIOUS
<1>. HIDE DEF todo, last, E, b
<1>9. ASSUME NEW k \in E PROVE k \in entities[b] \/ \E i \in 1..Len(todo) : todo[i] = k
  <2>1. PICK i \in 1..(n + Len(todo)) : order.todo[i] = k  BY <1>4 DEF Range
  <2>2. CASE i \in 1..n  BY <1>2, <2>1, <2>2
  <2>3. CASE i \notin 1..n
    <3>1. i - n \in 1..Len(todo) /\ n + (i - n) = i  BY <1>3, <2>3
    <3>. QED  BY <1>2, <2>1, <3>1
  <2>. QED  BY <2>2, <2>3
<1>10. ASSUME NEW i \in DOMAIN Chunk(o), Chunk(o)[i] \in Outstanding(o)
       PROVE  Mappable(Chunk(o)[i], Bundle(o).digest) /\ Writable(i, o)
  <2>. DEFINE k == Chunk(o)[i]
  <2>1. i \in 1..last /\ k = todo[i] /\ i \in 1..Len(todo) /\ k \in E
    BY <1>3, <1>5, <1>6
  <2>2. k \notin entities[b]  BY <1>10 DEF Outstanding, b
  <2>3. /\ mappings[k] \in {None, Bundle(o).digest}
        /\ rows[k] \in {None, Deleted, Bundle(o).digest}
        /\ \A p \in Parents[k] : Live(p) \/ p \in E \ entities[b]
    BY <1>3, <1>7, <2>1, <2>2 DEF Clean
  <2>4. ASSUME NEW p \in Parents[k], p \in E \ entities[b]
        PROVE  \E j \in 1..(i - 1) : Chunk(o)[j] = p /\ p \in Outstanding(o)
    <3>1. n + i \in DOMAIN order.todo /\ order.todo[n + i] = k
      BY <1>2, <1>3, <1>4, <2>1
    <3>2. \A q \in Parents[k] \cap E : \E m \in 1..((n + i) - 1) : order.todo[m] = q
      BY <1>4, <3>1
    <3>3. PICK m \in 1..((n + i) - 1) : order.todo[m] = p
      BY <2>4, <3>2
    <3>4. CASE m \in 1..n  BY <1>2, <2>4, <3>3, <3>4
    <3>5. CASE m \notin 1..n
      <4>1. m - n \in 1..(i - 1) /\ m - n \in 1..last /\ m - n \in 1..Len(todo) /\ n + (m - n) = m
        BY <1>3, <1>6, <2>1, <3>3, <3>5
      <4>2. todo[m - n] = order.todo[m]  BY <1>2, <4>1
      <4>3. Chunk(o)[m - n] = p /\ m - n \in DOMAIN Chunk(o)  BY <1>6, <3>3, <4>1, <4>2
      <4>4. p \in Outstanding(o)  BY <2>4, <4>3 DEF Outstanding, Range, b
      <4>. QED  BY <4>1, <4>3, <4>4
    <3>. QED  BY <3>4, <3>5
  <2>. HIDE DEF k
  <2>5. Writable(i, o)  BY <2>3, <2>4 DEF Writable, k
  <2>6. Mappable(k, Bundle(o).digest)  BY <2>3 DEF Mappable
  <2>. QED  BY <2>5, <2>6 DEF k
<1>11. ASSUME LastChunk(o) PROVE Complete(o)
  <2>1. last = Len(todo)  BY <1>11 DEF last
  <2>2. E \subseteq entities[b] \cup Range(Chunk(o))
    BY <1>6, <1>9, <2>1 DEF Range
  <2>3. entities[b] \subseteq E  BY <1>3 DEF IInv, OfBundle
  <2>4. Outstanding(o) \subseteq E  BY <1>1, ChunkOfBundle DEF IInv, E
  <2>. QED  BY <2>2, <2>3, <2>4 DEF Complete, Outstanding, E, b
<1>12. MediaAccepted(Bundle(o))  BY <1>3, <1>7 DEF Clean
<1>. QED  BY <1>10, <1>11, <1>12 DEF Importable, Resumable

(* However an import was interrupted, the command that resumes it is not     *)
(* refused: if nothing but time is in the way of its batch, it is not        *)
(* blocked, and every chunk whose snapshot is still current gets in, also    *)
(* the one that closes the batch.  Bundles whose references go round, and    *)
(* those that list existing_targets, are left out.                           *)
THEOREM ResumedIsAcceptedHolds == NoCycles => (Spec => []ResumedIsAccepted)
<1>. SUFFICES ASSUME NoCycles PROVE Spec => []ResumedIsAccepted  OBVIOUS
<1>1. Init => ProgressMade  BY NoRunType DEF Init, ProgressMade
<1>2. IInv /\ ProgressMade => ResumedIsAccepted
  <2>. SUFFICES ASSUME IInv, ProgressMade, NEW o \in Operators, runs[o].pc # "idle",
                       runs[o].resume, Clean(runs[o].batch)
                PROVE  /\ ~Blocked(Bundle(o))
                       /\ runs[o].pc = "validated" /\ runs[o].seen = entities[runs[o].batch]
                            => Importable(o)
    BY DEF ResumedIsAccepted
  <2>1. runs[o].batch \in Batches  BY DEF IInv, CommandsWork, Works
  <2>2. ~Blocked(Bundle(o))  BY <2>1, CleanIsNotBlocked DEF Bundle
  <2>. QED  BY <2>2, OrdersAreSoundHolds, UndisturbedIsAccepted
<1>. QED  BY <1>1, <1>2, ProgressStep, Invariant, PTL DEF Spec

LEMMA ChunkKeepsClean ==
  ASSUME IInv, NEW o \in Operators, NEW c \in Batches, ImportChunk(o),
         Bundle(o).digest = bundles[c].digest, Clean(c)
  PROVE  Clean(c)'
<1>. DEFINE d == bundles[c].digest
            done == Outstanding(o)
            E == bundles[c].entities
            b == runs[o].batch
<1>1. Works(o) /\ Importable(o)
  BY DEF ImportChunk, IInv, CommandsWork
<1>2. /\ done \subseteq Keys /\ d # None /\ d # Edited /\ d # Deleted /\ E \subseteq Keys
      /\ b \in Batches
  BY <1>1, ChunkOfBundle, BundleFields DEF IInv, Works
<1>3. \A k \in done : mappings[k] \in {None, d} /\ rows[k] \in {None, Deleted, d}
  BY <1>1, ChunkFits
<1>4. /\ entities' = [entities EXCEPT ![b] = @ \cup done]
      /\ mappings' = [k \in Keys |-> IF k \in done /\ mappings[k] \in {None} THEN d ELSE mappings[k]]
      /\ rows' = [k \in Keys |-> IF k \in done /\ rows[k] \in {None, Deleted} THEN d ELSE rows[k]]
      /\ media' = IF FirstChunk(o) THEN MediaStored(Bundle(o)) ELSE media
      /\ bundles' = bundles
  BY DEF ImportChunk, EntitiesRecorded, Mapped, Written, Filled
<1>5. Bundle(o).digest = d  OBVIOUS
<1>. HIDE DEF done, b
<1>6. /\ \A k \in done : mappings'[k] = d /\ rows'[k] = d
      /\ \A k \in Keys \ done : mappings'[k] = mappings[k] /\ rows'[k] = rows[k]
      /\ \A k \in Keys : Live(k) \/ k \in done => Live(k)'
  BY <1>2, <1>3, <1>4 DEF Live
<1>7. /\ entities[c] \subseteq entities'[c]
      /\ \A k \in entities'[c] : k \in entities[c] \/ k \in done
  BY <1>2, <1>4 DEF IInv, TypeOK
<1>8. MediaAccepted(bundles[c])'
  <2>1. \A a \in media' : a \in media \/ a.content = d
    BY <1>4, <1>5 DEF MediaStored
  <2>. QED  BY <1>4, <2>1 DEF Clean, MediaAccepted
<1>9. ASSUME NEW k \in E PROVE mappings'[k] \in {None, d} /\ ~Orphaned(k, bundles[c])
  <2>1. mappings[k] \in {None, d} /\ ~Orphaned(k, bundles[c]) /\ k \in Keys  BY <1>2 DEF Clean
  <2>. QED  BY <1>6, <2>1
<1>10. ASSUME NEW k \in E \ entities'[c]
       PROVE  /\ rows'[k] \in {None, Deleted, d}
              /\ \A p \in Parents[k] : Live(p)' \/ p \in E \ entities'[c]
  <2>1. /\ rows[k] \in {None, Deleted, d} /\ k \in Keys
        /\ \A p \in Parents[k] : Live(p) \/ p \in E \ entities[c]
    BY <1>2, <1>7 DEF Clean
  <2>2. \A p \in Parents[k] : p \in Keys  BY <2>1, ImportAssumption
  <2>. QED  BY <1>6, <1>7, <2>1, <2>2
<1>. QED  BY <1>4, <1>8, <1>9, <1>10 DEF Clean, Orphaned, Resolvable

(* No chunk that is committed, of this batch or of another over the same     *)
(* state of the source, is a conflict for a batch that nothing was in the    *)
(* way of and whose bundle lists no existing_targets: it is not blocked      *)
(* either, so its next chunk is validated.                                   *)
THEOREM ChunksLockNobodyOutHolds == Spec => ChunksLockNobodyOut
<1>1. IInv => \A b \in Batches : Clean(b) => ~Blocked(bundles[b])
  BY CleanIsNotBlocked
<1>2. (IInv => \A b \in Batches : Clean(b) => ~Blocked(bundles[b]))'
  BY <1>1, PTL
<1>3. ASSUME IInv, NEW o \in Operators, NEW b \in Batches, ImportChunk(o),
             Bundle(o).digest = bundles[b].digest, Clean(b)
      PROVE  Clean(b)' /\ ~Blocked(bundles[b])'
  BY <1>2, <1>3, ChunkKeepsClean, ImportChunkKeeps
<1>4. IInv /\ [Next]_vars =>
        [\A o \in Operators, b \in Batches :
           ImportChunk(o) /\ Bundle(o).digest = bundles[b].digest /\ Clean(b)
             => Clean(b)' /\ ~Blocked(bundles[b])']_vars
  BY <1>3
<1>. QED  BY <1>4, Invariant, PTL DEF Spec, ChunksLockNobodyOut
=============================================================================
