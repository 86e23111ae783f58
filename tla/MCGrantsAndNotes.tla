--------------------------- MODULE MCGrantsAndNotes ---------------------------
(* The grants of MCAuthorizationGrants and the notes of one user: two        *)
(* components that share nothing, each explored while the other rests.       *)
EXTENDS MCAuthorizationGrants, NoteEnrichment

Values(row) == {row.text, row.meta} \ {NoMeta}

(* Three scenes: one request among two jobs, or one that is retried, about    *)
(* one note; two requests and a job about one note; two notes, with nothing   *)
(* to choose for text and metadata and no reviews but those of enrich().      *)
Scenes ==
  LET used  == {n \in Notes : note[n] # NoNote}
      tried == {j \in EnrichJobs : phase[j] # "absent"}
      asked == {r \in Requests : request[r].pc # "new"}
      once  == \A j \in EnrichJobs : epoch[j] <= 1
      known == UNION ({Values(note[n]) : n \in used} \cup {Values(request[r]) : r \in asked})
  IN  /\ once \/ Cardinality(tried) <= 1
      /\ \/ Cardinality(used) <= 1 /\ Cardinality(asked) <= 1
         \/ Cardinality(used) <= 1 /\ Cardinality(tried) <= 1 /\ once
         \/ /\ Cardinality(tried) <= 1 /\ once /\ \A n \in Notes : entered[n] = 0
            /\ Cardinality(known \cap Texts) <= 1 /\ Cardinality(known \cap Metas) <= 1

NotesRest == NotesInit /\ ~enabled

MCInit == Init /\ NotesInit

MCNext ==
  \/ NotesRest /\ Next /\ UNCHANGED noteVars
  \/ Init /\ NotesNext /\ Scenes' /\ UNCHANGED grants

MCSpec == MCInit /\ [][MCNext]_<<grants, noteVars>>

NotesSymmetry ==
  Permutations(Notes) \cup Permutations(Texts) \cup Permutations(Metas)
  \cup Permutations(EnrichJobs) \cup Permutations(Requests)
===============================================================================
