-------------------------- MODULE MCBusinessImport --------------------------
EXTENDS BusinessImport, TLC

CONSTANTS installation, version, note, picture, copy, d1, d2

\* By key an installation sorts before the version it refers to.
MCSourceOrder == <<note, installation, version>>
MCParents == (installation :> {version}) @@ (version :> {}) @@ (note :> {})

\* The whole snapshot; a later state of one of its rows; the rest of the
\* snapshot, which takes the version for granted and lists the note as there; and
\* media alone.
MCBundles ==
  {[entities |-> {installation, version, note}, media |-> {picture, copy}, known |-> {}, targets |-> {},
    digest |-> d1],
   [entities |-> {version}, media |-> {copy}, known |-> {}, targets |-> {}, digest |-> d2],
   [entities |-> {installation, note}, media |-> {copy}, known |-> {version}, targets |-> {note},
    digest |-> d1],
   [entities |-> {}, media |-> {picture}, known |-> {}, targets |-> {}, digest |-> d2]}

ASSUME NoCycles
=============================================================================
