------------------------------ MODULE MCStores ------------------------------
(***************************************************************************)
(* The modules about what is kept in stores and backed up, checked in one  *)
(* run: they share no state, so a behaviour belongs to one part and the    *)
(* other parts stay as they began.                                         *)
(***************************************************************************)
EXTENDS RowStores, Migrations, VectorStores, KnowledgeGraph, Backup, ImageIndex

CONSTANTS w1, w2, p1, p2,  \* two of whatever acts, two of what is acted on
          b1, b2, b3, b4   \* files

VARIABLE part

MCSymmetry == Permutations({w1, w2}) \union Permutations({p1, p2})

OtherParts(p) ==   \* the parts that a step of p leaves alone
    /\ p # "rows" => UNCHANGED rowVars
    /\ p # "migrations" => UNCHANGED migVars
    /\ p # "vectors" => UNCHANGED vectorVars
    /\ p # "entities" => UNCHANGED graphVars
    /\ p # "backup" => UNCHANGED backupVars
    /\ p # "images" => UNCHANGED imageVars

MCInit ==
    /\ part \in {"rows", "migrations", "vectors", "entities", "backup", "images"}
    /\ RowInit /\ (part # "rows" => backend = "sqlite" /\ family = "source")
    /\ MigInit /\ (part # "migrations" => backendKind = "postgres")
    /\ VecInit /\ (part # "vectors" => vectors = [store |-> "qdrant", kind |-> "chunk", shared |-> FALSE])
    /\ GraphInit /\ (part # "entities" => engine.held = {} /\ ~engine.there)
    /\ BackupInit /\ (part # "backup" => archive = NoArchive /\ ~Occupied /\ live[b2] = 0)
    /\ ImageInit /\ (part # "images" => imageEnabled)

MCNext ==
    /\ \/ part = "rows" /\ RowNext
       \/ part = "migrations" /\ MigNext
       \/ part = "vectors" /\ VecNext
       \/ part = "entities" /\ GraphNext
       \/ part = "backup" /\ BackupNext
       \/ part = "images" /\ ImageNext
    /\ UNCHANGED part /\ OtherParts(part)

MCSpec == MCInit /\ [][MCNext]_<<part, rowVars, migVars, vectorVars, graphVars, backupVars, imageVars>>

-----------------------------------------------------------------------------
(* The variables of every store hold what the code can put there.           *)
StoresTypeOK == RowTypeOK /\ MigTypeOK /\ VecTypeOK /\ GraphTypeOK /\ BackupTypeOK /\ ImageTypeOK
=============================================================================
