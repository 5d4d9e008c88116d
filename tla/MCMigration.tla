---------------------------- MODULE MCMigration ----------------------------
(* Checkpoint and restore for TLC: the object graph in the pool (Migration,  *)
(* with the images as sequences of records that are written at once), which  *)
(* records the four files hold after crashes and failed opens (ImageFiles),  *)
(* and how the bytes of a record are laid out (ImageFormat).  They share no  *)
(* variable, so a behaviour is one of one of them: part says of which, and   *)
(* the others rest.                                                          *)
EXTENDS Migration, ImageFiles

CONSTANTS CacheSize, MaxCount, MaxList  \* of ImageFormat

ASSUME FormatAssumption ==
    CacheSize \in Nat \ {0} /\ MaxCount \in Nat \ {0} /\ MaxList \in Nat \ {0}

VARIABLES part, obj, step, image, info, offset, elem, field, node, log

formatVars == <<obj, step, image, info, offset, elem, field, node, log>>

Format == INSTANCE ImageFormat WITH phase <- step, pos <- offset

ImagesInit ==
    /\ part \in {"graph", "files", "format"}
    /\ MInit /\ FilesInit
    /\ IF part = "format" THEN Format!Init
       ELSE /\ obj = <<>> /\ step = <<>> /\ image = <<>> /\ info = <<>> /\ offset = <<>>
            /\ elem = <<>> /\ field = <<>> /\ node = <<>> /\ log = <<>>

ImagesNext ==
    /\ \/ part = "graph" /\ MNext /\ UNCHANGED <<fileVars, formatVars>>
       \/ part = "files" /\ FilesNext /\ UNCHANGED <<vars, formatVars>>
       \/ part = "format" /\ Format!Next /\ UNCHANGED <<vars, fileVars>>
    /\ UNCHANGED part

ImagesSpec == ImagesInit /\ [][ImagesNext]_<<part, vars, fileVars, formatVars>>

(* A running process reads no image before it has written it again, so two  *)
(* states of a graph that differ in the images only behave alike.           *)
View == IF part = "graph" /\ phase = "run"
        THEN <<part, poolVars, mem, local, migr_flag, phase, gen>>
        ELSE <<part, vars, fileVars, formatVars>>

(* The pool, the files and the record that is restored have their types.    *)
ImagesTypeOK == MTypeOK /\ FilesTypeOK /\ (part = "format" => Format!TypeOK)

(* Every fread of wasm_restore.c gets the bytes that wasm_dump.c wrote for  *)
(* the same member of the same element, whatever the structure holds.       *)
FieldsRestored == part = "format" => Format!FieldsRestored

(* The reader does not lose its place: HEADER_RESTORE finds the p_abs it    *)
(* compares, no fread goes past its record, and the reader stops where the  *)
(* writer stopped, so that the next record begins where it is looked for.   *)
RecordsAligned == part = "format" => Format!RecordsAligned
=============================================================================
