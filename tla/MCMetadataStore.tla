--------------------------- MODULE MCMetadataStore ---------------------------
(* The part of the sample data set around one storage account key and the   *)
(* connection string built from it (Host.cs 207-246).                       *)
EXTENDS MetadataStore

CONSTANTS days15, storage1, key1, app2, r1

MCPolicyOf == [c \in {storage1} |-> days15]
MCServiceOf == [s \in {key1, app2} |-> IF s = key1 THEN storage1 ELSE None]
MCAssociations == {<<key1, app2>>}
=============================================================================
