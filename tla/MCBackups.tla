----------------------------- MODULE MCBackups -----------------------------
(***************************************************************************)
(* Logical dumps and continuous archiving, of which a database has one or  *)
(* the other.  Each behaviour runs one of them, `part', and leaves the     *)
(* other alone.                                                            *)
(***************************************************************************)
EXTENDS Backups, Archive, TLC

CONSTANTS r1, r2

VARIABLE part

BackupsInit ==
    /\ part \in {"dumps", "archive"} /\ Init /\ ArchiveInit
    /\ part = "dumps" => targets = {}

BackupsNext ==
    /\ UNCHANGED part
    /\ \/ part = "dumps" /\ Next /\ UNCHANGED archiveVars
       \/ part = "archive" /\ ArchiveNext /\ UNCHANGED vars

\* The replicas are interchangeable.
Symmetric == Permutations(Replicas)
=============================================================================
