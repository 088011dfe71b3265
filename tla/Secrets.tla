------------------------------- MODULE Secrets -------------------------------
(***************************************************************************)
(* The tenant's ciphertexts, the data keys (DEK) that seal them and the    *)
(* custody key (KEK) that wraps those, through the rotation of either.     *)
(*                                                                         *)
(*   cp/internal/store/secrets_store.go, secrets_rotate.go, backups.go     *)
(*   cp/internal/api/secrets.go        the handlers                        *)
(*   cp/internal/kms                   the custody                         *)
(*                                                                         *)
(* A cell is a row of one of the ten tables that hold ciphertext under a   *)
(* DEK: here a secret, which is created, updated and deleted, the key of a *)
(* backup repository, which is made once, and the archive that keeps it    *)
(* when its database is deleted.  An envelope is wrapped by the custody    *)
(* itself.  Transactions are READ COMMITTED: they read what is committed   *)
(* at each statement, write under row locks, and a plain UPDATE by primary *)
(* key does not look at what it overwrites.                                *)
(***************************************************************************)
EXTENDS Naturals, FiniteSets, Sequences

CONSTANTS
    SecretTxns,     \* concurrent requests
    MaxDeks,        \* bound: data keys ever made
    MaxUpdates,     \* bound: values a secret takes
    MaxKeks         \* bound: versions of the custody key

ASSUME SecretsAssumption ==
    MaxDeks \in Nat \ {0} /\ MaxUpdates \in Nat \ {0} /\ MaxKeks \in Nat \ {0}

VARIABLES
    deks,       \* org_deks: state and the KEK version that wraps each
    cells,      \* the rows: DEK and value, DEK 0 for no row
    locked,     \* per cell the transaction that holds its row, or none
    sealing,    \* per transaction what it is doing
    value,      \* the last value whose update was answered with success
    database,   \* the database of the repository key is there
    kek,        \* version of the custody key; the versions that still open
    envelopes   \* columns wrapped by the custody itself: KEK version of each

secretVars == <<deks, cells, locked, sealing, value, database, kek, envelopes>>
keyVars == <<kek, envelopes>>

DekIds == 1..MaxDeks
Cells == {"secret", "repokey", "archived"}
NoCell == [dek |-> 0, value |-> 0]

\* Directly wrapped columns, and the ones RotateKEK and RotateGlobalKEK know.
OrgEnvelopes    == {"git", "bootstrap"}
GlobalEnvelopes == {"global"}
OtherEnvelopes  == {"cluster", "registry"}
Envelopes == OrgEnvelopes \cup GlobalEnvelopes \cup OtherEnvelopes

NoOneT == "none"
Quiet == [pc |-> "idle"]
Active == {d \in DekIds : deks[d].state = "active"}
FreshDeks  == {d \in DekIds : deks[d].state = "none"}
LowestFresh == CHOOSE d \in FreshDeks : \A e \in FreshDeks : d <= e

SecretsInit ==
    /\ deks = [d \in DekIds |-> [state |-> "none", kek |-> 0]]
    /\ cells = [c \in Cells |-> NoCell] /\ locked = [c \in Cells |-> NoOneT]
    /\ sealing = [t \in SecretTxns |-> Quiet] /\ value = 0 /\ database = TRUE
    /\ kek = [now |-> 1, oldest |-> 1, orgDone |-> TRUE, globalDone |-> TRUE]
    /\ envelopes = [e \in Envelopes |-> 1]

(***************************************************************************)
(* Writing a cell.                                                         *)
(***************************************************************************)
\* activeDEKTx: the active key, or a fresh one made in this transaction.
ActiveDEK == IF Active # {} THEN CHOOSE d \in Active : TRUE ELSE LowestFresh
HaveDEK == Active # {} \/ FreshDeks # {}

BeginWrite(t, c, to) ==
    /\ sealing[t] = Quiet /\ HaveDEK
    /\ sealing' = [sealing EXCEPT ![t] = [pc |-> "write", cell |-> c, dek |-> ActiveDEK,
                                          fresh |-> Active = {}, value |-> to,
                                          new |-> cells[c].dek = 0]]
    /\ UNCHANGED <<deks, cells, value, database, keyVars>>

CreateSecret(t) ==
    /\ cells["secret"].dek = 0 /\ BeginWrite(t, "secret", value) /\ UNCHANGED locked

\* The row is locked, then the key is read.
UpdateSecretValue(t) ==
    /\ cells["secret"].dek # 0 /\ locked["secret"] = NoOneT /\ value < MaxUpdates
    /\ locked' = [locked EXCEPT !["secret"] = t]
    /\ BeginWrite(t, "secret", value + 1)

ensureRepoKey(t) ==
    /\ database /\ cells["repokey"].dek = 0 /\ locked["repokey"] = NoOneT
    /\ locked' = [locked EXCEPT !["repokey"] = t]
    /\ BeginWrite(t, "repokey", 0)

Unlock(t) == [c \in Cells |-> IF locked[c] = t THEN NoOneT ELSE locked[c]]

\* The write and the commit.  A second active key violates the unique index,
\* a second row of the same name another one: the transaction rolls back.
CommitWrite(t) ==
    LET w == sealing[t]
        conflict == \/ w.fresh /\ (Active # {} \/ deks[w.dek].state # "none")
                    \/ w.new /\ cells[w.cell].dek # 0
    IN  /\ w.pc = "write" /\ locked' = Unlock(t)
        /\ IF conflict
           THEN UNCHANGED <<deks, cells, value>> /\ sealing' = [sealing EXCEPT ![t] = Quiet]
           ELSE /\ deks' = IF w.fresh
                           THEN [deks EXCEPT ![w.dek] = [state |-> "active", kek |-> kek.now]]
                           ELSE deks
                /\ cells' = [cells EXCEPT ![w.cell] = [dek |-> w.dek, value |-> w.value]]
                /\ value' = IF w.cell = "secret" THEN w.value ELSE value
                /\ sealing' = [sealing EXCEPT ![t] = Quiet]
        /\ UNCHANGED <<database, keyVars>>

AbortWrite(t) ==
    /\ sealing[t].pc = "write"
    /\ sealing' = [sealing EXCEPT ![t] = Quiet] /\ locked' = Unlock(t)
    /\ UNCHANGED <<deks, cells, value, database, keyVars>>

DeleteSecret(t) ==
    /\ sealing[t] = Quiet /\ cells["secret"].dek # 0 /\ locked["secret"] = NoOneT
    /\ cells' = [cells EXCEPT !["secret"] = NoCell]
    /\ UNCHANGED <<deks, locked, sealing, value, database, keyVars>>

\* Deleting the database first archives the key of its repository, for the
\* offsite copies outlive it.  The copy does not wait for the row, the delete
\* that cascades to it does.
ArchiveRepoKeys(t) ==
    /\ database /\ sealing[t] = Quiet
    /\ sealing' = [sealing EXCEPT ![t] = [pc |-> "archive", read |-> cells["repokey"]]]
    /\ UNCHANGED <<deks, cells, locked, value, database, keyVars>>

DeleteWithArchive(t) ==
    /\ sealing[t].pc = "archive" /\ locked["repokey"] = NoOneT
    /\ sealing' = [sealing EXCEPT ![t] = Quiet] /\ database' = FALSE
    /\ cells' = IF database
                THEN [cells EXCEPT !["archived"] = sealing[t].read, !["repokey"] = NoCell]
                ELSE cells
    /\ UNCHANGED <<deks, locked, value, keyVars>>

(***************************************************************************)
(* Rotating the data key: a new active one, then every table in turn.      *)
(***************************************************************************)
RotateDEK(t) ==
    /\ sealing[t] = Quiet /\ Active # {} /\ FreshDeks # {}
    /\ deks' = [d \in DekIds |-> IF d \in Active THEN [deks[d] EXCEPT !.state = "draining"]
                                 ELSE IF d = LowestFresh THEN [state |-> "active", kek |-> kek.now]
                                 ELSE deks[d]]
    /\ sealing' = [sealing EXCEPT ![t] = [pc |-> "reenc", dek |-> LowestFresh, table |-> 1,
                                          read |-> NoCell, done |-> [c \in {} |-> NoCell]]]
    /\ UNCHANGED <<cells, locked, value, database, keyVars>>

\* The tables in the order of the list.
dekReencTargets == <<"secret", "repokey", "archived">>
Rows(t) == dekReencTargets[sealing[t].table]
NextTable(t, done) == [sealing EXCEPT ![t].read = NoCell, ![t].table = @ + 1, ![t].done = done]

\* The rows of a table that are not under the active key, with their values.
ReencRead(t) ==
    /\ sealing[t].pc = "reenc" /\ sealing[t].table <= Len(dekReencTargets) /\ sealing[t].read = NoCell
    /\ sealing' = IF cells[Rows(t)].dek \in {0, sealing[t].dek}
                  THEN NextTable(t, sealing[t].done)
                  ELSE [sealing EXCEPT ![t].read = cells[Rows(t)]]
    /\ UNCHANGED <<deks, cells, locked, value, database, keyVars>>

\* The UPDATE waits for the row; it names the row by its key alone.
ReencWrite(t) ==
    /\ sealing[t].pc = "reenc" /\ sealing[t].read # NoCell /\ locked[Rows(t)] = NoOneT
    /\ LET c == Rows(t)
           new == [dek |-> sealing[t].dek, value |-> sealing[t].read.value]
           done == sealing[t].done
       IN  IF cells[c].dek = 0
           THEN sealing' = NextTable(t, done) /\ UNCHANGED locked
           ELSE /\ sealing' = NextTable(t, [b \in DOMAIN done \cup {c} |-> IF b = c THEN new ELSE done[b]])
                /\ locked' = [locked EXCEPT ![c] = t]
    /\ UNCHANGED <<deks, cells, value, database, keyVars>>

\* A key is retired when no row of any table is under it.
BacksNothing(after, d) == \A c \in Cells : after[c].dek # d

ReencryptSecrets(t) ==
    LET done  == sealing[t].done
        after == [c \in Cells |-> IF c \in DOMAIN done THEN done[c] ELSE cells[c]]
    IN  /\ sealing[t].pc = "reenc" /\ sealing[t].table > Len(dekReencTargets)
        /\ cells' = after /\ locked' = Unlock(t)
        /\ deks' = [d \in DekIds |-> IF deks[d].state = "draining" /\ BacksNothing(after, d)
                                     THEN [deks[d] EXCEPT !.state = "retired"] ELSE deks[d]]
        /\ sealing' = [sealing EXCEPT ![t] = Quiet]
        /\ UNCHANGED <<value, database, keyVars>>

\* One row that does not open, or a lost connection, rolls all of it back.
ReencryptFails(t) ==
    /\ sealing[t].pc = "reenc"
    /\ sealing' = [sealing EXCEPT ![t] = Quiet] /\ locked' = Unlock(t)
    /\ UNCHANGED <<deks, cells, value, database, keyVars>>

(***************************************************************************)
(* The custody key.  The operator makes a new version, runs the rotations  *)
(* and then lets the old versions go.                                      *)
(***************************************************************************)
\* A bootstrap token that is issued again is wrapped under the current version.
ResealBootstrapKey ==
    /\ envelopes["bootstrap"] # kek.now
    /\ envelopes' = [envelopes EXCEPT !["bootstrap"] = kek.now]
    /\ UNCHANGED <<deks, cells, locked, sealing, value, database, kek>>

\* While no request is open: one that has wrapped a fresh key already and
\* commits after RotateKEK would not be seen by it.
NewKekVersion ==
    /\ kek.now < MaxKeks /\ \A t \in SecretTxns : sealing[t] = Quiet
    /\ kek' = [kek EXCEPT !.now = @ + 1, !.orgDone = FALSE, !.globalDone = FALSE]
    /\ UNCHANGED <<deks, cells, locked, sealing, value, database, envelopes>>

\* Mutant: only the key that new writes use is wrapped again.
ActiveOnly == Active

\* Every key of the organisation, whatever its state.
RewrappedDeks == {d \in DekIds : deks[d].state # "none"}

Rewrap(E) == [e \in Envelopes |-> IF e \in E THEN kek.now ELSE envelopes[e]]

RotateKEK ==
    /\ ~kek.orgDone
    /\ deks' = [d \in DekIds |-> IF d \in RewrappedDeks THEN [deks[d] EXCEPT !.kek = kek.now] ELSE deks[d]]
    /\ envelopes' = Rewrap(OrgEnvelopes) /\ kek' = [kek EXCEPT !.orgDone = TRUE]
    /\ UNCHANGED <<cells, locked, sealing, value, database>>

RotateGlobalKEK ==
    /\ ~kek.globalDone
    /\ envelopes' = Rewrap(GlobalEnvelopes) /\ kek' = [kek EXCEPT !.globalDone = TRUE]
    /\ UNCHANGED <<deks, cells, locked, sealing, value, database>>

PruneKek ==
    /\ kek.orgDone /\ kek.globalDone /\ kek.oldest < kek.now
    /\ kek' = [kek EXCEPT !.oldest = kek.now]
    /\ UNCHANGED <<deks, cells, locked, sealing, value, database, envelopes>>

(***************************************************************************)
(* Reading.                                                                *)
(***************************************************************************)
\* The custody opens what a version it still has has wrapped.
Unwrap(version) == version >= kek.oldest

\* The key of a row, retired or not.
dekPlaintext(d) == deks[d].state # "none" /\ Unwrap(deks[d].kek)

\* What an agent of the app gets: nothing without the row, else its value.
ResolveSecretsForResource ==
    IF cells["secret"].dek = 0 THEN {} ELSE {cells["secret"].value}

SecretsNext ==
    \/ \E t \in SecretTxns : \/ CreateSecret(t) \/ UpdateSecretValue(t) \/ ensureRepoKey(t)
                             \/ CommitWrite(t) \/ AbortWrite(t) \/ DeleteSecret(t)
                             \/ ArchiveRepoKeys(t) \/ DeleteWithArchive(t)
                             \/ RotateDEK(t) \/ ReencRead(t) \/ ReencWrite(t)
                             \/ ReencryptSecrets(t) \/ ReencryptFails(t)
    \/ ResealBootstrapKey \/ NewKekVersion \/ RotateKEK \/ RotateGlobalKEK \/ PruneKek

SecretsSpec == SecretsInit /\ [][SecretsNext]_secretVars

SecretsTypeOK ==
    /\ deks \in [DekIds -> [state : {"none", "active", "draining", "retired"}, kek : 0..MaxKeks]]
    /\ cells \in [Cells -> [dek : 0..MaxDeks, value : 0..MaxUpdates]]
    /\ locked \in [Cells -> SecretTxns \cup {NoOneT}] /\ value \in 0..MaxUpdates
    /\ envelopes \in [Envelopes -> 1..MaxKeks]

\* Every ciphertext opens, the archived repository keys included, whatever was
\* rotated, rolled back or pruned: its data key is there and is wrapped under
\* a version of the custody key that was not let go.
EveryCiphertextOpens == \A c \in Cells : cells[c].dek # 0 => dekPlaintext(cells[c].dek)

\* What the rotation knows of is not stranded by a prune.
EnvelopesOpen == \A e \in OrgEnvelopes \cup GlobalEnvelopes : Unwrap(envelopes[e])

\* "idempotent and safe to run repeatedly": re-encrypting changes the key a
\* value is under and never the value, so that an update that was answered
\* with success is not undone.
UpdatesSurvive == ResolveSecretsForResource \subseteq {value}

\* "retired => backs nothing".
RetiredBacksNothing ==
    \A c \in Cells : cells[c].dek # 0 => deks[cells[c].dek].state # "retired"
=============================================================================
