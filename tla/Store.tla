------------------------------- MODULE Store --------------------------------
(***************************************************************************)
(* internal/store/sqlite.go: the versioned resource table behind the       *)
(* Store interface (store.go).  Every call runs as one SQLite transaction  *)
(* and the pool holds a single connection (SetMaxOpenConns(1)), so a call  *)
(* is one atomic step here.                                                *)
(*                                                                         *)
(* What a key is, is left to the modules that use the table: ControlPlane  *)
(* leaves the tenant out of it, Rpc does not.  The data blob is the two    *)
(* parts of the message that are told apart, its spec and its status.      *)
(***************************************************************************)
EXTENDS Naturals

CONSTANTS
    NoRow       \* the value of a key the table holds no row for

VARIABLES
    rows,       \* rows[k]: the row stored under key k, or NoRow
    nextUid,    \* the UUID the next Create assigns: fresh, so a counter
    retired     \* history: the keys that have been deleted at least once

storeVars == <<rows, nextUid, retired>>

Present(k) == rows[k] # NoRow

NewRow(uid, rv, gen, spec, status) ==
    [uid |-> uid, rv |-> rv, gen |-> gen, spec |-> spec, status |-> status]

initialVersion == 1

-----------------------------------------------------------------------------
(* Mutant: the initial version is never stamped. *)
Create_NoVersion(k, gen, spec, status) ==
    /\ ~Present(k)
    /\ rows' = [rows EXCEPT ![k] = NewRow(nextUid, 0, gen, spec, status)]
    /\ nextUid' = nextUid + 1
    /\ UNCHANGED retired

(* Create: refused with ErrAlreadyExists when the key is taken; otherwise  *)
(* the row gets a fresh UID and the initial version, whatever versions an  *)
(* earlier row of that key went through.                                   *)
Create(k, gen, spec, status) ==
    /\ ~Present(k)
    /\ rows' = [rows EXCEPT ![k] = NewRow(nextUid, initialVersion, gen, spec, status)]
    /\ nextUid' = nextUid + 1
    /\ UNCHANGED retired

(* Mutant: an update overwrites whatever version is stored. *)
VersionMatches_Any(k, rv) == Present(k)

(* The compare of the compare-and-swap: the version alone, not the UID. *)
VersionMatches(k, rv) == Present(k) /\ rows[k].rv = rv

(* Mutant: the version is compared but not bumped. *)
Update_NoBump(k, rv, gen, spec, status) ==
    /\ VersionMatches(k, rv)
    /\ rows' = [rows EXCEPT ![k] = NewRow(rows[k].uid, rows[k].rv, gen, spec, status)]
    /\ UNCHANGED <<nextUid, retired>>

(* Update: ErrNotFound and ErrConflict leave the table alone; a match      *)
(* replaces generation and data, keeps the UID and bumps the version.      *)
Update(k, rv, gen, spec, status) ==
    /\ VersionMatches(k, rv)
    /\ rows' = [rows EXCEPT ![k] = NewRow(rows[k].uid, rows[k].rv + 1, gen, spec, status)]
    /\ UNCHANGED <<nextUid, retired>>

(* Delete: an unconditional hard delete of the row. *)
Delete(k) ==
    /\ Present(k)
    /\ rows' = [rows EXCEPT ![k] = NoRow]
    /\ retired' = retired \union {k}
    /\ UNCHANGED nextUid
=============================================================================
