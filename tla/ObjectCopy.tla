----------------------------- MODULE ObjectCopy -----------------------------
(***************************************************************************)
(* One OSD's copy of one key of a bucket that never had versioning, and    *)
(* what the OSD's handlers do to it.  A copy is the current ObjectMeta and *)
(* the stamp of the key's last delete (its tombstone).  Each handler runs  *)
(* under the key's lock, so its effect on the copy is one function of the  *)
(* copy and the request.                                                   *)
(*                                                                         *)
(* An ObjectMeta is reduced to what orders writes: the object's id, its    *)
(* stamp and its update stamp.  Id 0 is no object.                         *)
(***************************************************************************)
EXTENDS Naturals

Object == [id : Nat, stamp : Nat, upd : Nat]
None   == [id |-> 0, stamp |-> 0, upd |-> 0]
Copy   == [obj : Object, tomb : Nat]
Blank  == [obj |-> None, tomb |-> 0]

Larger(a, b) == IF a >= b THEN a ELSE b

\* write_order: by object (stamp, then id), then by update.
Older(a, b) == \/ a.stamp < b.stamp
               \/ a.stamp = b.stamp /\ a.id < b.id
               \/ a.stamp = b.stamp /\ a.id = b.id /\ a.upd < b.upd

\* Mutated forms, for the runs that show a property depends on them: a
\* tombstone of its own stamp lets a write through.
deleted_since_strict(tomb, in) == in.stamp # 0 /\ tomb > in.stamp

supersedes(stored, in)  == in.stamp # 0 /\ stored # None /\ Older(in, stored)
deleted_since(tomb, in) == in.stamp # 0 /\ tomb >= in.stamp

\* expected 0 is the empty id: any object may be replaced.  An update names
\* the object it read and requires it to exist.
precondition_holds(cur, expected) ==
    expected = 0 \/ (cur # None /\ cur.id = expected)

(***************************************************************************)
(* put_object_meta: superseded by a newer object or delete; else refused   *)
(* when the object it updates is not the one held; else written.           *)
(***************************************************************************)
PutSuperseded(cp, in) == supersedes(cp.obj, in) \/ deleted_since(cp.tomb, in)
PutApplies(cp, in, expected) ==
    ~PutSuperseded(cp, in) /\ precondition_holds(cp.obj, expected)
HeldStamp(cp) == Larger(cp.obj.stamp, cp.tomb)
put_object_meta(cp, in, expected) ==
    IF PutApplies(cp, in, expected) THEN [cp EXCEPT !.obj = in] ELSE cp

(***************************************************************************)
(* delete_object_meta: a copy holding a newer write keeps it; else the     *)
(* tombstone is raised, then, in a second store write, the object removed. *)
(***************************************************************************)
DeleteSuperseded(cp, stamp) == stamp # 0 /\ cp.obj # None /\ cp.obj.stamp > stamp
put_tombstone(cp, stamp)    == [cp EXCEPT !.tomb = Larger(cp.tomb, stamp)]
delete_object_meta(cp, stamp) ==
    IF DeleteSuperseded(cp, stamp)
    THEN cp
    ELSE [put_tombstone(cp, stamp) EXCEPT !.obj = None]

(***************************************************************************)
(* A copy's entry in its placement group's index: the object when there is *)
(* one, else the tombstone.  Entries are ordered by (stamp, tombstone, id, *)
(* update stamp): a delete wins a tie with an object of its stamp.         *)
(***************************************************************************)
Entry == [tombstone : BOOLEAN, obj : Object]
derive(cp) ==
    IF cp.obj # None
    THEN [tombstone |-> FALSE, obj |-> cp.obj]
    ELSE [tombstone |-> cp.tomb # 0, obj |-> [None EXCEPT !.stamp = cp.tomb]]
NoEntry(e) == ~e.tombstone /\ e.obj = None
EntryOlder(e, f) ==
    \/ e.obj.stamp < f.obj.stamp
    \/ e.obj.stamp = f.obj.stamp /\ ~e.tombstone /\ f.tombstone
    \/ e.tombstone = f.tombstone /\ Older(e.obj, f.obj)
=============================================================================
