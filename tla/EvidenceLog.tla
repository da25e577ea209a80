---------------------------- MODULE EvidenceLog ----------------------------
(***************************************************************************)
(* What EvidenceStorePort (ui_servo/ports/store.py) promises its callers:  *)
(* one stock of records, each admitted after every record already in it,   *)
(* none ever removed or changed, and reads that are a snapshot of the      *)
(* stock, whole turns at a time, at one instant between call and return.   *)
(***************************************************************************)
EXTENDS Naturals

CONSTANTS Proc,    \* threads of control that hold a store
          Turn     \* turn identifiers

VARIABLES stock,   \* the admitted records
          view     \* view[p]: what p's latest completed read was told

logVars == <<stock, view>>

NoView == [turns |-> {}, recs |-> {}]

LogInit ==
    /\ stock = {}
    /\ view = [p \in Proc |-> NoView]

(* One more record, numbered above every record already admitted.          *)
Admit ==
    /\ \E r \in stock' \ stock :
          /\ stock' = stock \cup {r}
          /\ \A s \in stock : s.seq < r.seq
    /\ UNCHANGED view

Snapshot(T) == [turns |-> T, recs |-> {r \in stock : r.turn \in T}]

Read(p) ==
    /\ \E T \in SUBSET Turn : view' = [view EXCEPT ![p] = Snapshot(T)]
    /\ UNCHANGED stock

LogNext == Admit \/ \E p \in Proc : Read(p)

LogSpec == LogInit /\ [][LogNext]_logVars
=============================================================================
