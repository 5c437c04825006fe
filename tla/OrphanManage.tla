---------------------------- MODULE OrphanManage ----------------------------
(***************************************************************************)
(* The orphan-block buffer of the chain (protocol.OrphanManage).  Its      *)
(* implementation file is not part of this repository; the operations are *)
(* modelled from spec.md section 4.3 and the expectations of               *)
(* protocol/orphan_manage_test.go.                                         *)
(*                                                                         *)
(* The buffer is a pair of maps kept in lockstep:                          *)
(*   orphan      : block hash  -> expiration time                          *)
(*   prevOrphans : parent hash -> sequence of waiting block hashes         *)
(* Blocks and hashes are identified: a block is named by its hash, and     *)
(* Parent[b] is its PreviousBlockHash.                                     *)
(***************************************************************************)
EXTENDS Naturals, FiniteSets, Sequences, SequencesExt, Functions

CONSTANTS
    Blocks,     \* hashes of the non-genesis blocks the network can deliver
    Genesis,    \* hash of the genesis block
    Parent,     \* Parent[b]: the PreviousBlockHash of block b
    OrphanTTL   \* orphanBlockTTL, in ticks of the model clock

Hashes == Blocks \cup {Genesis}

ASSUME Parent \in [Blocks -> Hashes]
ASSUME OrphanTTL \in Nat \ {0}

\* The empty orphan manager (NewOrphanManage).
EmptyOrphanManage == [orphan |-> <<>>, prevOrphans |-> <<>>]

\* Add(block): idempotent on a tracked hash; otherwise record the block with
\* a fresh deadline and append its hash to its parent's waiting list.
OMAdd(om, b, now) ==
    IF b \in DOMAIN om.orphan THEN om
    ELSE LET p == Parent[b]
             waiting == IF p \in DOMAIN om.prevOrphans
                        THEN [om.prevOrphans EXCEPT ![p] = Append(@, b)]
                        ELSE om.prevOrphans @@ (p :> <<b>>)
         IN [orphan |-> om.orphan @@ (b :> now + OrphanTTL),
             prevOrphans |-> waiting]

\* A delete that leaves an emptied waiting list behind under its key.
OMDeleteMutantKeepEmpty(om, h) ==
    IF h \notin DOMAIN om.orphan THEN om
    ELSE [orphan |-> Restrict(om.orphan, DOMAIN om.orphan \ {h}),
          prevOrphans |-> [om.prevOrphans EXCEPT
                              ![Parent[h]] = Remove(@, h)]]

\* delete(hash): drop the entry and its place in the parent's list; a list
\* that becomes empty is removed with its key.  Unknown hashes are ignored.
OMDelete(om, h) ==
    IF h \notin DOMAIN om.orphan THEN om
    ELSE LET p == Parent[h]
             rest == Remove(om.prevOrphans[p], h)
             waiting == IF rest = <<>>
                        THEN Restrict(om.prevOrphans, DOMAIN om.prevOrphans \ {p})
                        ELSE [om.prevOrphans EXCEPT ![p] = rest]
         IN [orphan |-> Restrict(om.orphan, DOMAIN om.orphan \ {h}),
             prevOrphans |-> waiting]

\* orphanExpire(now): delete every orphan whose deadline is at or before now.
RECURSIVE OMDeleteAll(_, _)
OMDeleteAll(om, S) ==
    IF S = {} THEN om
    ELSE LET h == CHOOSE x \in S : TRUE
         IN OMDeleteAll(OMDelete(om, h), S \ {h})

Expired(om, now) == {h \in DOMAIN om.orphan : om.orphan[h] <= now}

OMExpire(om, now) == OMDeleteAll(om, Expired(om, now))

\* GetPrevOrphans(hash): the hashes waiting on hash, in arrival order.
OMPrevOrphans(om, h) ==
    IF h \in DOMAIN om.prevOrphans THEN om.prevOrphans[h] ELSE <<>>

\* The two maps are in lockstep: each waiting list is non-empty, holds only
\* tracked orphans of that parent, and each tracked orphan occurs exactly
\* once, in the list of its own parent.
OMConsistent(om) ==
    /\ \A p \in DOMAIN om.prevOrphans :
          /\ om.prevOrphans[p] # <<>>
          /\ \A i \in 1..Len(om.prevOrphans[p]) :
                LET h == om.prevOrphans[p][i]
                IN h \in DOMAIN om.orphan /\ Parent[h] = p
    /\ \A h \in DOMAIN om.orphan :
          /\ Parent[h] \in DOMAIN om.prevOrphans
          /\ Cardinality({i \in 1..Len(om.prevOrphans[Parent[h]]) :
                             om.prevOrphans[Parent[h]][i] = h}) = 1
=============================================================================
