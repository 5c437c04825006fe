------------------------------- MODULE Stratum -------------------------------
(***************************************************************************)
(* The stratum side of the pool (stratum/ey): the node syncer that pulls   *)
(* block templates from the node over RPC (fetchBlockTemplate, Pull) and   *)
(* submits solved headers (Submit), the template comparison that decides  *)
(* whether a pulled template replaces the served one (Compare), and the    *)
(* jobs cut from the served template for each miner session (CreateJob).  *)
(*                                                                         *)
(* The server loop that calls Pull, Compare and CreateJob lives in the     *)
(* stratum package, which is not part of this repository.  It is the      *)
(* environment here (Install, SendJob), taken from spec.md section 4       *)
(* ("Block-template comparison"): a pulled template is installed when none *)
(* is served or when Compare returns -1, and every session is then sent a *)
(* job cut from the served template.                                       *)
(*                                                                         *)
(* The node is abstracted to its best block `tip`, which only moves to a   *)
(* block of greater height (the fork choice Chain.tla checks).  A template *)
(* and a job keep the two header fields the properties tell apart: the    *)
(* height and the previous-block hash; version, timestamp, merkle roots,  *)
(* bits, seed, the session's nonce and difficulty are copied alongside    *)
(* them by the code and left out here, and so is the job's encoding on    *)
(* the wire (genReplyData), a copy of the same fields.                     *)
(***************************************************************************)
EXTENDS Integers

CONSTANTS
    Blocks,       \* hashes of the non-genesis blocks
    Genesis,      \* hash of the genesis block
    Parent,       \* Parent[b]: the PreviousBlockHash of b
    Pullers,      \* goroutines that may call Pull concurrently
    Sessions,     \* connected miner sessions
    NoTemplate,   \* no template served yet
    NoJob,        \* a session that has not been sent a job
    MaxRpcFail    \* bound on failed RPC calls (GetWork and SubmitBlock)

Hashes == Blocks \cup {Genesis}

ASSUME Parent \in [Blocks -> Hashes]
ASSUME MaxRpcFail \in Nat

HeightOf[b \in Hashes] == IF b = Genesis THEN 0 ELSE HeightOf[Parent[b]] + 1

VARIABLES
    tip,        \* the node's best block
    pull,       \* pull[p]: idle, GetWork in flight ("sent"), or the reply
    cur,        \* the served block template, or NoTemplate
    notify,     \* sessions still to be sent a job cut from cur
    jobs,       \* jobs[s]: the job session s's miner works on
    submitted,  \* submitted[s]: what the last Submit of s returned
    rpcFails    \* failed RPC calls so far

vars == <<tip, pull, cur, notify, jobs, submitted, rpcFails>>

\* eyBlockTemplate and eyJob, restricted to the fields that matter here.
Template == [height : Nat, previousBlockHash : Hashes]

\* A reply of client.GetWork: an RPC error, a reply whose BlockHeader is
\* nil, or the header of the node's next block on top of `prev`.
Reply == [kind : {"rpcErr", "nilHeader"}] \cup [kind : {"ok"}, prev : Hashes]
PullState == [kind : {"idle", "sent"}] \cup Reply

\* A fetch that does not check for a nil header and copies the zero header.
FetchBlockTemplateMutantNoNilCheck(r) ==
    CASE r.kind = "rpcErr" -> [err |-> "rpc"]
      [] r.kind = "nilHeader" -> [err |-> "none",
                                  bt |-> [height |-> 0, previousBlockHash |-> NoTemplate]]
      [] r.kind = "ok"       -> [err |-> "none",
                                 bt |-> [height |-> HeightOf[r.prev] + 1,
                                         previousBlockHash |-> r.prev]]

(***************************************************************************)
(* fetchBlockTemplate: the RPC error is returned as is, a nil header is   *)
(* ErrNullBlockHeader, and otherwise the template copies the header.       *)
(***************************************************************************)
FetchBlockTemplate(r) ==
    CASE r.kind = "rpcErr"    -> [err |-> "rpc"]
      [] r.kind = "nilHeader" -> [err |-> "ErrNullBlockHeader"]
      [] r.kind = "ok"        -> [err |-> "none",
                                  bt |-> [height |-> HeightOf[r.prev] + 1,
                                          previousBlockHash |-> r.prev]]

\* A comparison whose first test reads the receiver's hash twice.
CompareMutantSelf(b, t) ==
    IF b # NoTemplate /\ b.previousBlockHash = b.previousBlockHash THEN 0
    ELSE -1

(***************************************************************************)
(* Compare (receiver b is the served template, t the pulled one): equal   *)
(* previous-block hashes give 0; otherwise b.height is read (a nil b      *)
(* panics there) and, whatever the heights, -1: "update".                 *)
(***************************************************************************)
Compare(b, t) ==
    CASE b # NoTemplate /\ b.previousBlockHash = t.previousBlockHash -> 0
      [] b = NoTemplate -> "panic"
      [] OTHER -> -1

\* CreateJob: the template's header fields.
CreateJob(b, s) ==
    [height |-> b.height, previousBlockHash |-> b.previousBlockHash]

(***************************************************************************)
(* The node.  Its best block moves to any block of greater height: blocks *)
(* from other miners, including a switch to another branch.                *)
(***************************************************************************)
NodeAdvance ==
    /\ \E b \in Blocks :
          /\ HeightOf[b] > HeightOf[tip]
          /\ tip' = b
    /\ UNCHANGED <<pull, cur, notify, jobs, submitted, rpcFails>>

\* Pull: a puller sends GetWork.
PullStart(p) ==
    /\ pull[p].kind = "idle"
    /\ pull' = [pull EXCEPT ![p] = [kind |-> "sent"]]
    /\ UNCHANGED <<tip, cur, notify, jobs, submitted, rpcFails>>

\* The node answers GetWork from its best block at the time it answers, or
\* the call fails (transport error, or a reply without a header).
GetWork(p) ==
    /\ pull[p].kind = "sent"
    /\ \/ pull' = [pull EXCEPT ![p] = [kind |-> "ok", prev |-> tip]]
          /\ UNCHANGED rpcFails
       \/ /\ rpcFails < MaxRpcFail
          /\ \E k \in {"rpcErr", "nilHeader"} :
                pull' = [pull EXCEPT ![p] = [kind |-> k]]
          /\ rpcFails' = rpcFails + 1
    /\ UNCHANGED <<tip, cur, notify, jobs, submitted>>

\* The server loop installs a template and queues a job for every session.
Install(t) == cur' = t /\ notify' = Sessions

(***************************************************************************)
(* Pull returns: fetchBlockTemplate turns the reply into a template or an *)
(* error, and the server loop installs the template when none is served   *)
(* or when Compare(cur, template) is -1.  An error leaves the served       *)
(* template alone.                                                         *)
(***************************************************************************)
PullDone(p) ==
    /\ pull[p].kind \notin {"idle", "sent"}
    /\ pull' = [pull EXCEPT ![p] = [kind |-> "idle"]]
    /\ LET f == FetchBlockTemplate(pull[p])
       IN IF f.err = "none" /\ (cur = NoTemplate \/ Compare(cur, f.bt) = -1)
          THEN Install(f.bt)
          ELSE UNCHANGED <<cur, notify>>
    /\ UNCHANGED <<tip, jobs, submitted, rpcFails>>

\* The server loop cuts session s a job from the served template and
\* sends it to the miner.
SendJob(s) ==
    /\ s \in notify
    /\ jobs' = [jobs EXCEPT ![s] = CreateJob(cur, s)]
    /\ notify' = notify \ {s}
    /\ UNCHANGED <<tip, pull, cur, submitted, rpcFails>>

(***************************************************************************)
(* Submit: a miner of session s solved its job and the syncer sends the   *)
(* header built from it with SubmitBlock.  The node accepts it when it    *)
(* extends its best block, and the block becomes the best.  A transport   *)
(* or decoding error is returned; a false result is only logged, and nil   *)
(* returned.                                                               *)
(***************************************************************************)
Submit(s) ==
    /\ jobs[s] # NoJob
    /\ \/ /\ rpcFails < MaxRpcFail
          /\ rpcFails' = rpcFails + 1
          /\ submitted' = [submitted EXCEPT ![s] = "err"]
          /\ UNCHANGED tip
       \/ /\ jobs[s].previousBlockHash = tip
          /\ \E b \in Blocks :
                /\ Parent[b] = tip
                /\ tip' = b
          /\ submitted' = [submitted EXCEPT ![s] = "nil"]
          /\ UNCHANGED rpcFails
       \/ /\ jobs[s].previousBlockHash # tip
          /\ submitted' = [submitted EXCEPT ![s] = "nil"]
          /\ UNCHANGED <<tip, rpcFails>>
    /\ UNCHANGED <<pull, cur, notify, jobs>>

(***************************************************************************)
(* NewBtmcNodeSyncer: no pull in flight, nothing served; the node is at   *)
(* some block; no session has been sent anything.                         *)
(***************************************************************************)
Init ==
    /\ tip \in Hashes
    /\ pull = [p \in Pullers |-> [kind |-> "idle"]]
    /\ cur = NoTemplate
    /\ notify = {}
    /\ jobs = [s \in Sessions |-> NoJob]
    /\ submitted = [s \in Sessions |-> "none"]
    /\ rpcFails = 0

Puller(p) == PullStart(p) \/ GetWork(p) \/ PullDone(p)

Next ==
    \/ NodeAdvance
    \/ \E p \in Pullers : Puller(p)
    \/ \E s \in Sessions : SendJob(s) \/ Submit(s)

(***************************************************************************)
(* Fairness: the server loop pulls again and again, the node answers an   *)
(* RPC it was sent, and a queued job is sent.  Miners' shares and other   *)
(* nodes' blocks get no fairness.                                          *)
(***************************************************************************)
Fairness ==
    /\ \A p \in Pullers : WF_vars(Puller(p))
    /\ \A s \in Sessions : WF_vars(SendJob(s))

Spec == Init /\ [][Next]_vars /\ Fairness

-----------------------------------------------------------------------------
(* Properties *)

TypeOK ==
    /\ tip \in Hashes
    /\ pull \in [Pullers -> PullState]
    /\ cur \in Template \cup {NoTemplate}
    /\ notify \subseteq Sessions
    /\ jobs \in [Sessions -> Template \cup {NoJob}]
    /\ submitted \in [Sessions -> {"none", "nil", "err"}]
    /\ rpcFails \in 0..MaxRpcFail

\* The served template and the job of every miner build on block b.
BuildsOn(b) ==
    /\ cur # NoTemplate
    /\ cur.previousBlockHash = b
    /\ \A s \in Sessions : jobs[s] # NoJob /\ jobs[s].previousBlockHash = b

(***************************************************************************)
(* Stale work is replaced: whenever the node stays on a best block, the   *)
(* served template, and the job every miner holds, eventually build on it *)
(* (Pull, Compare's previous-hash test and the job broadcast together),   *)
(* with pulls overlapping and RPCs failing.  tip = b ~> (tip # b \/ Q) is  *)
(* written in the equivalent form []<>(tip # b \/ Q), which TLC checks    *)
(* without a tableau.                                                      *)
(***************************************************************************)
ServedTracksTip ==
    \A b \in Hashes :
        []<>(tip # b \/ BuildsOn(b))
=============================================================================
