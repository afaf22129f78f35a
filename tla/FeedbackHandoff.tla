--------------------------- MODULE FeedbackHandoff ---------------------------
(***************************************************************************)
(* What the review loop promises about Feedback, whatever the daemon does  *)
(* inside (ADR 0009): per review a FIFO of pending Feedback, handed to the *)
(* agent in batches.  A batch is everything pending at that moment, and a  *)
(* Feedback is in at most one batch, once.  A daemon restart may drop what *)
(* is pending (ADR 0002) but never what was handed out.                    *)
(***************************************************************************)
EXTENDS Naturals, Sequences

CONSTANTS Reviews,    \* the reviews, each with a pending FIFO of its own
          Items,      \* the Feedback a human may submit, each once
          Readers     \* the polls, each of which takes at most one batch

VARIABLES pending,    \* [Reviews -> Seq(Items)], submitted and not handed out
          batch,      \* [Readers -> Seq(Items)], what each reader was handed
          sent        \* the Items submitted so far

vars == <<pending, batch, sent>>

TypeOK == /\ pending \in [Reviews -> Seq(Items)]
          /\ batch \in [Readers -> Seq(Items)]
          /\ sent \subseteq Items

Init == /\ pending = [k \in Reviews |-> <<>>]
        /\ batch = [r \in Readers |-> <<>>]
        /\ sent = {}

Submit(k, i) == /\ i \notin sent
                /\ pending' = [pending EXCEPT ![k] = Append(@, i)]
                /\ sent' = sent \union {i}
                /\ UNCHANGED batch

HandOut(k, r) == /\ batch[r] = <<>>
                 /\ pending[k] # <<>>
                 /\ batch' = [batch EXCEPT ![r] = pending[k]]
                 /\ pending' = [pending EXCEPT ![k] = <<>>]
                 /\ UNCHANGED sent

Forget == /\ pending' = [k \in Reviews |-> <<>>]
          /\ UNCHANGED <<batch, sent>>

Next == \/ \E k \in Reviews, i \in Items : Submit(k, i)
        \/ \E k \in Reviews, r \in Readers : HandOut(k, r)
        \/ Forget

Spec == Init /\ [][Next]_vars

(***************************************************************************)
(* Where an Item can be: a position of a pending FIFO or of a batch.       *)
(***************************************************************************)
InPending(k, n, i) == n \in 1..Len(pending[k]) /\ pending[k][n] = i
InBatch(r, n, i) == n \in 1..Len(batch[r]) /\ batch[r][n] = i

OnlySent == /\ \A k \in Reviews, n \in Nat, i \in Items : InPending(k, n, i) => i \in sent
            /\ \A r \in Readers, n \in Nat, i \in Items : InBatch(r, n, i) => i \in sent

OncePending == \A k, l \in Reviews, m, n \in Nat, i \in Items :
                  InPending(k, m, i) /\ InPending(l, n, i) => k = l /\ m = n

OnceHanded == \A r, s \in Readers, m, n \in Nat, i \in Items :
                  InBatch(r, m, i) /\ InBatch(s, n, i) => r = s /\ m = n

NotBoth == \A k \in Reviews, r \in Readers, m, n \in Nat, i \in Items :
                  ~ (InPending(k, m, i) /\ InBatch(r, n, i))

(***************************************************************************)
(* No Feedback is handed out twice, to one poll or to two, and none is     *)
(* still queued after it was handed out: the drain-once promise of         *)
(* SessionStore.takeFeedback.                                              *)
(***************************************************************************)
AtMostOnce == OncePending /\ OnceHanded /\ NotBoth
==============================================================================
