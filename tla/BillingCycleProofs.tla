------------------------- MODULE BillingCycleProofs -------------------------
(***************************************************************************)
(* TypeOK, NumbersUnique, OneLiveBill, BillsAddUp, IssuedHistory and       *)
(* BillsMove, for any leases, bills, requests and kinds of lines.          *)
(*                                                                         *)
(* A publication writes the row it locked in an earlier step.  The         *)
(* induction keeps what makes that safe: its bill is still an unnumbered   *)
(* draft, because every other writer of a row needs the row's lock and a   *)
(* deletion waits for it.                                                  *)
(*                                                                         *)
(* That a total is not negative is no matter of a row's shape: it follows  *)
(* from the lines it is the sum of and what is paid, in the second layer.  *)
(***************************************************************************)
EXTENDS BillingCycle, FiniteSetTheorems, TLAPS

\* A bill row, its total of either sign.
Row == [status : BillStatuses, lease : Leases \cup {None}, lines : SUBSET LineKinds,
        total : Int, paid : Nat, number : Nat]

Shape ==
    /\ bill \in [Bills -> Row]
    /\ next \in Nat \ {0}
    /\ worker \in [Workers -> WorkerRow]
    /\ billLock \in [Bills -> Workers \cup {None}]

\* Whoever is about to number a bill has its row, and it is a draft.
Numbering ==
    \A w \in Workers : worker[w].pc = "number" =>
        /\ worker[w].bill \in Bills
        /\ billLock[worker[w].bill] = w
        /\ bill[worker[w].bill].status = "DRAFT"

Unnumbered == \A b \in Bills : bill[b].status \in {"NONE", "DRAFT"} => bill[b].number = 0

IInv == Shape /\ Numbering /\ Unnumbered /\ NumbersUnique /\ OneLiveBill

\* What a step may do to an issued bill.
Kept(old, row) ==
    old.number # 0 =>
        /\ row.number = old.number
        /\ row.lease = old.lease
        /\ row.lines \ CorrectionLines = old.lines \ CorrectionLines
        /\ old.lines \subseteq row.lines
        /\ row.status # "DRAFT"
        /\ row.status = "DELETED" /\ old.status # "DELETED" =>
              ~(old.paid > 0 \/ old.lines \cap CorrectionLines # {})

\* ... and to any.
Follows(old, row) ==
    /\ Kept(old, row)
    /\ row.status \in LiveBill => old.status \in LiveBill /\ row.lease = old.lease
    /\ row.status \in {"NONE", "DRAFT"} => row.number = 0

History == \A b \in Bills : Kept(bill[b], bill'[b])

----------------------------------------------------------------------------
(* Sums of lines.                                                          *)

\* There are five kinds of lines at most.
LEMMA FewKinds == IsFiniteSet(LineKinds)
<1>1. LineKinds \subseteq {"base", "charge", "discount", "increase"} \cup {"decrease"}
  BY LineKindsKnown DEF LineKinds
<1>2. IsFiniteSet({"base"} \cup {"charge"} \cup {"discount"} \cup {"increase"} \cup {"decrease"})
  BY FS_Singleton, FS_Union
<1>3. LineKinds \subseteq {"base"} \cup {"charge"} \cup {"discount"} \cup {"increase"} \cup {"decrease"}
  BY <1>1
<1> QED
  BY <1>2, <1>3, FS_Subset

\* The lines that add and the lines that reduce can be counted.
LEMMA LinesSum ==
    ASSUME NEW lines \in SUBSET LineKinds
    PROVE  /\ IsFiniteSet(lines \ Reductions) /\ IsFiniteSet(lines \cap Reductions)
           /\ Cardinality(lines \ Reductions) \in Nat /\ Cardinality(lines \cap Reductions) \in Nat
           /\ Sum(lines) \in Int
<1>1. IsFiniteSet(lines \ Reductions) /\ IsFiniteSet(lines \cap Reductions)
  BY FewKinds, FS_Subset
<1> QED
  BY <1>1, FS_CardinalityType DEF Sum

\* A line more makes the sum differ by its amount.
LEMMA SumOfMore ==
    ASSUME NEW lines \in SUBSET LineKinds, NEW line \in LineKinds, line \notin lines
    PROVE  Sum(lines \cup {line}) = Sum(lines) + Amount(line)
<1> DEFINE more == lines \cup {line}
<1>1. Cardinality(lines \ Reductions) \in Nat /\ Cardinality(lines \cap Reductions) \in Nat
  BY LinesSum
<1>2. CASE line \in Reductions
  <2>1. more \ Reductions = lines \ Reductions /\ more \cap Reductions = (lines \cap Reductions) \cup {line}
    BY <1>2
  <2>2. Cardinality(more \cap Reductions) = Cardinality(lines \cap Reductions) + 1
    BY <2>1, LinesSum, FS_AddElement
  <2> HIDE DEF more
  <2>3. Sum(more) = Cardinality(lines \ Reductions) - (Cardinality(lines \cap Reductions) + 1)
    BY <2>1, <2>2 DEF Sum
  <2>4. Sum(more) = Sum(lines) + Amount(line)
    BY <1>2, <1>1, <2>3 DEF Sum, Amount
  <2> QED
    BY <2>4 DEF more
<1>3. CASE line \notin Reductions
  <2>1. more \ Reductions = (lines \ Reductions) \cup {line} /\ more \cap Reductions = lines \cap Reductions
    BY <1>3
  <2>2. Cardinality(more \ Reductions) = Cardinality(lines \ Reductions) + 1
    BY <2>1, LinesSum, FS_AddElement
  <2> HIDE DEF more
  <2>3. Sum(more) = (Cardinality(lines \ Reductions) + 1) - Cardinality(lines \cap Reductions)
    BY <2>1, <2>2 DEF Sum
  <2>4. Sum(more) = Sum(lines) + Amount(line)
    BY <1>3, <1>1, <2>3 DEF Sum, Amount
  <2> QED
    BY <2>4 DEF more
<1> QED
  BY <1>2, <1>3

\* No line, and the line a bill is generated with.
LEMMA FirstSums == Sum({}) = 0 /\ Sum({"base"}) = 1
<1>1. Sum({}) = 0
  BY FS_EmptySet DEF Sum
<1>2. {} \cup {"base"} = {"base"} /\ "base" \in LineKinds /\ {} \in SUBSET LineKinds
  BY DEF LineKinds
<1>3. Sum({} \cup {"base"}) = Sum({}) + Amount("base")
  BY <1>2, SumOfMore
<1>4. Amount("base") = 1
  BY DEF Amount, Reductions
<1> QED
  BY <1>1, <1>2, <1>3, <1>4

----------------------------------------------------------------------------
(* Rows.                                                                   *)

\* A draft as it is inserted, its lines not summed yet.
New(lease, lines) == [NoBill EXCEPT !.status = "DRAFT", !.lease = lease, !.lines = lines]

LEMMA NewRow ==
    ASSUME NEW lease \in Leases \cup {None}, NEW lines \in SUBSET LineKinds
    PROVE  /\ New(lease, lines) \in Row /\ New(lease, lines).status = "DRAFT"
           /\ New(lease, lines).lease = lease /\ New(lease, lines).lines = lines
           /\ New(lease, lines).number = 0 /\ New(lease, lines).paid = 0
<1>1. NoBill \in Row /\ NoBill.number = 0 /\ NoBill.paid = 0
  BY DEF NoBill, Row, BillStatuses, LiveBill
<1>2. "DRAFT" \in BillStatuses
  BY DEF BillStatuses, LiveBill
<1> QED
  BY <1>1, <1>2 DEF Row, New

\* A row follows itself.
LEMMA SameRow ==
    ASSUME NEW r \in Row, r.status \in {"NONE", "DRAFT"} => r.number = 0
    PROVE  Follows(r, r)
  BY DEF Row, Follows, Kept

\* Settling writes the status only: cancelled stays, the rest is issued.
LEMMA SettledRow ==
    ASSUME NEW r \in Row
    PROVE  /\ Settled(r) \in Row
           /\ r.status # "CANCELLED" => Settled(r).status \in IssuedBill
           /\ Settled(r).lease = r.lease /\ Settled(r).lines = r.lines
           /\ Settled(r).number = r.number /\ Settled(r).paid = r.paid
  BY DEF Row, Settled, BillStatuses, LiveBill, IssuedBill, OpenBill

\* Recomputing writes the total only.
LEMMA RecomputedRow ==
    ASSUME NEW r \in Row
    PROVE  /\ Recomputed(r) \in Row
           /\ Recomputed(r).status = r.status
           /\ Recomputed(r).lease = r.lease /\ Recomputed(r).lines = r.lines
           /\ Recomputed(r).number = r.number /\ Recomputed(r).paid = r.paid
<1>1. Sum(r.lines) \in Int
  BY LinesSum DEF Row
<1> QED
  BY <1>1 DEF Row, Recomputed

\* A row with other lines.
LEMMA LinesRow ==
    ASSUME NEW r \in Row, NEW lines \in SUBSET LineKinds
    PROVE  LET s == [r EXCEPT !.lines = lines]
           IN  /\ s \in Row /\ s.lines = lines
               /\ s.status = r.status /\ s.lease = r.lease /\ s.number = r.number /\ s.paid = r.paid
  BY DEF Row

\* A row with another status.
LEMMA StatusRow ==
    ASSUME NEW r \in Row, NEW status \in BillStatuses
    PROVE  LET s == [r EXCEPT !.status = status]
           IN  /\ s \in Row /\ s.status = status
               /\ s.lines = r.lines /\ s.lease = r.lease /\ s.number = r.number /\ s.paid = r.paid
  BY DEF Row

----------------------------------------------------------------------------
(* One row is written.                                                     *)

\* A row that follows the old one keeps numbers unique, one live bill, and
\* history.
LEMMA RowWritten ==
    ASSUME IInv, NEW b \in Bills, NEW row \in Row, Follows(bill[b], row),
           row.number = bill[b].number, UNCHANGED next,
           bill' = [bill EXCEPT ![b] = row]
    PROVE  /\ bill' \in [Bills -> Row]
           /\ (Unnumbered /\ NumbersUnique /\ OneLiveBill)'
           /\ History
<1> USE DEF IInv
<1>1. bill' \in [Bills -> Row] /\ bill'[b] = row /\ \A c \in Bills : c # b => bill'[c] = bill[c]
  BY DEF Shape
<1>2. Unnumbered'
  BY <1>1 DEF Unnumbered, Follows
<1>3. NumbersUnique'
  <2>1. \A c \in Bills : bill'[c].number = bill[c].number
    BY <1>1
  <2> QED
    BY <2>1 DEF NumbersUnique, WasIssued
<1>4. OneLiveBill'
  <2>1. \A c \in Bills : bill'[c].status \in LiveBill =>
                            bill[c].status \in LiveBill /\ bill'[c].lease = bill[c].lease
    BY <1>1 DEF Follows
  <2> QED
    BY <2>1 DEF OneLiveBill
<1>5. History
  <2> SUFFICES ASSUME NEW c \in Bills PROVE Kept(bill[c], bill'[c])
    BY DEF History
  <2>1. CASE c = b
    BY <1>1, <2>1 DEF Follows
  <2>2. CASE c # b
    BY <1>1, <2>2, SameRow DEF Shape, Unnumbered, Follows
  <2> QED
    BY <2>1, <2>2
<1> QED
  BY <1>1, <1>2, <1>3, <1>4, <1>5

\* No row is written.
LEMMA NoRowWritten ==
    ASSUME IInv, UNCHANGED <<bill, next>>
    PROVE  (Unnumbered /\ NumbersUnique /\ OneLiveBill)' /\ History
<1>1. History
  BY SameRow DEF IInv, Shape, Unnumbered, Follows, History
<1> QED
  BY <1>1 DEF IInv, Unnumbered, NumbersUnique, WasIssued, OneLiveBill

\* The row is free: whoever is numbering has another one.
LEMMA FreeRowWritten ==
    ASSUME IInv, NEW b \in Bills, billLock[b] = None, UNCHANGED <<worker, billLock>>,
           \A c \in Bills : c # b => bill'[c] = bill[c]
    PROVE  Numbering'
  BY NoneIsNone DEF IInv, Shape, Numbering

----------------------------------------------------------------------------
(* What a request goes on with.                                            *)

\* The idle request is a request.
LEMMA IdleRow == Idle \in WorkerRow /\ Idle.pc = "idle"
  BY DEF Idle, WorkerRow

\* A request that is not numbering after its step leaves the others alone.
LEMMA RequestMoves ==
    ASSUME IInv, NEW w \in Workers, NEW r \in WorkerRow, r.pc # "number", Become(w, r),
           UNCHANGED billLock,
           \A c \in Bills : bill[c].status = "DRAFT" /\ billLock[c] # None => bill'[c] = bill[c]
    PROVE  worker' \in [Workers -> WorkerRow] /\ Numbering'
<1>1. worker' \in [Workers -> WorkerRow] /\ worker'[w] = r
      /\ \A v \in Workers : v # w => worker'[v] = worker[v]
  BY DEF IInv, Shape, Become
<1>2. Numbering'
  BY <1>1, NoneIsNone DEF IInv, Numbering
<1> QED
  BY <1>1, <1>2

\* ... and when it writes no row, that is all.
LEMMA QuietMove ==
    ASSUME IInv, NEW w \in Workers, NEW r \in WorkerRow, r.pc # "number", Become(w, r),
           UNCHANGED <<bill, next, billLock>>
    PROVE  IInv' /\ History
<1>1. worker' \in [Workers -> WorkerRow] /\ Numbering'
  BY RequestMoves
<1>2. (Unnumbered /\ NumbersUnique /\ OneLiveBill)' /\ History
  BY NoRowWritten
<1> QED
  BY <1>1, <1>2 DEF IInv, Shape

\* What is left of a list.
LEMMA NextLeaseRow ==
    ASSUME Shape, NEW w \in Workers
    PROVE  NextLease(w) \in WorkerRow /\ NextLease(w).pc # "number"
<1>1. worker[w] \in WorkerRow
  BY DEF Shape
<1>2. CASE worker[w].leases = {}
  BY <1>2, IdleRow DEF NextLease
<1>3. CASE worker[w].leases # {}
  BY <1>1, <1>3 DEF NextLease, WorkerRow
<1> QED
  BY <1>2, <1>3

----------------------------------------------------------------------------
(* generate.                                                               *)

\* The steps of generate that write no row.
LEMMA GenerateReads ==
    ASSUME IInv, NEW w \in Workers, GenerateBegin(w) \/ FindExisting(w) \/ CollectDraft(w)
    PROVE  IInv' /\ History
<1>1. worker[w] \in WorkerRow /\ UNCHANGED <<bill, next, billLock>>
  BY DEF GenerateBegin, FindExisting, CollectDraft, IInv, Shape
<1>2. CASE GenerateBegin(w)
  <2> PICK regenerate \in BOOLEAN :
          Become(w, [Idle EXCEPT !.pc = "lease", !.leases = Leases, !.regenerate = regenerate])
    BY <1>2 DEF GenerateBegin
  <2> DEFINE r == [Idle EXCEPT !.pc = "lease", !.leases = Leases, !.regenerate = regenerate]
  <2>1. r \in WorkerRow /\ r.pc # "number"
    BY IdleRow DEF WorkerRow
  <2> HIDE DEF r
  <2>2. Become(w, r)
    BY DEF r
  <2> QED
    BY <1>1, <2>1, <2>2, QuietMove
<1>3. CASE CollectDraft(w)
  <2> DEFINE r == [worker[w] EXCEPT !.pc = IF bill[worker[w].bill].status = "DRAFT" THEN "delete" ELSE "create"]
  <2>1. r \in WorkerRow /\ r.pc # "number"
    BY <1>1 DEF WorkerRow
  <2>2. Become(w, r)
    BY <1>3 DEF CollectDraft
  <2> HIDE DEF r
  <2> QED
    BY <1>1, <2>1, <2>2, QuietMove
<1>4. CASE FindExisting(w) /\ worker[w].leases = {}
  BY <1>1, <1>4, IdleRow, QuietMove DEF FindExisting
<1>5. CASE FindExisting(w) /\ worker[w].leases # {}
  <2> PICK l \in Upcoming(w) :
        LET turn == [worker[w] EXCEPT !.leases = @ \ {l}, !.lease = l]
            existing == {b \in Bills : /\ bill[b].status \in LiveBill
                                       /\ Tenancy[bill[b].lease] = Tenancy[l]} IN
        \/ /\ existing = {}
           /\ Become(w, [turn EXCEPT !.pc = "create"])
        \/ \E b \in existing :
           Become(w, IF bill[b].status = "DRAFT" /\ worker[w].regenerate
                     THEN [turn EXCEPT !.pc = "collect", !.bill = b]
                     ELSE [turn EXCEPT !.lease = None])
    BY <1>5 DEF FindExisting
  <2> DEFINE turn == [worker[w] EXCEPT !.leases = @ \ {l}, !.lease = l]
  <2>1. l \in Leases
    BY <1>1 DEF Upcoming, WorkerRow
  <2>2. worker[w].pc = "lease"
    BY <1>5 DEF FindExisting
  <2>3. turn \in WorkerRow /\ turn.pc = "lease"
    BY <1>1, <2>1, <2>2 DEF WorkerRow
  <2>4. \/ Become(w, [turn EXCEPT !.pc = "create"])
        \/ \E b \in Bills : Become(w, [turn EXCEPT !.pc = "collect", !.bill = b])
        \/ Become(w, [turn EXCEPT !.lease = None])
    OBVIOUS
  <2> HIDE DEF turn
  <2>5. [turn EXCEPT !.pc = "create"] \in WorkerRow /\ [turn EXCEPT !.pc = "create"].pc # "number"
    BY <2>3 DEF WorkerRow
  <2>6. [turn EXCEPT !.lease = None] \in WorkerRow /\ [turn EXCEPT !.lease = None].pc # "number"
    BY <2>3 DEF WorkerRow
  <2>7. \A b \in Bills : [turn EXCEPT !.pc = "collect", !.bill = b] \in WorkerRow
                         /\ [turn EXCEPT !.pc = "collect", !.bill = b].pc # "number"
    BY <2>3 DEF WorkerRow
  <2>8. PICK r \in WorkerRow : Become(w, r) /\ r.pc # "number"
    BY <2>4, <2>5, <2>6, <2>7
  <2> QED
    BY <1>1, <2>8, QuietMove
<1> QED
  BY <1>2, <1>3, <1>4, <1>5

\* A draft is deleted by its id, whatever became of it.
LEMMA Deletes ==
    ASSUME IInv, NEW w \in Workers, DeleteDraft(w), worker[w].bill \in Bills
    PROVE  IInv' /\ History
<1> DEFINE b == worker[w].bill
<1>1. worker[w] \in WorkerRow /\ billLock[b] = None /\ UNCHANGED <<next, billLock>> /\ bill[b] \in Row
  BY DEF DeleteDraft, IInv, Shape
<1>2. CASE Become(w, Idle) /\ UNCHANGED bill
  BY <1>1, <1>2, IdleRow, QuietMove
<1>3. CASE /\ ~Referenced(b)
           /\ bill' = [bill EXCEPT ![b].status = "DELETED"]
           /\ Become(w, [worker[w] EXCEPT !.pc = "create"])
  <2> DEFINE row == [bill[b] EXCEPT !.status = "DELETED"]
             r == [worker[w] EXCEPT !.pc = "create"]
  <2>1. r \in WorkerRow /\ r.pc # "number"
    BY <1>1 DEF WorkerRow
  <2>2. /\ row \in Row /\ row.status = "DELETED"
        /\ row.lines = bill[b].lines /\ row.lease = bill[b].lease /\ row.number = bill[b].number
    BY <1>1, StatusRow DEF BillStatuses
  <2>3. bill' = [bill EXCEPT ![b] = row]
    BY <1>3
  <2> HIDE DEF row
  <2>4. Follows(bill[b], row)
    BY <1>1, <1>3, <2>2 DEF Follows, Kept, Row, LiveBill, IssuedBill, OpenBill, Referenced
  <2>5. bill' \in [Bills -> Row] /\ (Unnumbered /\ NumbersUnique /\ OneLiveBill)' /\ History
    BY <1>1, <2>2, <2>3, <2>4, RowWritten
  <2>6. \A c \in Bills : c # b => bill'[c] = bill[c]
    BY <2>3 DEF IInv, Shape
  <2> HIDE DEF r
  <2>7. worker' \in [Workers -> WorkerRow] /\ Numbering'
    BY <1>1, <1>3, <2>1, <2>6, RequestMoves DEF r
  <2> QED
    BY <1>1, <2>5, <2>7 DEF IInv, Shape
<1> QED
  BY <1>2, <1>3 DEF DeleteDraft

\* A draft is inserted, past the unique constraint.
LEMMA Creates ==
    ASSUME IInv, NEW w \in Workers, CreateBill(w)
    PROVE  IInv' /\ History
<1> USE DEF IInv
<1> DEFINE l == worker[w].lease
           r == NextLease(w)
<1>1. r \in WorkerRow /\ r.pc # "number"
  BY NextLeaseRow
<1>2. Become(w, r) /\ UNCHANGED <<next, billLock>>
  BY DEF CreateBill, Skip
<1> HIDE DEF r
<1>3. CASE UNCHANGED bill
  BY <1>1, <1>2, <1>3, QuietMove
<1>4. CASE Insertable(l) /\ \E b \in Bills, lines \in {{}, {"base"}} :
               /\ bill[b].status = "NONE"
               /\ Put(b, Recomputed([NoBill EXCEPT !.status = "DRAFT", !.lease = l, !.lines = lines]))
  <2> PICK b \in Bills, lines \in {{}, {"base"}} :
               /\ bill[b].status = "NONE"
               /\ Put(b, Recomputed([NoBill EXCEPT !.status = "DRAFT", !.lease = l, !.lines = lines]))
    BY <1>4
  <2> DEFINE new == [NoBill EXCEPT !.status = "DRAFT", !.lease = l, !.lines = lines]
             row == Recomputed(new)
  <2>1. l \in Leases \cup {None}
    BY DEF Shape, WorkerRow
  <2>2. new \in Row /\ new.status = "DRAFT" /\ new.lease = l /\ new.number = 0
    <3>1. lines \in SUBSET LineKinds
      BY DEF LineKinds
    <3>2. new = New(l, lines)
      BY DEF New
    <3> HIDE DEF LineKinds, new, l
    <3> QED
      BY <2>1, <3>1, <3>2, NewRow
  <2> HIDE DEF new
  <2>3. row \in Row /\ row.status = "DRAFT" /\ row.lease = l /\ row.number = 0
    BY <2>2, RecomputedRow
  <2>4. bill' = [bill EXCEPT ![b] = row] /\ bill[b].status = "NONE" /\ bill[b].number = 0
    BY DEF Put, Unnumbered, new
  <2> HIDE DEF row
  <2>5. bill' \in [Bills -> Row] /\ bill'[b] = row /\ \A c \in Bills : c # b => bill'[c] = bill[c]
    BY <2>3, <2>4 DEF Shape
  <2>6. Unnumbered'
    BY <2>3, <2>5 DEF Unnumbered
  <2>7. NumbersUnique'
    <3>1. \A c \in Bills : bill'[c].number = bill[c].number
      BY <2>3, <2>4, <2>5
    <3> QED
      BY <1>2, <3>1 DEF NumbersUnique, WasIssued
  <2>8. OneLiveBill'
    <3>1. \A c \in Bills : ~(bill[c].status \in LiveBill /\ Tenancy[bill[c].lease] = Tenancy[l])
      BY <1>4 DEF Insertable, Billed
    <3> QED
      BY <2>3, <2>5, <3>1 DEF OneLiveBill
  <2>9. History
    <3> SUFFICES ASSUME NEW c \in Bills PROVE Kept(bill[c], bill'[c])
      BY DEF History
    <3>1. CASE c = b
      BY <2>4, <3>1 DEF Kept
    <3>2. CASE c # b
      BY <2>5, <3>2, SameRow DEF Shape, Unnumbered, Follows
    <3> QED
      BY <3>1, <3>2
  <2>10. worker' \in [Workers -> WorkerRow] /\ Numbering'
    BY <1>1, <1>2, <2>4, <2>5, RequestMoves
  <2> QED
    BY <1>2, <2>5, <2>6, <2>7, <2>8, <2>9, <2>10 DEF Shape
<1> QED
  BY <1>3, <1>4 DEF CreateBill

\* A deletion that holds no draft deletes nothing.
LEMMA DeletesNothing ==
    ASSUME IInv, NEW w \in Workers, DeleteDraft(w), worker[w].bill = None
    PROVE  IInv' /\ History
<1> DEFINE r == [worker[w] EXCEPT !.pc = "create"]
<1>1. bill' = bill /\ UNCHANGED <<next, billLock>>
  BY NoneIsNone DEF DeleteDraft, IInv, Shape
<1>2. r \in WorkerRow /\ r.pc # "number"
  BY DEF IInv, Shape, WorkerRow
<1>3. Become(w, Idle) \/ Become(w, r)
  BY DEF DeleteDraft
<1> HIDE DEF r
<1> QED
  BY <1>1, <1>2, <1>3, IdleRow, QuietMove

----------------------------------------------------------------------------
(* publish and publish_all.                                                *)

\* A request to publish begins.
LEMMA PublishBegins ==
    ASSUME IInv, NEW w \in Workers, PublishBegin(w)
    PROVE  IInv' /\ History
<1>1. PICK drafts \in SUBSET Bills : Become(w, [Idle EXCEPT !.pc = "publish", !.drafts = drafts])
  BY DEF PublishBegin, Drafts
<1> DEFINE r == [Idle EXCEPT !.pc = "publish", !.drafts = drafts]
<1>2. r \in WorkerRow /\ r.pc # "number"
  BY IdleRow DEF WorkerRow
<1> HIDE DEF r
<1>3. Become(w, r) /\ UNCHANGED <<bill, next, billLock>>
  BY <1>1 DEF PublishBegin, r
<1> QED
  BY <1>2, <1>3, QuietMove

\* It takes the row of a draft, or leaves the row alone.
LEMMA PublishLocks ==
    ASSUME IInv, NEW w \in Workers, PublishLock(w)
    PROVE  IInv' /\ History
<1> USE DEF IInv
<1>1. worker[w] \in WorkerRow /\ UNCHANGED <<bill, next>>
  BY DEF PublishLock, Shape
<1>2. CASE Become(w, Idle) /\ UNCHANGED billLock
  BY <1>1, <1>2, IdleRow, QuietMove
<1>3. ASSUME NEW b \in Bills, Become(w, [worker[w] EXCEPT !.drafts = @ \ {b}]), UNCHANGED billLock,
             worker[w].pc = "publish"
      PROVE  IInv' /\ History
  <2> DEFINE r == [worker[w] EXCEPT !.drafts = @ \ {b}]
  <2>1. r \in WorkerRow /\ r.pc # "number"
    BY <1>1, <1>3 DEF WorkerRow
  <2> HIDE DEF r
  <2>2. Become(w, r)
    BY <1>3 DEF r
  <2> QED
    BY <1>1, <1>3, <2>1, <2>2, QuietMove
<1>4. ASSUME NEW b \in Bills, billLock[b] = None, bill[b].status = "DRAFT",
             billLock' = [billLock EXCEPT ![b] = w],
             Become(w, [worker[w] EXCEPT !.pc = "number", !.drafts = @ \ {b}, !.bill = b, !.seen = next])
      PROVE  IInv' /\ History
  <2> DEFINE r == [worker[w] EXCEPT !.pc = "number", !.drafts = @ \ {b}, !.bill = b, !.seen = next]
  <2>1. r \in WorkerRow /\ r.bill = b
    BY <1>1, <1>4 DEF WorkerRow, Shape
  <2> HIDE DEF r
  <2>2. Become(w, r)
    BY <1>4 DEF r
  <2>3. worker' \in [Workers -> WorkerRow] /\ worker'[w] = r
        /\ \A v \in Workers : v # w => worker'[v] = worker[v]
    BY <2>1, <2>2 DEF Become, Shape
  <2>4. billLock' \in [Bills -> Workers \cup {None}] /\ billLock'[b] = w
        /\ \A c \in Bills : c # b => billLock'[c] = billLock[c]
    BY <1>4 DEF Shape
  <2>5. Numbering'
    BY <1>1, <1>4, <2>1, <2>3, <2>4, NoneIsNone DEF Numbering
  <2>6. (Unnumbered /\ NumbersUnique /\ OneLiveBill)' /\ History
    BY <1>1, NoRowWritten
  <2> QED
    BY <1>1, <2>3, <2>4, <2>5, <2>6 DEF Shape
<1> QED
  BY <1>1, <1>2, <1>3, <1>4 DEF PublishLock, WorkerRow

\* The bill it locked is still an unnumbered draft: it gets the next number.
LEMMA PublishCommits ==
    ASSUME IInv, NEW w \in Workers, PublishCommit(w)
    PROVE  IInv' /\ History
<1> USE DEF IInv
<1> DEFINE b == worker[w].bill
           issued == [bill[b] EXCEPT !.status = "PUBLISHED", !.number = NextValue(w)]
           row == Settled(issued)
           r == [worker[w] EXCEPT !.pc = "publish", !.bill = None, !.seen = 0]
<1>1. b \in Bills /\ billLock[b] = w /\ bill[b].status = "DRAFT" /\ bill[b] \in Row /\ bill[b].number = 0
  BY DEF PublishCommit, Numbering, Shape, Unnumbered
<1>2. worker[w] \in WorkerRow /\ next \in Nat \ {0}
  BY DEF Shape
<1>3. /\ bill' = [bill EXCEPT ![b] = row] /\ next' = next + 1
      /\ billLock' = [billLock EXCEPT ![b] = None] /\ Become(w, r)
  BY DEF PublishCommit, Put, NextValue
<1>4. issued \in Row /\ issued.status = "PUBLISHED" /\ issued.number = next /\ issued.lease = bill[b].lease
  BY <1>1, <1>2 DEF Row, BillStatuses, LiveBill, IssuedBill, OpenBill, NextValue
<1>5. r \in WorkerRow /\ r.pc # "number"
  BY <1>2 DEF WorkerRow
<1> HIDE DEF issued, r
<1>6. row \in Row /\ row.status \in IssuedBill /\ row.number = next /\ row.lease = bill[b].lease
  BY <1>4, SettledRow
<1> HIDE DEF row
<1>7. bill' \in [Bills -> Row] /\ bill'[b] = row /\ \A c \in Bills : c # b => bill'[c] = bill[c]
  BY <1>1, <1>3, <1>6 DEF Shape
<1>8. billLock' \in [Bills -> Workers \cup {None}] /\ \A c \in Bills : c # b => billLock'[c] = billLock[c]
  BY <1>1, <1>3 DEF Shape
<1>9. worker' \in [Workers -> WorkerRow] /\ worker'[w] = r
      /\ \A v \in Workers : v # w => worker'[v] = worker[v]
  BY <1>3, <1>5 DEF Become, Shape
<1>10. Numbering'
  <2> SUFFICES ASSUME NEW v \in Workers, worker'[v].pc = "number"
               PROVE  /\ worker'[v].bill \in Bills
                      /\ billLock'[worker'[v].bill] = v
                      /\ bill'[worker'[v].bill].status = "DRAFT"
    BY DEF Numbering
  <2>1. v # w /\ worker'[v] = worker[v]
    BY <1>5, <1>9
  <2>2. worker[v].bill \in Bills /\ billLock[worker[v].bill] = v /\ bill[worker[v].bill].status = "DRAFT"
    BY <2>1 DEF Numbering
  <2>3. worker[v].bill # b
    BY <1>1, <2>1, <2>2
  <2> QED
    BY <1>7, <1>8, <2>1, <2>2, <2>3
<1>11. Unnumbered'
  BY <1>6, <1>7 DEF Unnumbered, IssuedBill, OpenBill
<1>12. NumbersUnique'
  <2>1. \A c \in Bills : bill[c].number \in Nat /\ bill[c].number < next
    BY <1>2 DEF NumbersUnique, WasIssued, Shape, Row
  <2>2. \A c, d \in Bills : bill[c].number # 0 /\ bill[d].number = bill[c].number => c = d
    BY DEF NumbersUnique, WasIssued
  <2>3. \A c \in Bills : bill'[c].number < next'
    BY <1>2, <1>3, <1>6, <1>7, <2>1
  <2>4. ASSUME NEW c \in Bills, NEW d \in Bills, bill'[c].number # 0, bill'[d].number = bill'[c].number
        PROVE  c = d
    BY <1>2, <1>6, <1>7, <2>1, <2>2, <2>4
  <2>5. ASSUME NEW n \in 1..(next' - 1) PROVE \E c \in Bills : bill'[c].number = n
    <3>1. CASE n = next
      BY <1>1, <1>6, <1>7, <3>1
    <3>2. CASE n # next
      <4>1. n \in 1..(next - 1)
        BY <1>2, <1>3, <3>2
      <4>2. PICK c \in Bills : bill[c].number = n
        BY <4>1 DEF NumbersUnique
      <4>3. c # b
        BY <1>1, <4>1, <4>2
      <4> QED
        BY <1>7, <4>2, <4>3
    <3> QED
      BY <3>1, <3>2
  <2> QED
    BY <2>3, <2>4, <2>5 DEF NumbersUnique, WasIssued
<1>13. OneLiveBill'
  <2>1. \A c \in Bills : bill'[c].status \in LiveBill =>
                            bill[c].status \in LiveBill /\ bill'[c].lease = bill[c].lease
    BY <1>1, <1>6, <1>7 DEF LiveBill
  <2> QED
    BY <2>1 DEF OneLiveBill
<1>14. History
  <2> SUFFICES ASSUME NEW c \in Bills PROVE Kept(bill[c], bill'[c])
    BY DEF History
  <2>1. CASE c = b
    BY <1>1, <2>1 DEF Kept
  <2>2. CASE c # b
    BY <1>7, <2>2, SameRow DEF Shape, Unnumbered, Follows
  <2> QED
    BY <2>1, <2>2
<1> QED
  BY <1>2, <1>3, <1>7, <1>8, <1>9, <1>10, <1>11, <1>12, <1>13, <1>14 DEF Shape

\* A worker dies, and its rows are free again.
LEMMA Crashes ==
    ASSUME IInv, NEW w \in Workers, Crash(w)
    PROVE  IInv' /\ History
<1> USE DEF IInv
<1>1. worker' \in [Workers -> WorkerRow] /\ worker'[w] = Idle
      /\ \A v \in Workers : v # w => worker'[v] = worker[v]
  BY IdleRow DEF Crash, Become, Shape
<1>2. billLock' \in [Bills -> Workers \cup {None}]
      /\ \A c \in Bills : billLock[c] # w => billLock'[c] = billLock[c]
  BY DEF Crash, Shape
<1>3. UNCHANGED <<bill, next>>
  BY DEF Crash
<1>4. Numbering'
  BY <1>1, <1>2, <1>3, IdleRow DEF Numbering
<1>5. (Unnumbered /\ NumbersUnique /\ OneLiveBill)' /\ History
  BY <1>3, NoRowWritten
<1> QED
  BY <1>1, <1>2, <1>3, <1>4, <1>5 DEF Shape

----------------------------------------------------------------------------
(* The owner.                                                              *)

\* A free row is written: the new one follows the old.
LEMMA OwnerWrites ==
    ASSUME IInv, NEW b \in Bills, OwnerStep(b), NEW row \in Row, bill' = [bill EXCEPT ![b] = row],
           Follows(bill[b], row), row.number = bill[b].number
    PROVE  IInv' /\ History
<1>1. billLock[b] = None /\ UNCHANGED <<next, worker, billLock>>
  BY DEF OwnerStep
<1>2. bill' \in [Bills -> Row] /\ (Unnumbered /\ NumbersUnique /\ OneLiveBill)' /\ History
  BY <1>1, RowWritten
<1>3. \A c \in Bills : c # b => bill'[c] = bill[c]
  BY DEF IInv, Shape
<1>4. Numbering'
  BY <1>1, <1>3, FreeRowWritten
<1> QED
  BY <1>1, <1>2, <1>4 DEF IInv, Shape

\* Every edit of a bill.
LEMMA Edits ==
    ASSUME IInv, NEW b \in Bills, Edit(b)
    PROVE  IInv' /\ History
<1> USE DEF IInv
<1>1. bill[b] \in Row /\ (bill[b].status \in {"NONE", "DRAFT"} => bill[b].number = 0)
  BY DEF Shape, Unnumbered
<1>2. ASSUME NEW lines \in SUBSET LineKinds, OwnerStep(b), Editable(b),
             Put(b, Recomputed([bill[b] EXCEPT !.lines = lines]))
      PROVE  IInv' /\ History
  <2> DEFINE edited == [bill[b] EXCEPT !.lines = lines]
             row == Recomputed(edited)
  <2>1. /\ edited \in Row /\ edited.status = bill[b].status /\ edited.lease = bill[b].lease
        /\ edited.number = bill[b].number
    BY <1>1, LinesRow
  <2> HIDE DEF edited
  <2>2. /\ row \in Row /\ row.status = bill[b].status /\ row.lease = bill[b].lease
        /\ row.number = bill[b].number
    BY <2>1, RecomputedRow
  <2>3. bill' = [bill EXCEPT ![b] = row]
    BY <1>2 DEF Put, edited
  <2> HIDE DEF row
  <2>4. Follows(bill[b], row)
    BY <1>1, <1>2, <2>2 DEF Follows, Kept, Editable
  <2> QED
    BY <1>2, <2>2, <2>3, <2>4, OwnerWrites
<1>3. CASE \E line \in ManualLines : AddLine(b, line)
  BY <1>1, <1>2, <1>3 DEF AddLine, LineKinds, Row
<1>4. CASE \E line \in LineKinds : RemoveLine(b, line)
  BY <1>1, <1>2, <1>4 DEF RemoveLine, Row
<1>5. CASE \E line \in CorrectionLines : Correct(b, line)
  <2> PICK line \in CorrectionLines : Correct(b, line)
    BY <1>5
  <2> DEFINE lines == bill[b].lines \cup {line}
             added == [bill[b] EXCEPT !.lines = lines]
             summed == Recomputed(added)
             row == Settled(summed)
  <2>1. lines \in SUBSET LineKinds /\ lines \ CorrectionLines = bill[b].lines \ CorrectionLines
        /\ bill[b].lines \subseteq lines
    BY <1>1 DEF LineKinds, Row
  <2> HIDE DEF lines
  <2>2. /\ added \in Row /\ added.status = bill[b].status /\ added.lease = bill[b].lease
        /\ added.number = bill[b].number /\ added.lines = lines
    BY <1>1, <2>1, LinesRow
  <2> HIDE DEF added
  <2>3. /\ summed \in Row /\ summed.status = bill[b].status /\ summed.lease = bill[b].lease
        /\ summed.number = bill[b].number /\ summed.lines = lines
    BY <2>2, RecomputedRow
  <2> HIDE DEF summed
  <2>4. bill[b].status \in IssuedBill /\ OwnerStep(b)
    BY DEF Correct
  <2>5. /\ row \in Row /\ row.status \in IssuedBill /\ row.lease = bill[b].lease
        /\ row.number = bill[b].number /\ row.lines = lines
    BY <2>3, <2>4, SettledRow DEF IssuedBill, OpenBill
  <2>6. bill' = [bill EXCEPT ![b] = row]
    BY DEF Correct, Put, row, summed, added, lines
  <2> HIDE DEF row
  <2>7. Follows(bill[b], row)
    BY <2>1, <2>4, <2>5 DEF Follows, Kept, LiveBill, IssuedBill, OpenBill
  <2> QED
    BY <2>4, <2>5, <2>6, <2>7, OwnerWrites
<1>6. CASE CancelBill(b)
  <2> DEFINE row == [bill[b] EXCEPT !.status = "CANCELLED"]
  <2>1. /\ row \in Row /\ row.status = "CANCELLED"
        /\ row.lines = bill[b].lines /\ row.lease = bill[b].lease /\ row.number = bill[b].number
    BY <1>1, StatusRow DEF BillStatuses
  <2>2. OwnerStep(b) /\ bill' = [bill EXCEPT ![b] = row]
    BY <1>6 DEF CancelBill
  <2> HIDE DEF row
  <2>3. Follows(bill[b], row)
    BY <2>1 DEF Follows, Kept, LiveBill, IssuedBill, OpenBill
  <2> QED
    BY <2>1, <2>2, <2>3, OwnerWrites
<1>7. CASE \E m \in 1..2 : Pay(b, m)
  <2> PICK m \in 1..2 : Pay(b, m)
    BY <1>7
  <2> DEFINE paid == [bill[b] EXCEPT !.paid = @ + m]
             row == Settled(paid)
  <2>1. /\ paid \in Row /\ paid.status = bill[b].status /\ paid.lease = bill[b].lease
        /\ paid.number = bill[b].number /\ paid.lines = bill[b].lines
    <3>1. bill[b].paid + m \in Nat
      BY <1>1 DEF Row
    <3> QED
      BY <1>1, <3>1 DEF Row
  <2> HIDE DEF paid
  <2>2. bill[b].status \in OpenBill /\ OwnerStep(b)
    BY DEF Pay
  <2>3. /\ row \in Row /\ row.status \in IssuedBill /\ row.lease = bill[b].lease
        /\ row.number = bill[b].number /\ row.lines = bill[b].lines
    BY <2>1, <2>2, SettledRow DEF IssuedBill, OpenBill
  <2>4. bill' = [bill EXCEPT ![b] = row]
    BY DEF Pay, Put, row, paid
  <2> HIDE DEF row
  <2>5. Follows(bill[b], row)
    BY <2>2, <2>3 DEF Follows, Kept, LiveBill, IssuedBill, OpenBill
  <2> QED
    BY <2>2, <2>3, <2>4, <2>5, OwnerWrites
<1> QED
  BY <1>3, <1>4, <1>5, <1>6, <1>7 DEF Edit

----------------------------------------------------------------------------
(* The month.                                                              *)

\* The cycle's own steps, and none.
LEMMA CycleSteps ==
    ASSUME IInv, OpenCycle \/ Close \/ UNCHANGED vars
    PROVE  IInv' /\ History
<1>1. UNCHANGED <<bill, next, worker, billLock>>
  BY DEF OpenCycle, Close, vars
<1>2. (Unnumbered /\ NumbersUnique /\ OneLiveBill)' /\ History
  BY <1>1, NoRowWritten
<1> QED
  BY <1>1, <1>2 DEF IInv, Shape, Numbering

\* Every step keeps the invariant and the history of issued bills.
LEMMA NextIInv == IInv /\ [Next]_vars => IInv' /\ History
<1> SUFFICES ASSUME IInv, [Next]_vars PROVE IInv' /\ History
  OBVIOUS
<1>1. CASE \E w \in Workers : Generate(w) \/ Publish(w) \/ Crash(w)
  <2> PICK w \in Workers : Generate(w) \/ Publish(w) \/ Crash(w)
    BY <1>1
  <2>1. worker[w].bill \in Bills \cup {None}
    BY DEF IInv, Shape, WorkerRow
  <2> QED
    BY <2>1, GenerateReads, Deletes, DeletesNothing, Creates, PublishBegins, PublishLocks,
       PublishCommits, Crashes DEF Generate, Publish
<1> QED
  BY <1>1, Edits, CycleSteps DEF Next

\* The month has not begun.
LEMMA InitIInv == Init => IInv
<1> SUFFICES ASSUME Init PROVE IInv
  OBVIOUS
<1>1. NoBill \in Row /\ NoBill.status = "NONE" /\ NoBill.number = 0
  BY DEF NoBill, Row, BillStatuses, LiveBill
<1>2. Shape
  BY <1>1, IdleRow DEF Init, Shape
<1>3. Numbering
  BY IdleRow DEF Init, Numbering
<1>4. Unnumbered /\ NumbersUnique /\ OneLiveBill
  BY <1>1 DEF Init, Unnumbered, NumbersUnique, WasIssued, OneLiveBill, LiveBill, IssuedBill, OpenBill
<1> QED
  BY <1>2, <1>3, <1>4 DEF IInv

\* The invariant holds throughout.
LEMMA SpecIInv == Spec => []IInv
<1>1. IInv /\ [Next]_vars => IInv'
  BY NextIInv
<1> QED
  BY <1>1, InitIInv, PTL DEF Spec

\* No two bills ever share a number, nor is one given out twice.
THEOREM SpecNumbersUnique == Spec => []NumbersUnique
<1>1. IInv => NumbersUnique
  BY DEF IInv
<1> QED
  BY <1>1, SpecIInv, PTL

\* A unit and resident have one live bill for the month.
THEOREM SpecOneLiveBill == Spec => []OneLiveBill
<1>1. IInv => OneLiveBill
  BY DEF IInv
<1> QED
  BY <1>1, SpecIInv, PTL

\* An issued bill keeps its number, its lease and its lines, is never a draft
\* again, and is not deleted once money or a correction refers to it.
THEOREM SpecIssuedHistory == Spec => IssuedHistory
<1> DEFINE Step ==
        \A b \in Bills : WasIssued(b) =>
          /\ bill'[b].number = bill[b].number
          /\ bill'[b].lease = bill[b].lease
          /\ bill'[b].lines \ CorrectionLines = bill[b].lines \ CorrectionLines
          /\ bill[b].lines \subseteq bill'[b].lines
          /\ bill'[b].status # "DRAFT"
          /\ bill'[b].status = "DELETED" /\ bill[b].status # "DELETED" => ~Referenced(b)
<1>1. IInv /\ [Next]_vars => [Step]_bill
  BY NextIInv DEF History, Kept, WasIssued, Referenced
<1> QED
  BY <1>1, SpecIInv, PTL DEF Spec, IssuedHistory

----------------------------------------------------------------------------
(* The way of a bill.                                                      *)

\* What a step may make of a row's status.
Way(old, row) ==
    old.status # row.status =>
        \/ old.status = "NONE" /\ row.status = "DRAFT"
        \/ old.status = "DRAFT" /\ row.status \in IssuedBill /\ row.number = next /\ next' = next + 1
        \/ old.status \in IssuedBill /\ row.status \in IssuedBill
        \/ /\ old.status \in LiveBill \cup {"CANCELLED"} /\ row.status \in {"CANCELLED", "DELETED"}
           /\ old.paid = 0

Moved == \A b \in Bills : Way(bill[b], bill'[b])

\* A regeneration found the draft it wants to delete.
Chosen ==
    \A w \in Workers : worker[w].pc \in {"collect", "delete"} =>
        worker[w].bill \in Bills /\ bill[worker[w].bill].status # "NONE"

\* One row is written.
LEMMA OneMoves ==
    ASSUME Shape, NEW b \in Bills, NEW row, Way(bill[b], row), bill' = [bill EXCEPT ![b] = row]
    PROVE  Moved
<1>1. bill'[b] = row /\ \A c \in Bills : c # b => bill'[c] = bill[c]
  BY DEF Shape
<1> QED
  BY <1>1 DEF Moved, Way

\* No row is written.
LEMMA NoneMoves == ASSUME UNCHANGED bill PROVE Moved
  BY DEF Moved, Way

\* Generation: a draft is deleted unless money refers to it, and one is created.
LEMMA GenerateMoves ==
    ASSUME Shape, Chosen, NEW w \in Workers, Generate(w)
    PROVE  Moved
<1>1. CASE GenerateBegin(w) \/ FindExisting(w) \/ CollectDraft(w) \/ UNCHANGED bill
  BY <1>1, NoneMoves DEF GenerateBegin, FindExisting, CollectDraft
<1>2. CASE DeleteDraft(w) /\ ~UNCHANGED bill
  <2> DEFINE b == worker[w].bill
             row == [bill[b] EXCEPT !.status = "DELETED"]
  <2>1. b \in Bills /\ bill[b].status # "NONE" /\ bill[b] \in Row
    BY <1>2 DEF DeleteDraft, Chosen, Shape
  <2>2. ~Referenced(b) /\ bill' = [bill EXCEPT ![b] = row]
    BY <1>2 DEF DeleteDraft
  <2>3. row.status = "DELETED"
    BY <2>1, StatusRow DEF BillStatuses
  <2>4. bill[b].status \in LiveBill \cup {"CANCELLED", "DELETED"} /\ bill[b].paid = 0
    BY <2>1, <2>2 DEF Row, BillStatuses, Referenced
  <2> HIDE DEF row, b
  <2>5. Way(bill[b], row)
    BY <2>3, <2>4 DEF Way
  <2> QED
    BY <2>1, <2>2, <2>5, OneMoves
<1>3. CASE CreateBill(w) /\ ~UNCHANGED bill
  <2> DEFINE l == worker[w].lease
  <2>1. PICK b \in Bills, lines \in {{}, {"base"}} :
            bill[b].status = "NONE" /\ bill' = [bill EXCEPT ![b] = Recomputed(New(l, lines))]
    BY <1>3 DEF CreateBill, Put, New
  <2>2. lines \in SUBSET LineKinds /\ l \in Leases \cup {None}
    BY DEF LineKinds, Shape, WorkerRow
  <2>3. PICK new : new = New(l, lines)
    OBVIOUS
  <2>4. new \in Row /\ new.status = "DRAFT"
    BY <2>2, <2>3, NewRow
  <2>5. Recomputed(new).status = "DRAFT"
    BY <2>4, RecomputedRow
  <2>6. Way(bill[b], Recomputed(new))
    BY <2>1, <2>5 DEF Way
  <2> QED
    BY <2>1, <2>3, <2>6, OneMoves
<1> QED
  BY <1>1, <1>2, <1>3 DEF Generate

\* Publication: the locked row is still a draft.
LEMMA PublishMoves ==
    ASSUME IInv, NEW w \in Workers, Publish(w)
    PROVE  Moved
<1>1. CASE PublishBegin(w) \/ PublishLock(w)
  BY <1>1, NoneMoves DEF PublishBegin, PublishLock
<1>2. CASE PublishCommit(w)
  <2> DEFINE b == worker[w].bill
             issued == [bill[b] EXCEPT !.status = "PUBLISHED", !.number = NextValue(w)]
  <2>1. b \in Bills /\ bill[b].status = "DRAFT" /\ bill[b] \in Row /\ next \in Nat
    BY <1>2 DEF PublishCommit, IInv, Numbering, Shape
  <2>2. issued \in Row /\ issued.status = "PUBLISHED" /\ issued.number = next
    BY <2>1 DEF Row, BillStatuses, LiveBill, IssuedBill, OpenBill, NextValue
  <2>3. bill' = [bill EXCEPT ![b] = Settled(issued)] /\ next' = next + 1
    BY <1>2 DEF PublishCommit, Put, NextValue
  <2> HIDE DEF issued, b
  <2>4. Settled(issued).status \in IssuedBill /\ Settled(issued).number = next
    BY <2>2, SettledRow
  <2>5. Way(bill[b], Settled(issued))
    BY <2>1, <2>3, <2>4 DEF Way
  <2> QED
    BY <2>1, <2>3, <2>5, OneMoves DEF IInv
<1> QED
  BY <1>1, <1>2 DEF Publish

\* The owner edits drafts, corrects and credits issued bills, and cancels what
\* is not paid.
LEMMA EditMoves ==
    ASSUME Shape, NEW b \in Bills, Edit(b)
    PROVE  Moved
<1>1. bill[b] \in Row
  BY DEF Shape
<1>2. ASSUME NEW lines \in SUBSET LineKinds, Put(b, Recomputed([bill[b] EXCEPT !.lines = lines]))
      PROVE  Moved
  <2>1. PICK edited : edited = [bill[b] EXCEPT !.lines = lines]
    OBVIOUS
  <2>2. edited \in Row /\ edited.status = bill[b].status
    BY <1>1, <2>1, LinesRow
  <2>3. Recomputed(edited).status = bill[b].status
    BY <2>2, RecomputedRow
  <2>4. Way(bill[b], Recomputed(edited))
    BY <2>3 DEF Way
  <2> QED
    BY <1>2, <2>1, <2>4, OneMoves DEF Put
<1>3. CASE \E line \in ManualLines : AddLine(b, line)
  BY <1>1, <1>2, <1>3 DEF AddLine, LineKinds, Row
<1>4. CASE \E line \in LineKinds : RemoveLine(b, line)
  BY <1>1, <1>2, <1>4 DEF RemoveLine, Row
<1>5. ASSUME NEW r \in Row, bill[b].status \in IssuedBill, r.status = bill[b].status, Put(b, Settled(r))
      PROVE  Moved
  <2>1. Settled(r).status \in IssuedBill
    BY <1>5, SettledRow DEF IssuedBill, OpenBill
  <2>2. Way(bill[b], Settled(r))
    BY <1>5, <2>1 DEF Way
  <2> QED
    BY <1>5, <2>2, OneMoves DEF Put
<1>6. CASE \E line \in CorrectionLines : Correct(b, line)
  <2> PICK line \in CorrectionLines : Correct(b, line)
    BY <1>6
  <2>1. PICK lines : lines = bill[b].lines \cup {line}
    OBVIOUS
  <2>2. PICK added : added = [bill[b] EXCEPT !.lines = lines]
    OBVIOUS
  <2>3. lines \in SUBSET LineKinds
    BY <1>1, <2>1 DEF LineKinds, Row
  <2>4. added \in Row /\ added.status = bill[b].status
    BY <1>1, <2>2, <2>3, LinesRow
  <2>5. Recomputed(added) \in Row /\ Recomputed(added).status = bill[b].status
    BY <2>4, RecomputedRow
  <2>6. bill[b].status \in IssuedBill /\ Put(b, Settled(Recomputed(added)))
    BY <2>1, <2>2 DEF Correct
  <2> QED
    BY <1>5, <2>5, <2>6
<1>7. CASE CancelBill(b)
  <2>1. PICK row : row = [bill[b] EXCEPT !.status = "CANCELLED"]
    OBVIOUS
  <2>2. row.status = "CANCELLED"
    BY <1>1, <2>1, StatusRow DEF BillStatuses
  <2>3. bill[b].status \in LiveBill /\ bill[b].paid = 0 /\ bill' = [bill EXCEPT ![b] = row]
    BY <1>7, <2>1 DEF CancelBill
  <2>4. Way(bill[b], row)
    BY <2>2, <2>3 DEF Way
  <2> QED
    BY <2>3, <2>4, OneMoves
<1>8. CASE \E m \in 1..2 : Pay(b, m)
  <2> PICK m \in 1..2 : Pay(b, m)
    BY <1>8
  <2>1. PICK paid : paid = [bill[b] EXCEPT !.paid = @ + m]
    OBVIOUS
  <2>2. bill[b].paid + m \in Nat
    BY <1>1 DEF Row
  <2>3. paid \in Row /\ paid.status = bill[b].status
    BY <1>1, <2>1, <2>2 DEF Row
  <2>4. bill[b].status \in IssuedBill /\ Put(b, Settled(paid))
    BY <2>1 DEF Pay, IssuedBill
  <2> QED
    BY <1>5, <2>3, <2>4
<1> QED
  BY <1>3, <1>4, <1>6, <1>7, <1>8 DEF Edit

\* Every step.
LEMMA NextMoves == IInv /\ Chosen /\ [Next]_vars => Moved
  BY GenerateMoves, PublishMoves, EditMoves, NoneMoves DEF Next, IInv, OpenCycle, Close, Crash, vars

\* A worker takes up a draft only when it found it.
LEMMA GenerateTakesUp ==
    ASSUME Shape, NEW w \in Workers, Generate(w), worker'[w].pc \in {"collect", "delete"}
    PROVE  \/ worker[w].pc = "collect" /\ worker'[w].bill = worker[w].bill
           \/ worker'[w].bill \in Bills /\ bill[worker'[w].bill].status # "NONE"
<1> USE DEF Become
<1>1. worker[w] \in WorkerRow /\ Idle.pc = "idle" /\ w \in DOMAIN worker
  BY IdleRow DEF Shape
<1>2. NextLease(w).pc \in {"idle", "lease"}
  BY <1>1 DEF NextLease, WorkerRow
<1>3. CASE GenerateBegin(w)
  <2>1. worker'[w].pc = "lease"
    BY <1>1, <1>3 DEF GenerateBegin, Idle
  <2> QED
    BY <2>1
<1>4. CASE DeleteDraft(w)
  <2>1. worker'[w].pc \in {"idle", "create"}
    BY <1>1, <1>4 DEF DeleteDraft, WorkerRow
  <2> QED
    BY <2>1
<1>5. CASE CreateBill(w)
  <2>1. worker'[w].pc \in {"idle", "lease"}
    BY <1>1, <1>2, <1>5 DEF CreateBill, Skip
  <2> QED
    BY <2>1
<1>6. CASE CollectDraft(w)
  <2>1. PICK pc : worker'[w] = [worker[w] EXCEPT !.pc = pc] /\ worker[w].pc = "collect"
    BY <1>1, <1>6 DEF CollectDraft
  <2> QED
    BY <1>1, <2>1 DEF WorkerRow
<1>7. CASE FindExisting(w)
  <2>1. worker[w].leases # {}
    BY <1>1, <1>7 DEF FindExisting
  <2> DEFINE Turn(l) == [worker[w] EXCEPT !.leases = @ \ {l}, !.lease = l]
  <2>2. PICK l \in Upcoming(w) :
            \/ worker'[w] = [Turn(l) EXCEPT !.pc = "create"]
            \/ worker'[w] = [Turn(l) EXCEPT !.lease = None]
            \/ \E b \in Bills : /\ bill[b].status \in LiveBill
                                /\ worker'[w] = [Turn(l) EXCEPT !.pc = "collect", !.bill = b]
    BY <1>1, <1>7, <2>1, Zenon DEF FindExisting
  <2>3. PICK turn : turn = Turn(l)
    OBVIOUS
  <2>4. worker[w].pc = "lease"
    BY <1>7 DEF FindExisting
  <2>5. turn \in WorkerRow /\ turn.pc = "lease"
    BY <1>1, <2>3, <2>4, <2>2 DEF WorkerRow, Upcoming
  <2>6. [turn EXCEPT !.pc = "create"].pc = "create" /\ [turn EXCEPT !.lease = None].pc = "lease"
    BY <2>5 DEF WorkerRow
  <2>7. \A b : [turn EXCEPT !.pc = "collect", !.bill = b].bill = b
    BY <2>5 DEF WorkerRow
  <2>8. PICK b \in Bills : bill[b].status \in LiveBill /\ worker'[w] = [turn EXCEPT !.pc = "collect", !.bill = b]
    BY <2>2, <2>3, <2>6
  <2>9. worker'[w].bill = b
    BY <2>7, <2>8
  <2> QED
    BY <2>8, <2>9 DEF LiveBill, IssuedBill, OpenBill
<1> QED
  BY <1>3, <1>4, <1>5, <1>6, <1>7 DEF Generate

\* Publications and the end of a request take up none.
LEMMA OthersTakeNone ==
    ASSUME Shape, NEW w \in Workers, Publish(w) \/ Crash(w)
    PROVE  worker'[w].pc \in {"idle", "publish", "number"}
<1> USE DEF Become
<1>1. worker[w] \in WorkerRow /\ Idle.pc = "idle" /\ w \in DOMAIN worker
  BY IdleRow DEF Shape
<1>2. CASE PublishBegin(w)
  BY <1>1, <1>2 DEF PublishBegin, Idle
<1>3. CASE PublishLock(w)
  <2>1. \/ worker'[w] = Idle
        \/ \E b : worker'[w] = [worker[w] EXCEPT !.drafts = @ \ {b}]
        \/ \E b : worker'[w] = [worker[w] EXCEPT !.pc = "number", !.drafts = @ \ {b},
                                                 !.bill = b, !.seen = next]
    BY <1>1, <1>3 DEF PublishLock
  <2>2. worker[w].pc = "publish"
    BY <1>3 DEF PublishLock
  <2> QED
    BY <1>1, <2>1, <2>2 DEF WorkerRow
<1>4. CASE PublishCommit(w)
  BY <1>1, <1>4 DEF PublishCommit, WorkerRow
<1>5. CASE Crash(w)
  BY <1>1, <1>5 DEF Crash
<1> QED
  BY <1>2, <1>3, <1>4, <1>5 DEF Publish

\* A step is one worker's.
LEMMA OneWorker ==
    ASSUME Shape, NEW w \in Workers, NEW v \in Workers, v # w, Generate(v) \/ Publish(v) \/ Crash(v)
    PROVE  worker'[w] = worker[w]
<1>1. \E r : worker' = [worker EXCEPT ![v] = r]
  BY DEF Generate, Publish, GenerateBegin, FindExisting, CollectDraft, DeleteDraft, CreateBill, Skip,
         PublishBegin, PublishLock, PublishCommit, Crash, Become
<1> QED
  BY <1>1 DEF Shape

\* What was found stays a bill, and nothing else is taken up.
LEMMA NextChosen == IInv /\ Chosen /\ [Next]_vars => Chosen'
<1> SUFFICES ASSUME IInv, Chosen, [Next]_vars, NEW w \in Workers, worker'[w].pc \in {"collect", "delete"}
             PROVE  worker'[w].bill \in Bills /\ bill'[worker'[w].bill].status # "NONE"
  BY DEF Chosen
<1>1. \A b \in Bills : bill[b].status # "NONE" => bill'[b].status # "NONE"
  BY NextMoves DEF Moved, Way, IssuedBill, OpenBill
<1>2. Shape
  BY DEF IInv
<1>3. CASE worker'[w] = worker[w]
  BY <1>1, <1>3 DEF Chosen
<1>4. CASE Generate(w)
  BY <1>1, <1>2, <1>4, GenerateTakesUp DEF Chosen
<1>5. CASE Publish(w) \/ Crash(w)
  BY <1>2, <1>5, OthersTakeNone
<1>6. CASE \E v \in Workers \ {w} : Generate(v) \/ Publish(v) \/ Crash(v)
  BY <1>2, <1>3, <1>6, OneWorker
<1>7. CASE OpenCycle \/ Close \/ (\E b \in Bills : Edit(b)) \/ UNCHANGED vars
  BY <1>3, <1>7 DEF OpenCycle, Close, Edit, AddLine, RemoveLine, Correct, CancelBill, Pay, OwnerStep, vars
<1> QED
  BY <1>4, <1>5, <1>6, <1>7 DEF Next

\* A bill is issued once, from a draft and with the next number; a cancelled or
\* deleted one had no payment and is never live again.
THEOREM SpecBillsMove == Spec => BillsMove
<1> DEFINE Step ==
        \A b \in Bills :
          LET s == bill[b].status
              t == bill'[b].status IN
          s # t => \/ s = "NONE" /\ t = "DRAFT"
                   \/ s = "DRAFT" /\ t \in IssuedBill /\ bill'[b].number = next /\ next' = next + 1
                   \/ s \in IssuedBill /\ t \in IssuedBill
                   \/ /\ s \in LiveBill \cup {"CANCELLED"} /\ t \in {"CANCELLED", "DELETED"}
                      /\ bill[b].paid = 0
<1>1. Init => IInv /\ Chosen
  BY InitIInv, IdleRow DEF Init, Chosen
<1>2. IInv /\ Chosen /\ [Next]_vars => (IInv /\ Chosen)'
  BY NextIInv, NextChosen
<1>3. IInv /\ Chosen /\ [Next]_vars => [Step]_vars
  BY NextMoves DEF Moved, Way
<1> QED
  BY <1>1, <1>2, <1>3, PTL DEF Spec, BillsMove

----------------------------------------------------------------------------
(* Totals: the second layer.                                               *)

\* What the total, the payments, the number and the status of a row say of each
\* other.
AddsUp(row) ==
    /\ row.total = Sum(row.lines)
    /\ row.paid <= row.total
    /\ row.status = "DRAFT" => row.number = 0 /\ row.paid = 0
    /\ row.status \in IssuedBill => row.number # 0 /\ Settled(row) = row

LEMMA AllAddUp == BillsAddUp <=> \A b \in Bills : AddsUp(bill[b])
  BY DEF BillsAddUp, AddsUp, WasIssued

\* The status follows from total and paid alone: settling twice is settling once.
LEMMA SettledStays ==
    ASSUME NEW r \in Row
    PROVE  Settled(Settled(r)) = Settled(r) /\ Settled(r).total = r.total
  BY DEF Row, Settled

\* A row that is settled as it is written adds up when its lines do.
LEMMA SettledAddsUp ==
    ASSUME NEW r \in Row, r.total = Sum(r.lines), r.paid <= r.total, r.number # 0,
           r.status # "CANCELLED"
    PROVE  AddsUp(Settled(r))
<1>1. Settled(r).status \in IssuedBill
  BY SettledRow
<1>2. Settled(r).status # "DRAFT"
  BY <1>1 DEF IssuedBill, OpenBill
<1> QED
  BY <1>1, <1>2, SettledRow, SettledStays DEF AddsUp

\* One row is written; the others add up as before.
LEMMA RowAddsUp ==
    ASSUME Shape, BillsAddUp, NEW b \in Bills, NEW row, AddsUp(row), bill' = [bill EXCEPT ![b] = row]
    PROVE  BillsAddUp'
<1>1. \A c \in Bills : bill'[c] = IF c = b THEN row ELSE bill[c]
  BY DEF Shape
<1>2. \A c \in Bills : AddsUp(bill'[c])
  BY <1>1, AllAddUp
<1>3. BillsAddUp' <=> \A c \in Bills : AddsUp(bill'[c])
  BY DEF BillsAddUp, AddsUp, WasIssued
<1> QED
  BY <1>2, <1>3

LEMMA NoRowAddsUp == ASSUME BillsAddUp, UNCHANGED bill PROVE BillsAddUp'
  BY DEF BillsAddUp, WasIssued

\* A draft's new lines are summed, and do not come to less than nothing.
LEMMA DraftAddsUp ==
    ASSUME NEW r \in Row, r.status = "DRAFT", r.number = 0, r.paid = 0, Chargeable(r.lines)
    PROVE  AddsUp(Recomputed(r))
<1>1. Recomputed(r).total = Sum(r.lines) /\ Sum(r.lines) >= 0 /\ Sum(r.lines) \in Int
  BY LinesSum DEF Recomputed, Chargeable, Row
<1>2. /\ Recomputed(r).status = "DRAFT" /\ Recomputed(r).lines = r.lines
      /\ Recomputed(r).number = 0 /\ Recomputed(r).paid = 0
  BY RecomputedRow
<1> QED
  BY <1>1, <1>2 DEF AddsUp, IssuedBill, OpenBill

\* Generating, deleting and publishing.
LEMMA RequestsAddUp ==
    ASSUME IInv, BillsAddUp, NEW w \in Workers, Generate(w) \/ Publish(w) \/ Crash(w)
    PROVE  BillsAddUp'
<1> USE DEF IInv
<1>1. ASSUME UNCHANGED bill PROVE BillsAddUp'
  BY <1>1, NoRowAddsUp
<1>2. CASE DeleteDraft(w)
  <2> DEFINE b == worker[w].bill
             row == [bill[b] EXCEPT !.status = "DELETED"]
  <2>1. b \in Bills \cup {None}
    BY DEF Shape, WorkerRow
  <2>2. CASE b \in Bills /\ bill' = [bill EXCEPT ![b] = row]
    <3>1. bill[b] \in Row /\ AddsUp(bill[b])
      BY <2>2, AllAddUp DEF Shape
    <3>2. AddsUp(row)
      BY <3>1 DEF AddsUp, Row, IssuedBill, OpenBill
    <3> HIDE DEF row
    <3> QED
      BY <2>2, <3>2, RowAddsUp
  <2>3. CASE b \notin Bills
    BY <1>1, <1>2, <2>3 DEF DeleteDraft, Shape
  <2> QED
    BY <1>1, <1>2, <2>2, <2>3 DEF DeleteDraft
<1>3. CASE CreateBill(w)
  <2>1. ASSUME NEW b \in Bills, NEW lines \in {{}, {"base"}},
               Put(b, Recomputed([NoBill EXCEPT !.status = "DRAFT", !.lease = worker[w].lease, !.lines = lines]))
        PROVE  BillsAddUp'
    <3> DEFINE new == [NoBill EXCEPT !.status = "DRAFT", !.lease = worker[w].lease, !.lines = lines]
    <3>1. worker[w].lease \in Leases \cup {None} /\ lines \in SUBSET LineKinds
      BY DEF Shape, WorkerRow, LineKinds
    <3>2. /\ new \in Row /\ new.status = "DRAFT" /\ new.number = 0 /\ new.paid = 0 /\ new.lines = lines
      <4>1. new = New(worker[w].lease, lines)
        BY DEF New
      <4> HIDE DEF new
      <4> QED
        BY <3>1, <4>1, NewRow
    <3>3. Chargeable(lines)
      BY FirstSums DEF Chargeable
    <3>4. bill' = [bill EXCEPT ![b] = Recomputed(new)]
      BY <2>1 DEF Put
    <3> HIDE DEF new
    <3> QED
      BY <3>2, <3>3, <3>4, DraftAddsUp, RowAddsUp
  <2> QED
    BY <1>1, <1>3, <2>1 DEF CreateBill
<1>4. CASE PublishCommit(w)
  <2> DEFINE b == worker[w].bill
             issued == [bill[b] EXCEPT !.status = "PUBLISHED", !.number = NextValue(w)]
  <2>1. /\ b \in Bills /\ bill[b].status = "DRAFT" /\ bill[b] \in Row /\ AddsUp(bill[b])
        /\ next \in Nat \ {0}
    BY <1>4, AllAddUp DEF PublishCommit, Numbering, Shape
  <2>2. /\ issued \in Row /\ issued.status = "PUBLISHED" /\ issued.number # 0
        /\ issued.total = bill[b].total /\ issued.lines = bill[b].lines /\ issued.paid = bill[b].paid
    BY <2>1 DEF Row, BillStatuses, LiveBill, IssuedBill, OpenBill, NextValue
  <2>3. bill' = [bill EXCEPT ![b] = Settled(issued)]
    BY <1>4 DEF PublishCommit, Put
  <2> HIDE DEF issued
  <2>4. AddsUp(Settled(issued))
    BY <2>1, <2>2, SettledAddsUp DEF AddsUp
  <2> QED
    BY <2>1, <2>3, <2>4, RowAddsUp
<1>5. CASE GenerateBegin(w) \/ FindExisting(w) \/ CollectDraft(w) \/ PublishBegin(w) \/ PublishLock(w) \/ Crash(w)
  BY <1>1, <1>5 DEF GenerateBegin, FindExisting, CollectDraft, PublishBegin, PublishLock, Crash
<1> QED
  BY <1>2, <1>3, <1>4, <1>5 DEF Generate, Publish

\* The owner's edits, corrections, cancellations and payments.
LEMMA EditsAddUp ==
    ASSUME IInv, BillsAddUp, NEW b \in Bills, Edit(b)
    PROVE  BillsAddUp'
<1> USE DEF IInv
<1>1. bill[b] \in Row /\ AddsUp(bill[b])
  BY AllAddUp DEF Shape
<1>2. ASSUME NEW lines \in SUBSET LineKinds, Editable(b), Chargeable(lines),
             Put(b, Recomputed([bill[b] EXCEPT !.lines = lines]))
      PROVE  BillsAddUp'
  <2> DEFINE edited == [bill[b] EXCEPT !.lines = lines]
  <2>1. /\ edited \in Row /\ edited.status = "DRAFT" /\ edited.number = 0 /\ edited.paid = 0
        /\ edited.lines = lines
    BY <1>1, <1>2, LinesRow DEF Editable, AddsUp
  <2>2. bill' = [bill EXCEPT ![b] = Recomputed(edited)]
    BY <1>2 DEF Put
  <2> HIDE DEF edited
  <2> QED
    BY <1>2, <2>1, <2>2, DraftAddsUp, RowAddsUp
<1>3. CASE \E line \in ManualLines : AddLine(b, line)
  BY <1>1, <1>2, <1>3 DEF AddLine, LineKinds, Row
<1>4. CASE \E line \in LineKinds : RemoveLine(b, line)
  BY <1>1, <1>2, <1>4 DEF RemoveLine, Row
<1>5. ASSUME NEW line \in CorrectionLines, Correct(b, line) PROVE BillsAddUp'
  <2> DEFINE lines == bill[b].lines \cup {line}
             added == [bill[b] EXCEPT !.lines = lines]
             summed == Recomputed(added)
  <2>1. bill[b].lines \in SUBSET LineKinds /\ line \in LineKinds /\ line \notin bill[b].lines
    BY <1>1, <1>5 DEF LineKinds, Row, Correct
  <2>2. Sum(lines) = bill[b].total + Amount(line) /\ bill[b].paid <= bill[b].total + Amount(line)
    <3>1. Sum(lines) = Sum(bill[b].lines) + Amount(line)
      BY <2>1, SumOfMore
    <3>2. bill[b].total = Sum(bill[b].lines) /\ bill[b].total + Amount(line) >= bill[b].paid
      BY <1>1, <1>5 DEF AddsUp, Correct
    <3>3. bill[b].total \in Int /\ bill[b].paid \in Int /\ Amount(line) \in Int
      BY <1>1 DEF Row, Amount
    <3> QED
      BY <3>1, <3>2, <3>3
  <2>3. bill[b].status \in IssuedBill /\ bill[b].number # 0 /\ lines \in SUBSET LineKinds
    BY <1>1, <1>5, <2>1 DEF AddsUp, Correct
  <2> HIDE DEF lines
  <2>4. /\ added \in Row /\ added.status = bill[b].status /\ added.number = bill[b].number
        /\ added.lines = lines /\ added.paid = bill[b].paid
    BY <1>1, <2>3, LinesRow
  <2> HIDE DEF added
  <2>5. /\ summed \in Row /\ summed.status = bill[b].status /\ summed.number = bill[b].number
        /\ summed.lines = lines /\ summed.paid = bill[b].paid
    BY <2>4, RecomputedRow
  <2>6. summed.total = Sum(summed.lines)
    BY <2>4 DEF Recomputed, Row
  <2>7. bill' = [bill EXCEPT ![b] = Settled(summed)]
    BY <1>5 DEF Correct, Put, summed, added, lines
  <2> HIDE DEF summed
  <2>8. AddsUp(Settled(summed))
    BY <2>2, <2>3, <2>5, <2>6, SettledAddsUp DEF IssuedBill, OpenBill
  <2> QED
    BY <2>7, <2>8, RowAddsUp
<1>6. CASE CancelBill(b)
  <2> DEFINE row == [bill[b] EXCEPT !.status = "CANCELLED"]
  <2>1. AddsUp(row) /\ bill' = [bill EXCEPT ![b] = row]
    BY <1>1, <1>6 DEF CancelBill, AddsUp, Row, IssuedBill, OpenBill
  <2> HIDE DEF row
  <2> QED
    BY <2>1, RowAddsUp
<1>7. ASSUME NEW m \in 1..2, Pay(b, m) PROVE BillsAddUp'
  <2> DEFINE paid == [bill[b] EXCEPT !.paid = @ + m]
  <2>1. /\ paid \in Row /\ paid.status = bill[b].status /\ paid.number = bill[b].number
        /\ paid.lines = bill[b].lines /\ paid.total = bill[b].total /\ paid.paid = bill[b].paid + m
    <3>1. bill[b].paid + m \in Nat
      BY <1>1 DEF Row
    <3> QED
      BY <1>1, <3>1 DEF Row
  <2>2. /\ bill[b].status \in OpenBill /\ m <= bill[b].total - bill[b].paid
        /\ bill' = [bill EXCEPT ![b] = Settled(paid)]
    BY <1>7 DEF Pay, Put
  <2> HIDE DEF paid
  <2>3. paid.paid <= paid.total /\ paid.total = Sum(paid.lines) /\ paid.number # 0
        /\ paid.status # "CANCELLED"
    <3>1. bill[b].paid \in Int /\ bill[b].total \in Int
      BY <1>1 DEF Row
    <3> QED
      BY <1>1, <2>1, <2>2, <3>1 DEF AddsUp, IssuedBill, OpenBill
  <2> QED
    BY <2>1, <2>2, <2>3, SettledAddsUp, RowAddsUp
<1> QED
  BY <1>3, <1>4, <1>5, <1>6, <1>7 DEF Edit

LEMMA NextAddsUp == IInv /\ BillsAddUp /\ [Next]_vars => BillsAddUp'
<1>1. ASSUME BillsAddUp, OpenCycle \/ Close \/ UNCHANGED vars PROVE BillsAddUp'
  BY <1>1, NoRowAddsUp DEF OpenCycle, Close, vars
<1> QED
  BY <1>1, RequestsAddUp, EditsAddUp DEF Next

LEMMA InitAddsUp == Init => BillsAddUp
  BY FirstSums DEF Init, NoBill, BillsAddUp, WasIssued, IssuedBill, OpenBill

\* The cycle's status is one of the three.
CycleTyped == cycle \in {"NONE", "OPEN", "CLOSED"}

LEMMA NextCycle == CycleTyped /\ [Next]_vars => CycleTyped'
  BY DEF CycleTyped, Next, OpenCycle, Close, Generate, Publish, Edit, GenerateBegin, FindExisting,
         CollectDraft, DeleteDraft, CreateBill, PublishBegin, PublishLock, PublishCommit, Crash,
         AddLine, RemoveLine, Correct, CancelBill, Pay, OwnerStep, vars

LEMMA SpecAddsUp == Spec => [](IInv /\ BillsAddUp /\ CycleTyped)
<1>1. IInv /\ BillsAddUp /\ CycleTyped /\ [Next]_vars => (IInv /\ BillsAddUp /\ CycleTyped)'
  BY NextIInv, NextAddsUp, NextCycle
<1>2. Init => CycleTyped
  BY DEF Init, CycleTyped
<1> QED
  BY <1>1, <1>2, InitIInv, InitAddsUp, PTL DEF Spec

\* A total is the sum of the bill's lines and at least what is paid, drafts are
\* unnumbered and unpaid, and the status column of an issued bill says what total
\* and paid say, for any interleaving of generations, publications and the
\* owner's edits.
THEOREM SpecBillsAddUp == Spec => []BillsAddUp
  BY SpecAddsUp, PTL

\* Rows, requests and locks keep their types; no total is ever negative, since it
\* is at least what is paid.
THEOREM SpecTypeOK == Spec => []TypeOK
<1>1. IInv /\ BillsAddUp /\ CycleTyped => TypeOK
  <2> SUFFICES ASSUME IInv, BillsAddUp, CycleTyped PROVE TypeOK
    OBVIOUS
  <2>1. bill \in [Bills -> BillRow]
    <3> SUFFICES ASSUME NEW b \in Bills PROVE bill[b] \in BillRow
      BY DEF IInv, Shape
    <3>1. bill[b] \in Row /\ bill[b].paid <= bill[b].total
      BY DEF IInv, Shape, BillsAddUp
    <3> QED
      BY <3>1 DEF Row, BillRow
  <2> QED
    BY <2>1 DEF IInv, Shape, CycleTyped, TypeOK
<1> QED
  BY <1>1, SpecAddsUp, PTL
=============================================================================
