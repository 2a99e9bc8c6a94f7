------------------------------ MODULE Payments ------------------------------
(***************************************************************************)
(* Receipts and invoices and what pays them: a receipt is paid by a        *)
(* reimbursement or by a bank statement, an invoice by a bank statement.   *)
(*                                                                         *)
(* Every handler runs in one withAuditTransaction (server/utils/db.ts) at  *)
(* InnoDB's REPEATABLE READ: its SELECTs see the snapshot of its first     *)
(* read, its writes hit the rows as they are when it writes, and nothing   *)
(* is locked in between.  A handler is therefore two steps: Read... checks *)
(* the request against the tables and turns it into a plan, the list of    *)
(* writes the handler will issue; Write... applies that plan to the tables *)
(* as they are then and commits.  Rollback ends a transaction that met a   *)
(* duplicate key, a deadlock or any other error.                           *)
(***************************************************************************)
EXTENDS Naturals, FiniteSets, Functions

CONSTANTS
    Receipts,        \* receipts.id
    Invoices,        \* invoices.id
    Reimbursements,  \* reimbursements.id
    Statements,      \* bank_statements.id
    RPos,            \* reimbursement_positions.id
    BPos,            \* bank_statement_positions.id
    FileIds,         \* file_attachments.id of one receipt, in upload order
    Lines,           \* receipt_positions.id
    Heads,           \* company, date and number of a receipt
    Contents,        \* the fields of a receipt's position, of a finalized invoice
    SameMoney,       \* <<old, new>>: sameMoney takes new for old, the column does not
    EventBooking,    \* the target of a position of type 'event'
    Sessions,        \* concurrent requests
    MaxForm,         \* bound: entries of one submitted form
    MaxRecords       \* bound: receipts and invoices ever created

ASSUME FileIdsAssumption == FileIds \subseteq Nat
ASSUME MaxFormAssumption == MaxForm \in Nat
ASSUME LinesAssumption == IsFiniteSet(Lines)
ASSUME SameMoneyAssumption == SameMoney \subseteq Contents \X Contents
ASSUME ContentsAssumption == Contents # {} /\ Heads # {}
ASSUME TargetsAssumption ==
    /\ EventBooking \notin Receipts \cup Invoices
    /\ Receipts \cap Invoices = {}

VARIABLES
    receipts,        \* receipts with their positions and active attachments
    invoices,
    reimbursement,   \* how far each reimbursement is: submitted, checked, disbursed
    reimPos,         \* rows of reimbursement_positions
    statements,      \* bank statements saved so far
    bankPos,         \* rows of bank_statement_positions
    tx               \* the open transaction of each session, as its plan

tables == <<receipts, invoices, reimbursement, reimPos, statements, bankPos>>
vars == <<receipts, invoices, reimbursement, reimPos, statements, bankPos, tx>>

Status == {"draft", "open", "paid", "cancelled"}
Stages == {"submitted", "checked", "disbursed"}
Targets == Receipts \cup Invoices \cup {EventBooking}

ReimRow == [id : RPos, reim : Reimbursements, receipt : Receipts]
BankRow == [id : BPos, stmt : Statements, pays : Targets]

\* Position ids with the fields of each.
Positions == UNION {[K -> Contents] : K \in SUBSET Lines}

ReceiptPlan ==
    [op : {"receipt"}, receipt : Receipts, status : Status, head : Heads,
     del : SUBSET Lines, upd : Positions, ins : SUBSET Contents,
     misnamed : BOOLEAN, detach : SUBSET FileIds, upload : BOOLEAN]
InvoicePlan ==
    [op : {"invoice"}, invoice : Invoices, status : Status, content : Contents,
     full : BOOLEAN]
ReimbursementPlan ==
    [op : {"reimbursement"}, reim : Reimbursements, stage : Stages,
     unlocked : BOOLEAN, del : SUBSET RPos, ins : SUBSET Receipts,
     release : SUBSET Receipts, mark : SUBSET Receipts]
StatementPlan ==
    [op : {"statement"}, stmt : Statements, del : SUBSET BPos,
     upd : UNION {[K -> Targets] : K \in SUBSET BPos}, ins : SUBSET Targets,
     release : SUBSET (Receipts \cup Invoices),
     pay : SUBSET (Receipts \cup Invoices)]

\* Of a record not created yet.
AnyContent == CHOOSE c \in Contents : TRUE
AnyHead == CHOOSE h \in Heads : TRUE

NoTx == [op |-> "none"]
Plans == ReceiptPlan \cup InvoicePlan \cup ReimbursementPlan \cup StatementPlan

TypeOK ==
    /\ receipts \in [Receipts -> [status : Status \cup {"absent"}, head : Heads,
                                  positions : Positions, files : SUBSET FileIds]]
    /\ invoices \in [Invoices -> [status : Status \cup {"absent"},
                                  content : Contents]]
    /\ reimbursement \in [Reimbursements -> Stages \cup {"absent"}]
    /\ reimPos \subseteq ReimRow
    /\ statements \subseteq Statements
    /\ bankPos \subseteq BankRow
    /\ tx \in [Sessions -> Plans \cup {NoTx}]

Init ==
    /\ receipts = [r \in Receipts |->
           [status |-> "absent", head |-> AnyHead, positions |-> <<>>, files |-> {}]]
    /\ invoices = [i \in Invoices |-> [status |-> "absent", content |-> AnyContent]]
    /\ reimbursement = [m \in Reimbursements |-> "absent"]
    /\ reimPos = {}
    /\ statements = {}
    /\ bankPos = {}
    /\ tx = [u \in Sessions |-> NoTx]

-----------------------------------------------------------------------------
(* What the handlers look up.                                              *)

ReimRowsOf(m) == {row \in reimPos : row.reim = m}
BankRowsOf(b) == {row \in bankPos : row.stmt = b}
Ids(rows) == {row.id : row \in rows}

InReimbursement(r) == \E row \in reimPos : row.receipt = r
InStatement(x) == \E row \in bankPos : row.pays = x
Linked(r) == InReimbursement(r) \/ InStatement(r)

ReimbursedElsewhere(r, m) == \E row \in reimPos : row.receipt = r /\ row.reim # m
PaidElsewhere(x, b) == \E row \in bankPos : row.pays = x /\ row.stmt # b

receiptRequiresFile(status) == status \in {"open", "paid"}

\* getActiveFileAttachment: the latest attachment that is not detached.
ActiveFile(r) == {f \in receipts[r].files : \A g \in receipts[r].files : g <= f}

\* Mutant: the stage is stored as the receipt's status.
statusFromReimbursement_unmapped(stage) == stage

statusFromReimbursement(stage) ==
    IF stage = "disbursed" THEN "paid" ELSE IF stage = "checked" THEN "open" ELSE "draft"

\* The status a payment record leaves its record x with: the covered ones get
\* the record's status, the released ones are open again if they were "paid".
Settled(x, status, covered, new, released) ==
    IF x \in covered THEN new
    ELSE IF x \in released /\ status = "paid" THEN "open" ELSE status

\* Row ids are AUTO_INCREMENT: a new row never gets an id that a row or the
\* plan of an open transaction still refers to.
FreshRPos == RPos \ (Ids(reimPos) \cup
    UNION {IF tx[u].op = "reimbursement" THEN tx[u].del ELSE {} : u \in Sessions})
FreshBPos == BPos \ (Ids(bankPos) \cup
    UNION {IF tx[u].op = "statement" THEN tx[u].del \cup DOMAIN tx[u].upd ELSE {}
           : u \in Sessions})
FreshLines == Lines \ UNION (
    {DOMAIN receipts[r].positions : r \in Receipts} \cup
    {IF tx[u].op = "receipt" THEN tx[u].del \cup DOMAIN tx[u].upd ELSE {} : u \in Sessions})
FreshFiles(r) == {f \in FileIds :
    /\ \A g \in receipts[r].files : f > g
    /\ \A u \in Sessions : tx[u].op = "receipt" => f \notin tx[u].detach}

Begin(u, plan) ==
    /\ tx[u] = NoTx
    /\ tx' = [tx EXCEPT ![u] = plan]
    /\ UNCHANGED tables

End(u) == tx' = [tx EXCEPT ![u] = NoTx]

Rollback(u) ==
    /\ tx[u] # NoTx
    /\ End(u)
    /\ UNCHANGED tables

-----------------------------------------------------------------------------
(* Receipts.                                                               *)

ReceiptCreate(r, status, head, positions, files) ==
    /\ receipts[r].status = "absent"
    /\ DOMAIN positions # {}
    /\ Cardinality(files) <= 1
    /\ receiptRequiresFile(status) => files # {}
    /\ receipts' = [receipts EXCEPT ![r] =
           [status |-> status, head |-> head, positions |-> positions, files |-> files]]
    /\ UNCHANGED <<invoices, reimbursement, reimPos, statements, bankPos, tx>>

\* The positions of a form: those it names by the id's number (exact, the last
\* entry of an id counts), those it names by something that only Number() turns
\* into the id, like a string (loose), how many entries name an id once more
\* (again), and the new ones.
Entries(form) ==
    Cardinality(DOMAIN form.exact) + Cardinality(form.loose)
    + form.again + Cardinality(form.new)

ReceiptForms == {form \in [exact : Positions, loose : SUBSET Lines, again : 0 .. MaxForm,
                           new : SUBSET Contents] :
    /\ Entries(form) \in 1 .. MaxForm
    /\ form.again > 0 => DOMAIN form.exact \cup form.loose # {}}

\* Mutants: only reimbursements lock a receipt, the positions are only counted.
ReceiptLocked_unlessBanked(r) == InReimbursement(r)
changesLockedReceiptFields_counted(r, head, form) ==
    \/ head # receipts[r].head
    \/ Entries(form) # Cardinality(DOMAIN receipts[r].positions)

ReceiptLocked(r) == Linked(r)

SameFields(old, new) == old = new \/ <<old, new>> \in SameMoney

\* As many entries as positions, each with the fields of the position that its
\* id, read with Number(), names.  Amounts are compared in cents rounded by
\* Math.round, and DECIMAL(10,2) rounds them again: 1.005 counts as 1.00 but is
\* stored as 1.01.
changesLockedReceiptFields(r, head, form) ==
    LET current == receipts[r].positions
    IN  \/ head # receipts[r].head
        \/ Entries(form) # Cardinality(DOMAIN current)
        \/ form.new # {}
        \/ ~(form.loose \subseteq DOMAIN current)
        \/ \E id \in DOMAIN form.exact :
              id \notin DOMAIN current \/ ~SameFields(current[id], form.exact[id])

\* A booked receipt keeps its status, fields and file; the rest is the form's.
\* Positions are matched by the id itself: one that the form does not name
\* exactly is deleted, and an id that matches none is neither updated nor new.
ReadReceiptPut(u, r, status, head, form, upload, remove) ==
    LET locked == ReceiptLocked(r)
        target == IF locked THEN receipts[r].status ELSE status
        fileAfterSave == upload \/ (receipts[r].files # {} /\ ~remove)
        current == DOMAIN receipts[r].positions
    IN  /\ receipts[r].status # "absent"
        /\ locked => ~upload /\ ~remove /\ ~changesLockedReceiptFields(r, head, form)
        /\ locked \/ receiptRequiresFile(target) => fileAfterSave
        /\ Begin(u, [op |-> "receipt", receipt |-> r, status |-> target, head |-> head,
                     del |-> current \ DOMAIN form.exact,
                     upd |-> Restrict(form.exact, DOMAIN form.exact \cap current),
                     ins |-> form.new,
                     misnamed |-> locked /\ (form.loose # {} \/ form.again > 0),
                     upload |-> upload,
                     detach |-> IF remove THEN ActiveFile(r) ELSE {}])

\* The positions after the plan's DELETEs and UPDATEs, with the new ones.
Saved(positions, plan, new) ==
    [id \in (DOMAIN positions \ plan.del) \cup DOMAIN new |->
        IF id \in DOMAIN new THEN new[id]
        ELSE IF id \in DOMAIN plan.upd THEN plan.upd[id] ELSE positions[id]]

WriteReceipt(u) ==
    LET plan == tx[u]
        old  == receipts[plan.receipt]
    IN  /\ plan.op = "receipt"
        /\ \E files \in IF plan.upload THEN {{f} : f \in FreshFiles(plan.receipt)} ELSE {{}},
              ids \in SUBSET FreshLines :
              \E new \in Bijection(ids, plan.ins) :
                 receipts' = [receipts EXCEPT ![plan.receipt] =
                     [status |-> plan.status, head |-> plan.head,
                      positions |-> Saved(old.positions, plan, new),
                      files |-> (old.files \ plan.detach) \cup files]]
        /\ End(u)
        /\ UNCHANGED <<invoices, reimbursement, reimPos, statements, bankPos>>

-----------------------------------------------------------------------------
(* Invoices.  paid_at is set exactly when the status is "paid" (every      *)
(* statement that writes one writes the other), so only the status is kept.*)

InvoiceCreate(i, status, content) ==
    /\ invoices[i].status = "absent"
    /\ invoices' = [invoices EXCEPT ![i] = [status |-> status, content |-> content]]
    /\ UNCHANGED <<receipts, reimbursement, reimPos, statements, bankPos, tx>>

\* Mutant: the link to a bank statement is not looked up.
InvoiceLocked_never(i) == FALSE
InvoiceLocked(i) == InStatement(i)

\* Mutant: a finalized invoice takes every status.
StatusUpdate_anyStatus(i, status, content, newDate) == content = invoices[i].content

\* A finalized invoice takes a new status or payment date.
StatusUpdate(i, status, content, newDate) ==
    /\ status # "draft"
    /\ content = invoices[i].content
    /\ status # invoices[i].status \/ newDate

ReadInvoicePut(u, i, status, content, newDate) ==
    /\ invoices[i].status # "absent"
    /\ ~InvoiceLocked(i)
    /\ newDate => status = "paid"
    /\ \/ /\ invoices[i].status = "draft"
          /\ Begin(u, [op |-> "invoice", invoice |-> i, status |-> status,
                       content |-> content, full |-> TRUE])
       \/ /\ invoices[i].status # "draft"
          /\ StatusUpdate(i, status, content, newDate)
          /\ Begin(u, [op |-> "invoice", invoice |-> i, status |-> status,
                       content |-> content, full |-> FALSE])

WriteInvoice(u) ==
    LET plan == tx[u]
    IN  /\ plan.op = "invoice"
        /\ invoices' = [invoices EXCEPT ![plan.invoice] =
               [status |-> plan.status,
                content |-> IF plan.full THEN plan.content
                                         ELSE invoices[plan.invoice].content]]
        /\ End(u)
        /\ UNCHANGED <<receipts, reimbursement, reimPos, statements, bankPos>>

-----------------------------------------------------------------------------
(* Reimbursements.                                                         *)

\* Mutants: no look at the bank statements, no look at the attachments.
ReimbursableReceipt_banked(r, m) ==
    /\ receipts[r].status \notin {"absent", "cancelled"}
    /\ receipts[r].files # {}
    /\ ~ReimbursedElsewhere(r, m)
ReimbursableReceipt_unfiled(r, m) ==
    /\ receipts[r].status \notin {"absent", "cancelled"}
    /\ ~ReimbursedElsewhere(r, m)
    /\ ~InStatement(r)

\* The status, file and conflict checks of create.post.ts and [id].put.ts.
ReimbursableReceipt(r, m) ==
    /\ receipts[r].status \notin {"absent", "cancelled"}
    /\ receipts[r].files # {}
    /\ ~ReimbursedElsewhere(r, m)
    /\ ~InStatement(r)

Reimbursable(R, m) == R # {} /\ \A r \in R : ReimbursableReceipt(r, m)

\* Mutant: "checked" locks instead of "disbursed".
isReimbursementLocked_checked(m) == reimbursement[m] = "checked"
isReimbursementLocked(m) == reimbursement[m] = "disbursed"

ReadReimbursementCreate(u, m, R, stage) ==
    /\ reimbursement[m] = "absent"
    /\ \A v \in Sessions : tx[v].op = "reimbursement" => tx[v].reim # m
    /\ Reimbursable(R, m)
    /\ Begin(u, [op |-> "reimbursement", reim |-> m, stage |-> stage,
                 unlocked |-> FALSE, del |-> {}, ins |-> R,
                 release |-> {}, mark |-> R])

ReadReimbursementPut(u, m, R, stage, unlocked) ==
    LET own  == ReimRowsOf(m)
        gone == {row \in own : row.receipt \notin R}
    IN  /\ reimbursement[m] # "absent"
        /\ isReimbursementLocked(m) => unlocked
        /\ Reimbursable(R, m)
        /\ Begin(u, [op |-> "reimbursement", reim |-> m, stage |-> stage,
                     unlocked |-> unlocked, del |-> Ids(gone),
                     ins |-> R \ {row.receipt : row \in own},
                     release |-> {r \in {row.receipt : row \in gone} :
                         ~ReimbursedElsewhere(r, m) /\ ~InStatement(r)},
                     mark |-> R])

\* Mutant: no unique key.
ReimKeyFree_always(rows, R) == TRUE

\* UNIQUE(receipt_id) of reimbursement_positions, met by the INSERTs for R.
ReimKeyFree(rows, R) == \A row \in rows : row.receipt \notin R

\* releaseRemovedReimbursementReceipts only reopens what is "paid".
WriteReimbursement(u) ==
    LET plan == tx[u]
        kept == {row \in reimPos : row.id \notin plan.del}
    IN  /\ plan.op = "reimbursement"
        /\ ReimKeyFree(kept, plan.ins)
        /\ \E newId \in Injection(plan.ins, FreshRPos) :
              reimPos' = kept \cup
                  {[id |-> newId[r], reim |-> plan.reim, receipt |-> r] : r \in plan.ins}
        /\ reimbursement' = [reimbursement EXCEPT ![plan.reim] = plan.stage]
        /\ receipts' = [r \in Receipts |-> [receipts[r] EXCEPT !.status =
               Settled(r, @, plan.mark, statusFromReimbursement(plan.stage), plan.release)]]
        /\ End(u)
        /\ UNCHANGED <<invoices, statements, bankPos>>

-----------------------------------------------------------------------------
(* Bank statements.  A statement is locked as soon as it is saved: every   *)
(* change goes through the unlock permission, so the lock is no guard here.*)

\* validateBankStatementRelations for one position.
Payable(x, b) ==
    \/ x = EventBooking
    \/ /\ x \in Receipts
       /\ receipts[x].status \in {"open", "paid"}
       /\ receipts[x].files # {}
       /\ ~InReimbursement(x)
       /\ ~PaidElsewhere(x, b)
    \/ /\ x \in Invoices
       /\ invoices[x].status \in {"open", "paid"}
       /\ ~PaidElsewhere(x, b)

ReadStatementCreate(u, b, add) ==
    /\ b \notin statements
    /\ \A v \in Sessions : tx[v].op = "statement" => tx[v].stmt # b
    /\ add # {}
    /\ \A x \in add : Payable(x, b)
    /\ Begin(u, [op |-> "statement", stmt |-> b, del |-> {}, upd |-> <<>>,
                 ins |-> add, release |-> {}, pay |-> add \ {EventBooking}])

\* The form lists positions it knows by id (keep) and new ones (add).  An id
\* the statement no longer has is skipped, its target is still marked paid.
ReadStatementPut(u, b, keep, add) ==
    LET own  == BankRowsOf(b)
        gone == {row \in own : row.id \notin DOMAIN keep}
        form == Range(keep) \cup add
    IN  /\ b \in statements
        /\ form # {}
        /\ \A x \in form : Payable(x, b)
        /\ Begin(u, [op |-> "statement", stmt |-> b, del |-> Ids(gone),
                     upd |-> Restrict(keep, DOMAIN keep \cap Ids(own)),
                     ins |-> add,
                     release |-> {x \in {row.pays : row \in gone} \ {EventBooking} :
                         ~InReimbursement(x) /\ ~PaidElsewhere(x, b)},
                     pay |-> form \ {EventBooking}])

\* Position by position the UPDATEs meet UNIQUE(receipt_id), UNIQUE(invoice_id):
\* some order succeeds unless positions exchange their targets in a cycle.
UpdatesCollide(rows, upd) ==
    \E moved \in SUBSET {row \in rows :
            row.id \in DOMAIN upd /\ upd[row.id] # row.pays /\ row.pays # EventBooking} :
        /\ moved # {}
        /\ {upd[row.id] : row \in moved} = {row.pays : row \in moved}

Retarget(row, upd) ==
    [id |-> row.id, stmt |-> row.stmt,
     pays |-> IF row.id \in DOMAIN upd THEN upd[row.id] ELSE row.pays]

WriteStatement(u) ==
    LET plan    == tx[u]
        kept    == {row \in bankPos : row.id \notin plan.del}
        updated == {Retarget(row, plan.upd) : row \in kept}
    IN  /\ plan.op = "statement"
        /\ ~UpdatesCollide(kept, plan.upd)
        /\ \A row, other \in updated :
              row.pays = other.pays /\ row.pays # EventBooking => row.id = other.id
        /\ \A row \in updated : row.pays \in plan.ins => row.pays = EventBooking
        /\ \E newId \in Injection(plan.ins, FreshBPos) :
              bankPos' = updated \cup
                  {[id |-> newId[x], stmt |-> plan.stmt, pays |-> x] : x \in plan.ins}
        /\ statements' = statements \cup {plan.stmt}
        /\ receipts' = [r \in Receipts |->
               [receipts[r] EXCEPT !.status =
                  Settled(r, @, plan.pay, "paid", plan.release)]]
        /\ invoices' = [i \in Invoices |->
               [invoices[i] EXCEPT !.status =
                  Settled(i, @, plan.pay, "paid", plan.release)]]
        /\ End(u)
        /\ UNCHANGED <<reimbursement, reimPos>>

-----------------------------------------------------------------------------
\* The position lists a form can hold: known ids with targets, new targets.
Forms == {form \in [keep : UNION {[K -> Targets] : K \in SUBSET BPos},
                    add : SUBSET Targets] :
    Cardinality(DOMAIN form.keep) + Cardinality(form.add) <= MaxForm}

Existing ==
    {r \in Receipts : receipts[r].status # "absent"}
    \cup {i \in Invoices : invoices[i].status # "absent"}

Create ==
  /\ Cardinality(Existing) < MaxRecords
  /\ \/ \E r \in Receipts, status \in Status, head \in Heads,
             positions \in Positions, files \in SUBSET FileIds :
             /\ DOMAIN positions \subseteq FreshLines
             /\ ReceiptCreate(r, status, head, positions, files)
     \/ \E i \in Invoices, status \in Status, content \in Contents :
             InvoiceCreate(i, status, content)

\* Begin says it too; said first, it spares TLC the forms of a busy session.
Read(u) ==
  /\ tx[u] = NoTx
  /\ \/ \E r \in Receipts, status \in Status, head \in Heads, form \in ReceiptForms,
           upload, remove \in BOOLEAN :
           ReadReceiptPut(u, r, status, head, form, upload, remove)
     \/ \E i \in Invoices, status \in Status, content \in Contents, newDate \in BOOLEAN :
           ReadInvoicePut(u, i, status, content, newDate)
     \/ \E m \in Reimbursements, R \in SUBSET Receipts, stage \in Stages :
           ReadReimbursementCreate(u, m, R, stage)
     \/ \E m \in Reimbursements, R \in SUBSET Receipts, stage \in Stages,
           unlocked \in BOOLEAN :
           ReadReimbursementPut(u, m, R, stage, unlocked)
     \/ \E b \in Statements, add \in SUBSET Targets :
           Cardinality(add) <= MaxForm /\ ReadStatementCreate(u, b, add)
     \/ \E b \in Statements, form \in Forms :
           ReadStatementPut(u, b, form.keep, form.add)

Write(u) ==
    \/ WriteReceipt(u)
    \/ WriteInvoice(u)
    \/ WriteReimbursement(u)
    \/ WriteStatement(u)

Next == Create \/ \E u \in Sessions : Read(u) \/ Write(u) \/ Rollback(u)

Spec == Init /\ [][Next]_vars

-----------------------------------------------------------------------------
(* Properties.                                                             *)

\* A receipt is paid by one kind of payment only: the conflict checks of
\* reimbursements/create.post.ts, [id].put.ts and validateBankStatementRelations
\* keep a reimbursed receipt off the bank statements and the other way round.
NoDoublePayment ==
    \A row \in reimPos, booking \in bankPos : row.receipt # booking.pays

\* No receipt is in two reimbursements and no receipt or invoice in two bank
\* statement positions, however requests interleave: the handlers check a
\* snapshot, the unique keys of the position tables decide.
UniqueBookings ==
    /\ \A row, other \in reimPos : row.receipt = other.receipt => row = other
    /\ \A row, other \in bankPos :
          row.pays = other.pays /\ row.pays # EventBooking => row = other

\* The status of a booked record is the one its payment record gives it,
\* whatever was edited since on either side.
BookedStatus ==
    /\ \A row \in reimPos :
          receipts[row.receipt].status = statusFromReimbursement(reimbursement[row.reim])
    /\ \A row \in bankPos :
          /\ row.pays \in Receipts => receipts[row.pays].status = "paid"
          /\ row.pays \in Invoices => invoices[row.pays].status = "paid"

\* A booked receipt never loses its document.
BookedReceiptsHaveFile == \A r \in Receipts : Linked(r) => receipts[r].files # {}

\* A reimbursement always covers at least one receipt.
ReimbursementsCoverReceipts ==
    \A m \in Reimbursements : reimbursement[m] # "absent" => ReimRowsOf(m) # {}

\* While a receipt stays booked, its company, date, number and file do not change,
\* no position is added and none altered but by an amount that rounds otherwise in
\* the lock than in the table.  Positions can only be lost, and only to a form that
\* names one twice or by something else than its number: the lock counts the entries
\* and compares Number(id) (receipts.ts), the save matches the id itself.
BookedReceiptsFrozen ==
    [][\A r \in Receipts : Linked(r) /\ Linked(r)' =>
          /\ receipts'[r].head = receipts[r].head
          /\ receipts'[r].files = receipts[r].files
          /\ DOMAIN receipts'[r].positions \subseteq DOMAIN receipts[r].positions
          /\ \A id \in DOMAIN receipts'[r].positions :
                SameFields(receipts[r].positions[id], receipts'[r].positions[id])
          /\ DOMAIN receipts'[r].positions # DOMAIN receipts[r].positions =>
                \E u \in Sessions : /\ tx[u].op = "receipt"
                                    /\ tx[u].receipt = r
                                    /\ tx[u].misnamed]_vars

\* A finalized invoice never becomes a draft again nor changes its contents.
FinalizedInvoicesFrozen ==
    [][\A i \in Invoices : invoices[i].status \notin {"absent", "draft"} =>
          /\ invoices'[i].status # "draft"
          /\ invoices'[i].content = invoices[i].content]_vars

\* A disbursed reimbursement changes, in its stage or its receipts, only by a
\* request that unlocked it.
DisbursedOnlyUnlocked ==
    [][\A m \in Reimbursements :
          /\ reimbursement[m] = "disbursed"
          /\ <<reimbursement[m], ReimRowsOf(m)>> # <<reimbursement'[m], ReimRowsOf(m)'>>
          => \E u \in Sessions : /\ tx[u].op = "reimbursement"
                                 /\ tx[u].reim = m
                                 /\ tx[u].unlocked]_vars

\* Receipts and invoices that leave a bank statement are open again unless a
\* payment record still covers them: "back to 'open' unless another payment
\* record still covers them" (bank_statements/[id].put.ts).
UnbookedByStatementReopens ==
    [][\A u \in Sessions : WriteStatement(u) => \A r \in Receipts :
          InStatement(r) /\ ~Linked(r)' => receipts'[r].status = "open"]_vars

-----------------------------------------------------------------------------
(* What a handler checked before it writes.                                *)

ReceiptPlanJustified(plan) ==
    Linked(plan.receipt) =>
        /\ plan.status = receipts[plan.receipt].status
        /\ plan.head = receipts[plan.receipt].head
        /\ plan.detach = {}
        /\ ~plan.upload
        /\ plan.ins = {}
        /\ \A id \in DOMAIN plan.upd : 
              SameFields(receipts[plan.receipt].positions[id], plan.upd[id])
        /\ plan.del # {} => plan.misnamed

InvoicePlanJustified(plan) ==
    /\ invoices[plan.invoice].status # "absent"
    /\ ~InStatement(plan.invoice)
    /\ invoices[plan.invoice].status = "draft" <=> plan.full
    /\ ~plan.full => plan.status # "draft"

ReimbursementPlanJustified(plan) ==
    /\ Reimbursable(plan.mark, plan.reim)
    /\ plan.ins \subseteq plan.mark
    /\ reimbursement[plan.reim] = "disbursed" => plan.unlocked
    /\ \A row \in ReimRowsOf(plan.reim) : row.id \in plan.del \/ row.receipt \in plan.mark
    /\ \A row \in reimPos : row.id \in plan.del => row.reim = plan.reim
    /\ \A r \in plan.mark \ plan.ins :
          \E row \in ReimRowsOf(plan.reim) : row.receipt = r /\ row.id \notin plan.del
    /\ \A r \in plan.release : ~ReimbursedElsewhere(r, plan.reim) /\ ~InStatement(r)

StatementPlanJustified(plan) ==
    /\ \A x \in plan.pay : Payable(x, plan.stmt)
    /\ plan.ins \subseteq plan.pay \cup {EventBooking}
    /\ \A id \in DOMAIN plan.upd : plan.upd[id] \in plan.pay \cup {EventBooking}
    /\ \A row \in BankRowsOf(plan.stmt) : row.id \in plan.del \cup DOMAIN plan.upd
    /\ \A row \in bankPos :
          row.id \in plan.del \cup DOMAIN plan.upd => row.stmt = plan.stmt
    /\ \A x \in plan.release : ~InReimbursement(x) /\ ~PaidElsewhere(x, plan.stmt)

Justified(plan) ==
    /\ plan.op = "receipt" => ReceiptPlanJustified(plan)
    /\ plan.op = "invoice" => InvoicePlanJustified(plan)
    /\ plan.op = "reimbursement" => ReimbursementPlanJustified(plan)
    /\ plan.op = "statement" => StatementPlanJustified(plan)

\* Every position row has an id and belongs to a record that exists.
RowIds ==
    /\ \A row, other \in reimPos : row.id = other.id => row = other
    /\ \A row, other \in bankPos : row.id = other.id => row = other
RowsOwned ==
    /\ \A row \in reimPos : reimbursement[row.reim] # "absent"
    /\ \A row \in bankPos : row.stmt \in statements

\* The inductive invariant of a system without overlapping requests: what pays
\* a record, the record's status and its document agree, and what the open
\* request was allowed for still holds when it writes.
SerialInv ==
    /\ RowIds
    /\ RowsOwned
    /\ NoDoublePayment
    /\ BookedStatus
    /\ BookedReceiptsHaveFile
    /\ ReimbursementsCoverReceipts
    /\ \A u \in Sessions : Justified(tx[u])

\* At most one transaction is open.
NoOverlap == \A u, v \in Sessions : tx[u] # NoTx /\ tx[v] # NoTx => u = v

-----------------------------------------------------------------------------
(* The payment ledger that the tables stand for.                           *)

Records == Receipts \cup Invoices
Payers == ({"reimbursement"} \X Reimbursements) \cup ({"statement"} \X Statements)
Nobody == <<"nobody", "nobody">>

Reimburser(x) == (CHOOSE row \in reimPos : row.receipt = x).reim
Statement(x) == (CHOOSE row \in bankPos : row.pays = x).stmt

PaidBy(x) ==
    IF InReimbursement(x) THEN <<"reimbursement", Reimburser(x)>>
    ELSE IF InStatement(x) THEN <<"statement", Statement(x)>> ELSE Nobody

StatusOf(x) == IF x \in Receipts THEN receipts[x].status ELSE invoices[x].status

Ledger == INSTANCE PaymentLedger WITH
    Unpaid <- Nobody,
    Statuses <- Status \cup {"absent"},
    payer <- [x \in Records |-> PaidBy(x)],
    status <- [x \in Records |-> StatusOf(x)]

\* Requests that do not overlap behave like the payment ledger: a reimbursement or
\* a bank statement takes over only what is free, gives its records their status in
\* one step with their booking, and never touches what another payment covers.
ImplementsLedger == Ledger!Spec

=============================================================================
