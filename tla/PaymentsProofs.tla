--------------------------- MODULE PaymentsProofs ---------------------------
(***************************************************************************)
(* Theorems about Payments for every set of records, sessions and bounds,  *)
(* and that it implements PaymentLedger as long as no two requests overlap.*)
(***************************************************************************)
EXTENDS Payments, FiniteSetTheorems, TLAPS

\* What statusFromReimbursement returns is a receipt status.
LEMMA StageStatus ==
    ASSUME NEW stage
    PROVE  statusFromReimbursement(stage) \in {"paid", "open", "draft"}
  BY DEF statusFromReimbursement

\* The fields shown for a record that does not exist yet.
LEMMA AnyContentType == AnyContent \in Contents /\ AnyHead \in Heads
  BY ContentsAssumption DEF AnyContent, AnyHead

\* Saving a receipt's positions: rows that the plan does not delete, with fields
\* of the form or their own, and the new ones.
LEMMA SavedType ==
    ASSUME NEW positions \in Positions, NEW plan \in ReceiptPlan,
           NEW ids \in SUBSET Lines, NEW new \in Bijection(ids, plan.ins)
    PROVE  Saved(positions, plan, new) \in Positions
<1>1. new \in [ids -> plan.ins] /\ plan.ins \subseteq Contents
  BY DEF Bijection, Injection, ReceiptPlan
<1>2. PICK K \in SUBSET Lines : positions \in [K -> Contents]
  BY DEF Positions
<1>3. PICK U \in SUBSET Lines : plan.upd \in [U -> Contents]
  BY DEF Positions, ReceiptPlan
<1>4. Saved(positions, plan, new) \in [(K \ plan.del) \cup ids -> Contents]
  BY <1>1, <1>2, <1>3 DEF Saved
<1>5. QED
  BY <1>4 DEF Positions

\* A form that has as many entries as a receipt has positions, and names only such
\* positions, each once and by its number, names all of them.
LEMMA FormNamesAll ==
    ASSUME NEW current \in Positions, NEW form \in ReceiptForms,
           Entries(form) = Cardinality(DOMAIN current),
           form.loose = {}, form.new = {}, ~(form.again > 0),
           DOMAIN form.exact \subseteq DOMAIN current
    PROVE  DOMAIN form.exact = DOMAIN current
<1>1. DOMAIN current \subseteq Lines
  BY DEF Positions
<1>2. IsFiniteSet(DOMAIN current) /\ IsFiniteSet(DOMAIN form.exact)
  BY <1>1, LinesAssumption, FS_Subset
<1>3. Cardinality(DOMAIN form.exact) \in Nat /\ Cardinality({}) = 0
  BY <1>2, FS_CardinalityType, FS_EmptySet
<1>4. form.again = 0
  BY MaxFormAssumption DEF ReceiptForms
<1>5. Cardinality(DOMAIN form.exact) = Cardinality(DOMAIN current)
  BY <1>3, <1>4 DEF Entries
<1>6. QED
  BY <1>2, <1>5, FS_Subset

\* Beginning a transaction with a well-formed plan keeps the types.
LEMMA BeginType ==
    ASSUME TypeOK, NEW u \in Sessions, NEW plan \in Plans, Begin(u, plan)
    PROVE  TypeOK'
  BY DEF TypeOK, Begin, tables

\* A handler that passed its checks opens a transaction with a well-formed plan.
LEMMA ReadBegins ==
    ASSUME TypeOK, NEW u \in Sessions, Read(u)
    PROVE  \E p \in Plans : Begin(u, p)
<1>1. ASSUME NEW r \in Receipts, NEW status \in Status,
             NEW head \in Heads, NEW form \in ReceiptForms,
             NEW upload \in BOOLEAN, NEW remove \in BOOLEAN,
             ReadReceiptPut(u, r, status, head, form, upload, remove)
      PROVE  \E p \in Plans : Begin(u, p)
  <2> DEFINE current == DOMAIN receipts[r].positions
             plan == [op |-> "receipt", receipt |-> r,
                      status |-> IF ReceiptLocked(r) THEN receipts[r].status ELSE status,
                      head |-> head,
                      del |-> current \ DOMAIN form.exact,
                      upd |-> Restrict(form.exact, DOMAIN form.exact \cap current),
                      ins |-> form.new,
                      misnamed |-> ReceiptLocked(r) /\ (form.loose # {} \/ form.again > 0),
                      upload |-> upload,
                      detach |-> IF remove THEN ActiveFile(r) ELSE {}]
  <2>1. plan \in ReceiptPlan
    <3>1. receipts[r].positions \in Positions /\ form.exact \in Positions
      BY DEF TypeOK, ReceiptForms
    <3>2. current \subseteq Lines
      BY <3>1 DEF Positions
    <3>3. plan.upd \in Positions
      <4>1. PICK K \in SUBSET Lines : form.exact \in [K -> Contents]
        BY <3>1 DEF Positions
      <4>2. plan.upd \in [K \cap current -> Contents]
        BY <4>1 DEF Restrict
      <4>3. QED
        BY <4>2 DEF Positions
    <3>4. form.new \subseteq Contents
      BY DEF ReceiptForms
    <3>5. plan.status \in Status /\ plan.detach \subseteq FileIds
      BY <1>1 DEF TypeOK, ReadReceiptPut, ActiveFile
    <3>6. plan.misnamed \in BOOLEAN
      BY DEF ReceiptLocked, Linked, InReimbursement, InStatement
    <3>7. QED
      BY <3>2, <3>3, <3>4, <3>5, <3>6 DEF ReceiptPlan
  <2>2. Begin(u, plan)
    BY <1>1 DEF ReadReceiptPut
  <2>3. QED
    BY <2>1, <2>2 DEF Plans
<1>2. ASSUME NEW i \in Invoices, NEW status \in Status,
             NEW content \in Contents, NEW newDate \in BOOLEAN,
             ReadInvoicePut(u, i, status, content, newDate)
      PROVE  \E p \in Plans : Begin(u, p)
  <2> DEFINE plan(full) == [op |-> "invoice", invoice |-> i, status |-> status,
                            content |-> content, full |-> full]
  <2>1. \A full \in BOOLEAN : plan(full) \in Plans
    BY DEF InvoicePlan, Plans
  <2>2. Begin(u, plan(TRUE)) \/ Begin(u, plan(FALSE))
    BY <1>2 DEF ReadInvoicePut
  <2>3. QED
    BY <2>1, <2>2
<1>3. ASSUME NEW m \in Reimbursements, NEW R \in SUBSET Receipts,
             NEW stage \in Stages, ReadReimbursementCreate(u, m, R, stage)
      PROVE  \E p \in Plans : Begin(u, p)
  <2> DEFINE plan == [op |-> "reimbursement", reim |-> m, stage |-> stage,
                      unlocked |-> FALSE, del |-> {}, ins |-> R,
                      release |-> {}, mark |-> R]
  <2>1. plan \in Plans
    BY DEF ReimbursementPlan, Plans
  <2>2. Begin(u, plan)
    BY <1>3 DEF ReadReimbursementCreate
  <2>3. QED
    BY <2>1, <2>2
<1>4. ASSUME NEW m \in Reimbursements, NEW R \in SUBSET Receipts,
             NEW stage \in Stages, NEW unlocked \in BOOLEAN,
             ReadReimbursementPut(u, m, R, stage, unlocked)
      PROVE  \E p \in Plans : Begin(u, p)
  <2> DEFINE own  == ReimRowsOf(m)
             gone == {row \in own : row.receipt \notin R}
             plan == [op |-> "reimbursement", reim |-> m, stage |-> stage,
                      unlocked |-> unlocked, del |-> Ids(gone),
                      ins |-> R \ {row.receipt : row \in own},
                      release |-> {r \in {row.receipt : row \in gone} :
                          ~ReimbursedElsewhere(r, m) /\ ~InStatement(r)},
                      mark |-> R]
  <2>1. plan.del \in SUBSET RPos /\ plan.release \in SUBSET Receipts
    BY DEF TypeOK, ReimRow, ReimRowsOf, Ids
  <2>2. plan \in ReimbursementPlan
    BY <2>1 DEF ReimbursementPlan
  <2>3. Begin(u, plan)
    BY <1>4 DEF ReadReimbursementPut
  <2>4. QED
    BY <2>2, <2>3 DEF Plans
<1>5. ASSUME NEW b \in Statements, NEW add \in SUBSET Targets,
             ReadStatementCreate(u, b, add)
      PROVE  \E p \in Plans : Begin(u, p)
  <2> DEFINE plan == [op |-> "statement", stmt |-> b, del |-> {}, upd |-> <<>>,
                      ins |-> add, release |-> {}, pay |-> add \ {EventBooking}]
  <2>1. plan.upd \in [{} -> Targets]
    OBVIOUS
  <2>2. plan.pay \in SUBSET (Receipts \cup Invoices)
    BY DEF Targets
  <2>3. plan \in StatementPlan
    BY <2>1, <2>2 DEF StatementPlan
  <2>4. Begin(u, plan)
    BY <1>5 DEF ReadStatementCreate
  <2>5. QED
    BY <2>3, <2>4 DEF Plans
<1>6. ASSUME NEW b \in Statements, NEW form \in Forms,
             ReadStatementPut(u, b, form.keep, form.add)
      PROVE  \E p \in Plans : Begin(u, p)
  <2> DEFINE own  == BankRowsOf(b)
             gone == {row \in own : row.id \notin DOMAIN form.keep}
             all  == Range(form.keep) \cup form.add
             plan == [op |-> "statement", stmt |-> b, del |-> Ids(gone),
                      upd |-> Restrict(form.keep, DOMAIN form.keep \cap Ids(own)),
                      ins |-> form.add,
                      release |-> {x \in {row.pays : row \in gone} \ {EventBooking} :
                          ~InReimbursement(x) /\ ~PaidElsewhere(x, b)},
                      pay |-> all \ {EventBooking}]
  <2>1. PICK K \in SUBSET BPos : form.keep \in [K -> Targets]
    BY DEF Forms
  <2>2. form.add \in SUBSET Targets
    BY DEF Forms
  <2>3. plan.upd \in [K \cap Ids(own) -> Targets]
    BY <2>1 DEF Restrict
  <2>4. plan.pay \in SUBSET (Receipts \cup Invoices)
    BY <2>1, <2>2 DEF Targets, Range
  <2>5. plan.release \in SUBSET (Receipts \cup Invoices) /\ plan.del \in SUBSET BPos
    BY DEF TypeOK, BankRow, BankRowsOf, Ids, Targets
  <2>6. plan \in StatementPlan
    BY <2>2, <2>3, <2>4, <2>5 DEF StatementPlan
  <2>7. Begin(u, plan)
    BY <1>6 DEF ReadStatementPut
  <2>8. QED
    BY <2>6, <2>7 DEF Plans
<1>7. QED
  BY <1>1, <1>2, <1>3, <1>4, <1>5, <1>6 DEF Read

\* The plan of a write is of the kind the write applies.
LEMMA OpenPlan ==
    ASSUME TypeOK, NEW u \in Sessions
    PROVE  /\ tx[u].op = "receipt" => tx[u] \in ReceiptPlan
           /\ tx[u].op = "invoice" => tx[u] \in InvoicePlan
           /\ tx[u].op = "reimbursement" => tx[u] \in ReimbursementPlan
           /\ tx[u].op = "statement" => tx[u] \in StatementPlan
  BY DEF TypeOK, Plans, NoTx, ReceiptPlan, InvoicePlan, ReimbursementPlan, StatementPlan

\* The type invariant of the tables and of the open plans, for every set of
\* records, whatever the requests in flight: each handler writes well-formed
\* rows only.
THEOREM TypeCorrect == Spec => []TypeOK
<1>1. Init => TypeOK
  <2>1. <<>> \in Positions
    <3>1. <<>> \in [{} -> Contents]
      OBVIOUS
    <3>2. QED
      BY <3>1 DEF Positions
  <2>2. QED
    BY <2>1, AnyContentType DEF Init, TypeOK, Plans, NoTx
<1>2. TypeOK /\ [Next]_vars => TypeOK'
  <2> SUFFICES ASSUME TypeOK, [Next]_vars PROVE TypeOK'
    OBVIOUS
  <2>1. ASSUME NEW r \in Receipts, NEW status \in Status, NEW head \in Heads,
               NEW positions \in Positions, NEW files \in SUBSET FileIds,
               ReceiptCreate(r, status, head, positions, files)
        PROVE  TypeOK'
    BY <2>1 DEF ReceiptCreate, TypeOK
  <2>2. ASSUME NEW i \in Invoices, NEW status \in Status, NEW content \in Contents,
               InvoiceCreate(i, status, content)
        PROVE  TypeOK'
    BY <2>2 DEF InvoiceCreate, TypeOK
  <2>3. ASSUME NEW u \in Sessions, Read(u) PROVE TypeOK'
    BY <2>3, ReadBegins, BeginType
  <2>4. ASSUME NEW u \in Sessions, WriteReceipt(u) PROVE TypeOK'
    <3>1. tx[u] \in ReceiptPlan
      BY <2>4, OpenPlan DEF WriteReceipt
    <3> DEFINE chosen ==
          IF tx[u].upload THEN {{f} : f \in FreshFiles(tx[u].receipt)} ELSE {{}}
    <3>a. chosen \subseteq SUBSET FileIds /\ FreshLines \subseteq Lines
      BY DEF FreshFiles, FreshLines
    <3>b. \E files \in chosen, ids \in SUBSET FreshLines :
            \E new \in Bijection(ids, tx[u].ins) :
             receipts' = [receipts EXCEPT ![tx[u].receipt] =
                 [status |-> tx[u].status, head |-> tx[u].head,
                  positions |-> Saved(receipts[tx[u].receipt].positions, tx[u], new),
                  files |-> (receipts[tx[u].receipt].files \ tx[u].detach) \cup files]]
      BY <2>4 DEF WriteReceipt
    <3> HIDE DEF chosen
    <3>2. PICK files \in SUBSET FileIds, ids \in SUBSET Lines :
            \E new \in Bijection(ids, tx[u].ins) :
             receipts' = [receipts EXCEPT ![tx[u].receipt] =
                 [status |-> tx[u].status, head |-> tx[u].head,
                  positions |-> Saved(receipts[tx[u].receipt].positions, tx[u], new),
                  files |-> (receipts[tx[u].receipt].files \ tx[u].detach) \cup files]]
      BY <3>a, <3>b
    <3>3. tx[u].receipt \in Receipts
      BY <3>1 DEF ReceiptPlan
    <3> PICK new \in Bijection(ids, tx[u].ins) :
             receipts' = [receipts EXCEPT ![tx[u].receipt] =
                 [status |-> tx[u].status, head |-> tx[u].head,
                  positions |-> Saved(receipts[tx[u].receipt].positions, tx[u], new),
                  files |-> (receipts[tx[u].receipt].files \ tx[u].detach) \cup files]]
      BY <3>2
    <3>4. receipts[tx[u].receipt].positions \in Positions
      BY <3>3 DEF TypeOK
    <3>5. Saved(receipts[tx[u].receipt].positions, tx[u], new) \in Positions
      BY <3>1, <3>4, SavedType
    <3>6. QED
      BY <2>4, <3>1, <3>3, <3>5 DEF TypeOK, WriteReceipt, ReceiptPlan, End
  <2>5. ASSUME NEW u \in Sessions, WriteInvoice(u) PROVE TypeOK'
    <3>1. tx[u] \in InvoicePlan
      BY <2>5, OpenPlan DEF WriteInvoice
    <3>2. QED
      BY <2>5, <3>1 DEF TypeOK, WriteInvoice, InvoicePlan, End
  <2>6. ASSUME NEW u \in Sessions, WriteReimbursement(u) PROVE TypeOK'
    <3>1. tx[u] \in ReimbursementPlan
      BY <2>6, OpenPlan DEF WriteReimbursement
    <3>2. reimPos' \subseteq ReimRow
      BY <2>6, <3>1 DEF TypeOK, WriteReimbursement, ReimbursementPlan, ReimRow,
                        Injection, FreshRPos
    <3>3. receipts' \in [Receipts -> [status : Status \cup {"absent"}, head : Heads,
                                      positions : Positions, files : SUBSET FileIds]]
      <4>1. PICK new \in Status : new = statusFromReimbursement(tx[u].stage)
        BY StageStatus DEF Status
      <4>2. receipts' = [r \in Receipts |-> [receipts[r] EXCEPT !.status =
                           Settled(r, @, tx[u].mark, new, tx[u].release)]]
        BY <2>6, <4>1 DEF WriteReimbursement
      <4>3. ASSUME NEW r \in Receipts
            PROVE  Settled(r, receipts[r].status, tx[u].mark, new, tx[u].release)
                     \in Status \cup {"absent"}
        BY <4>1 DEF TypeOK, Status, Settled
      <4>4. QED
        BY <4>2, <4>3 DEF TypeOK
    <3>4. QED
      BY <2>6, <3>1, <3>2, <3>3 DEF TypeOK, WriteReimbursement, ReimbursementPlan, End
  <2>7. ASSUME NEW u \in Sessions, WriteStatement(u) PROVE TypeOK'
    <3>1. tx[u] \in StatementPlan
      BY <2>7, OpenPlan DEF WriteStatement
    <3>2. bankPos' \subseteq BankRow
      BY <2>7, <3>1 DEF TypeOK, WriteStatement, StatementPlan, BankRow, Injection,
                        FreshBPos, Retarget
    <3>3. /\ receipts' \in [Receipts -> [status : Status \cup {"absent"}, head : Heads,
                                         positions : Positions, files : SUBSET FileIds]]
          /\ invoices' \in [Invoices -> [status : Status \cup {"absent"},
                                         content : Contents]]
      BY <2>7 DEF TypeOK, WriteStatement, Status, Settled
    <3>4. QED
      BY <2>7, <3>1, <3>2, <3>3 DEF TypeOK, WriteStatement, StatementPlan, End
  <2>8. ASSUME NEW u \in Sessions, Rollback(u) PROVE TypeOK'
    BY <2>8 DEF Rollback, TypeOK, End, tables
  <2>9. CASE UNCHANGED vars
    BY <2>9 DEF vars, TypeOK
  <2>10. QED
    BY <2>1, <2>2, <2>3, <2>4, <2>5, <2>6, <2>7, <2>8, <2>9 DEF Next, Create, Write
<1>3. QED
  BY <1>1, <1>2, PTL DEF Spec

-----------------------------------------------------------------------------
\* New rows of reimbursement_positions have ids of their own and receipts that
\* no other row has.
LEMMA NewReimRows ==
    ASSUME TypeOK, RowIds, UniqueBookings, NEW u \in Sessions, WriteReimbursement(u)
    PROVE  \A row, other \in reimPos' :
              row.id = other.id \/ row.receipt = other.receipt => row = other
<1> DEFINE kept == {row \in reimPos : row.id \notin tx[u].del}
<1>1. PICK newId \in Injection(tx[u].ins, FreshRPos) :
          reimPos' = kept \cup
              {[id |-> newId[r], reim |-> tx[u].reim, receipt |-> r] : r \in tx[u].ins}
  BY DEF WriteReimbursement
<1>2. \A row \in kept : row.receipt \notin tx[u].ins
  BY DEF WriteReimbursement, ReimKeyFree
<1>3. \A row \in kept, r \in tx[u].ins : row.id # newId[r]
  BY DEF Injection, FreshRPos, Ids
<1>4. \A r, s \in tx[u].ins : newId[r] = newId[s] => r = s
  BY DEF Injection, IsInjective
<1>5. QED
  BY <1>1, <1>2, <1>3, <1>4 DEF RowIds, UniqueBookings

\* The same for bank_statement_positions, whose rows may also change target.
LEMMA NewBankRows ==
    ASSUME TypeOK, RowIds, UniqueBookings, NEW u \in Sessions, WriteStatement(u)
    PROVE  \A row, other \in bankPos' :
              row.id = other.id \/ (row.pays = other.pays /\ row.pays # EventBooking)
              => row = other
<1> DEFINE kept    == {row \in bankPos : row.id \notin tx[u].del}
           updated == {Retarget(row, tx[u].upd) : row \in kept}
<1>1. PICK newId \in Injection(tx[u].ins, FreshBPos) :
          bankPos' = updated \cup
              {[id |-> newId[x], stmt |-> tx[u].stmt, pays |-> x] : x \in tx[u].ins}
  BY DEF WriteStatement
<1>2. \A row, other \in updated :
          row.pays = other.pays /\ row.pays # EventBooking => row.id = other.id
  BY DEF WriteStatement
<1>3. \A row \in updated : row.pays \in tx[u].ins => row.pays = EventBooking
  BY DEF WriteStatement
<1>4. \A row, other \in updated : row.id = other.id => row = other
  BY DEF Retarget, RowIds
<1>5. \A row \in updated, x \in tx[u].ins : row.id # newId[x]
  BY DEF Injection, FreshBPos, Ids, Retarget
<1>6. \A x, y \in tx[u].ins : newId[x] = newId[y] => x = y
  BY DEF Injection, IsInjective
<1>7. QED
  BY <1>1, <1>2, <1>3, <1>4, <1>5, <1>6

\* Position rows are unique by their id, whatever the requests in flight.
LEMMA BookingsInductive == Spec => [](RowIds /\ UniqueBookings)
<1>1. Init => RowIds /\ UniqueBookings
  BY DEF Init, RowIds, UniqueBookings
<1>2. TypeOK /\ RowIds /\ UniqueBookings /\ [Next]_vars => (RowIds /\ UniqueBookings)'
  <2> SUFFICES ASSUME TypeOK, RowIds, UniqueBookings, [Next]_vars
               PROVE  (RowIds /\ UniqueBookings)'
    OBVIOUS
  <2>1. CASE UNCHANGED <<reimPos, bankPos>>
    BY <2>1 DEF RowIds, UniqueBookings
  <2>2. ASSUME NEW u \in Sessions, WriteReimbursement(u)
        PROVE  (RowIds /\ UniqueBookings)'
    <3>1. UNCHANGED bankPos
      BY <2>2 DEF WriteReimbursement
    <3>2. QED
      BY <2>2, <3>1, NewReimRows DEF RowIds, UniqueBookings
  <2>3. ASSUME NEW u \in Sessions, WriteStatement(u)
        PROVE  (RowIds /\ UniqueBookings)'
    <3>1. UNCHANGED reimPos
      BY <2>3 DEF WriteStatement
    <3>2. QED
      BY <2>3, <3>1, NewBankRows DEF RowIds, UniqueBookings
  <2>4. ASSUME NEW u \in Sessions, Read(u) PROVE UNCHANGED <<reimPos, bankPos>>
    BY <2>4, ReadBegins DEF Begin, tables
  <2>5. QED
    BY <2>1, <2>2, <2>3, <2>4 DEF Next, Create, ReceiptCreate, InvoiceCreate, Write,
       WriteReceipt, WriteInvoice, Rollback, tables, vars
<1>3. QED
  BY <1>1, <1>2, TypeCorrect, PTL DEF Spec

\* No receipt is in two reimbursements and none, nor an invoice, in two bank
\* statement positions, for every number of overlapping requests: the checks
\* read snapshots, but the unique keys of the position tables hold at the write.
THEOREM BookingsUnique == Spec => []UniqueBookings
  BY BookingsInductive, PTL

-----------------------------------------------------------------------------
(* Requests that do not overlap: SerialInv is inductive.                   *)

\* A plan made from the checks of its handler fits the rows it was made from.
LEMMA ReadJustified ==
    ASSUME TypeOK, SerialInv, NEW u \in Sessions, Read(u)
    PROVE  Justified(tx'[u])
<1>1. ASSUME NEW r \in Receipts, NEW status \in Status,
             NEW head \in Heads, NEW form \in ReceiptForms,
             NEW upload \in BOOLEAN, NEW remove \in BOOLEAN,
             ReadReceiptPut(u, r, status, head, form, upload, remove)
      PROVE  Justified(tx'[u])
  <2> DEFINE current == receipts[r].positions
  <2>1. /\ tx'[u].op = "receipt" /\ tx'[u].receipt = r /\ tx'[u].head = head
        /\ tx'[u].upload = upload
        /\ tx'[u].del = DOMAIN current \ DOMAIN form.exact
        /\ tx'[u].upd = Restrict(form.exact, DOMAIN form.exact \cap DOMAIN current)
        /\ tx'[u].ins = form.new
        /\ Linked(r) => tx'[u].status = receipts[r].status
        /\ Linked(r) => (form.loose # {} \/ form.again > 0 => tx'[u].misnamed)
        /\ ~remove => tx'[u].detach = {}
    BY <1>1 DEF ReadReceiptPut, Begin, TypeOK, ReceiptLocked
  <2>2. Linked(r) => ~upload /\ ~remove /\ ~changesLockedReceiptFields(r, head, form)
    BY <1>1 DEF ReadReceiptPut, ReceiptLocked
  <2>3. ASSUME Linked(r) PROVE ReceiptPlanJustified(tx'[u])
    <3>1. /\ head = receipts[r].head
          /\ Entries(form) = Cardinality(DOMAIN current)
          /\ form.new = {}
          /\ \A id \in DOMAIN form.exact :
                id \in DOMAIN current /\ SameFields(current[id], form.exact[id])
      BY <2>2, <2>3 DEF changesLockedReceiptFields
    <3>2. \A id \in DOMAIN tx'[u].upd : SameFields(current[id], tx'[u].upd[id])
      BY <2>1, <3>1 DEF Restrict
    <3>3. ASSUME tx'[u].del # {} PROVE tx'[u].misnamed
      <4>1. current \in Positions
        BY DEF TypeOK
      <4>2. DOMAIN form.exact # DOMAIN current
        BY <2>1, <3>3
      <4>3. form.loose # {} \/ form.again > 0
        BY <3>1, <4>1, <4>2, FormNamesAll
      <4>4. QED
        BY <2>1, <2>3, <4>3
    <3>4. QED
      BY <2>1, <2>2, <2>3, <3>1, <3>2, <3>3 DEF ReceiptPlanJustified
  <2>4. QED
    BY <2>1, <2>3 DEF Justified, ReceiptPlanJustified
<1>2. ASSUME NEW i \in Invoices, NEW status \in Status,
             NEW content \in Contents, NEW newDate \in BOOLEAN,
             ReadInvoicePut(u, i, status, content, newDate)
      PROVE  Justified(tx'[u])
  <2>1. /\ tx'[u].op = "invoice" /\ tx'[u].invoice = i /\ tx'[u].status = status
        /\ tx'[u].full <=> invoices[i].status = "draft"
    BY <1>2 DEF ReadInvoicePut, Begin, TypeOK
  <2>2. /\ invoices[i].status # "absent" /\ ~InStatement(i)
        /\ invoices[i].status # "draft" => status # "draft"
    BY <1>2 DEF ReadInvoicePut, InvoiceLocked, StatusUpdate
  <2>3. QED
    BY <2>1, <2>2 DEF Justified, InvoicePlanJustified
<1>3. ASSUME NEW m \in Reimbursements, NEW R \in SUBSET Receipts,
             NEW stage \in Stages, ReadReimbursementCreate(u, m, R, stage)
      PROVE  Justified(tx'[u])
  <2>1. /\ tx'[u].op = "reimbursement" /\ tx'[u].reim = m
        /\ tx'[u].mark = R /\ tx'[u].ins = R
        /\ tx'[u].del = {} /\ tx'[u].release = {}
    BY <1>3 DEF ReadReimbursementCreate, Begin, TypeOK
  <2>2. reimbursement[m] = "absent" /\ Reimbursable(R, m)
    BY <1>3 DEF ReadReimbursementCreate
  <2>3. ReimRowsOf(m) = {}
    BY <2>2 DEF SerialInv, RowsOwned, ReimRowsOf
  <2>4. QED
    BY <2>1, <2>2, <2>3 DEF Justified, ReimbursementPlanJustified
<1>4. ASSUME NEW m \in Reimbursements, NEW R \in SUBSET Receipts,
             NEW stage \in Stages, NEW unlocked \in BOOLEAN,
             ReadReimbursementPut(u, m, R, stage, unlocked)
      PROVE  Justified(tx'[u])
  <2> DEFINE own  == ReimRowsOf(m)
             gone == {row \in own : row.receipt \notin R}
  <2>1. /\ tx'[u].op = "reimbursement" /\ tx'[u].reim = m
        /\ tx'[u].unlocked = unlocked /\ tx'[u].mark = R
        /\ tx'[u].ins = R \ {row.receipt : row \in own}
        /\ tx'[u].del = Ids(gone)
        /\ tx'[u].release = {r \in {row.receipt : row \in gone} :
                                ~ReimbursedElsewhere(r, m) /\ ~InStatement(r)}
    BY <1>4 DEF ReadReimbursementPut, Begin, TypeOK
  <2>2. Reimbursable(R, m) /\ (reimbursement[m] = "disbursed" => unlocked)
    BY <1>4 DEF ReadReimbursementPut, isReimbursementLocked
  <2>3. \A row \in reimPos : row.id \in Ids(gone) <=> row \in gone
    BY DEF SerialInv, RowIds, Ids, ReimRowsOf
  <2>4. /\ \A row \in own : row.id \in Ids(gone) \/ row.receipt \in R
        /\ \A row \in reimPos : row.id \in Ids(gone) => row.reim = m
        /\ \A r \in R \ tx'[u].ins :
              \E row \in own : row.receipt = r /\ row.id \notin Ids(gone)
    BY <2>1, <2>3 DEF ReimRowsOf
  <2>5. QED
    BY <2>1, <2>2, <2>4 DEF Justified, ReimbursementPlanJustified
<1>5. ASSUME NEW b \in Statements, NEW add \in SUBSET Targets,
             ReadStatementCreate(u, b, add)
      PROVE  Justified(tx'[u])
  <2>1. /\ tx'[u].op = "statement" /\ tx'[u].stmt = b
        /\ tx'[u].del = {} /\ tx'[u].upd = <<>> /\ tx'[u].ins = add
        /\ tx'[u].release = {} /\ tx'[u].pay = add \ {EventBooking}
    BY <1>5 DEF ReadStatementCreate, Begin, TypeOK
  <2>2. b \notin statements /\ \A x \in add : Payable(x, b)
    BY <1>5 DEF ReadStatementCreate
  <2>3. BankRowsOf(b) = {}
    BY <2>2 DEF SerialInv, RowsOwned, BankRowsOf
  <2>4. DOMAIN tx'[u].upd = {}
    BY <2>1
  <2>5. QED
    BY <2>1, <2>2, <2>3, <2>4 DEF Justified, StatementPlanJustified
<1>6. ASSUME NEW b \in Statements, NEW form \in Forms,
             ReadStatementPut(u, b, form.keep, form.add)
      PROVE  Justified(tx'[u])
  <2> DEFINE own  == BankRowsOf(b)
             gone == {row \in own : row.id \notin DOMAIN form.keep}
             all  == Range(form.keep) \cup form.add
  <2>1. /\ tx'[u].op = "statement" /\ tx'[u].stmt = b
        /\ tx'[u].del = Ids(gone) /\ tx'[u].ins = form.add
        /\ tx'[u].upd = Restrict(form.keep, DOMAIN form.keep \cap Ids(own))
        /\ tx'[u].release = {x \in {row.pays : row \in gone} \ {EventBooking} :
                                ~InReimbursement(x) /\ ~PaidElsewhere(x, b)}
        /\ tx'[u].pay = all \ {EventBooking}
    BY <1>6 DEF ReadStatementPut, Begin, TypeOK
  <2>2. \A x \in all : Payable(x, b)
    BY <1>6 DEF ReadStatementPut
  <2>3. /\ DOMAIN tx'[u].upd = DOMAIN form.keep \cap Ids(own)
        /\ \A id \in DOMAIN tx'[u].upd : tx'[u].upd[id] \in all
    BY <2>1 DEF Restrict, Range
  <2>4. \A row \in own : row.id \in Ids(gone) \cup DOMAIN tx'[u].upd
    BY <2>3 DEF Ids
  <2>5. \A row \in bankPos :
            row.id \in Ids(gone) \cup DOMAIN tx'[u].upd => row.stmt = b
    BY <2>3 DEF Ids, BankRowsOf, SerialInv, RowIds
  <2>6. QED
    BY <2>1, <2>2, <2>3, <2>4, <2>5 DEF Justified, StatementPlanJustified
<1>7. QED
  BY <1>1, <1>2, <1>3, <1>4, <1>5, <1>6 DEF Read

\* Without overlap the plan of a request that begins is the only one.
LEMMA ReadSerial ==
    ASSUME TypeOK, SerialInv, NoOverlap', NEW u \in Sessions, Read(u)
    PROVE  SerialInv'
<1>1. UNCHANGED tables
  BY ReadBegins DEF Begin
<1>2. PICK p \in Plans : tx' = [tx EXCEPT ![u] = p]
  BY ReadBegins DEF Begin
<1>3. ASSUME NEW v \in Sessions PROVE Justified(tx[v])'
  <2>1. CASE v = u
    <3>1. Justified(tx'[u])
      BY ReadJustified
    <3>2. QED
      BY <3>1, <2>1, <1>1 DEF Justified, ReceiptPlanJustified, InvoicePlanJustified,
         ReimbursementPlanJustified, StatementPlanJustified, tables, Linked,
         InReimbursement, InStatement, Reimbursable, ReimbursableReceipt, Payable,
         ReimbursedElsewhere, PaidElsewhere, ReimRowsOf, BankRowsOf
  <2>2. CASE v # u
    <3>1. tx'[u] # NoTx
      BY <1>2 DEF TypeOK, Plans, NoTx, ReceiptPlan, InvoicePlan, ReimbursementPlan,
         StatementPlan
    <3>2. tx'[v] = NoTx
      BY <2>2, <3>1 DEF NoOverlap
    <3>3. QED
      BY <3>2 DEF Justified, NoTx
  <2>3. QED
    BY <2>1, <2>2
<1>4. QED
  BY <1>1, <1>3 DEF SerialInv, RowIds, RowsOwned, NoDoublePayment, BookedStatus,
     BookedReceiptsHaveFile, ReimbursementsCoverReceipts, tables, Linked,
     InReimbursement, InStatement, ReimRowsOf

\* Once the only open transaction has ended there is no plan left to fit.
LEMMA EndJustifies ==
    ASSUME TypeOK, NoOverlap, NEW u \in Sessions, tx[u] # NoTx, End(u)
    PROVE  \A v \in Sessions : Justified(tx[v])'
<1>1. \A v \in Sessions : tx'[v] = NoTx
  BY DEF NoOverlap, End, TypeOK
<1>2. QED
  BY <1>1 DEF Justified, NoTx

\* A record that does not exist yet is in no payment and in no plan.
LEMMA CreateSerial ==
    ASSUME TypeOK, SerialInv, Create
    PROVE  SerialInv'
<1>1. ASSUME NEW r \in Receipts, NEW status \in Status, NEW head \in Heads,
             NEW positions \in Positions, NEW files \in SUBSET FileIds,
             ReceiptCreate(r, status, head, positions, files)
      PROVE  SerialInv'
  <2>1. ~Linked(r)
    <3>1. receipts[r].status = "absent"
      BY <1>1 DEF ReceiptCreate
    <3>2. \A row \in reimPos : receipts[row.receipt].status # "absent"
      BY StageStatus DEF SerialInv, BookedStatus
    <3>3. \A row \in bankPos : row.pays \in Receipts => receipts[row.pays].status # "absent"
      BY DEF SerialInv, BookedStatus
    <3>4. QED
      BY <3>1, <3>2, <3>3 DEF Linked, InReimbursement, InStatement
  <2>2. /\ UNCHANGED <<invoices, reimbursement, reimPos, statements, bankPos, tx>>
        /\ \A x \in Receipts : x # r => receipts'[x] = receipts[x]
        /\ receipts[r].status = "absent"
    BY <1>1 DEF ReceiptCreate, TypeOK
  <2>3. RowIds' /\ RowsOwned' /\ NoDoublePayment' /\ ReimbursementsCoverReceipts'
    BY <2>2 DEF SerialInv, RowIds, RowsOwned, NoDoublePayment,
       ReimbursementsCoverReceipts, ReimRowsOf
  <2>4. BookedStatus' /\ BookedReceiptsHaveFile'
    BY <2>1, <2>2 DEF SerialInv, BookedStatus, BookedReceiptsHaveFile, Linked,
       InReimbursement, InStatement, TypeOK, ReimRow
  <2>5. ASSUME NEW v \in Sessions PROVE Justified(tx[v])'
    <3>1. Justified(tx[v])
      BY DEF SerialInv
    <3>2. tx[v].op = "receipt" => ReceiptPlanJustified(tx[v])'
      BY <2>1, <2>2, <3>1, OpenPlan DEF Justified, ReceiptPlanJustified, ReceiptPlan,
         Linked, InReimbursement, InStatement
    <3>3. tx[v].op = "invoice" => InvoicePlanJustified(tx[v])'
      BY <2>2, <3>1 DEF Justified, InvoicePlanJustified, InStatement
    <3>4. tx[v].op = "reimbursement" => ReimbursementPlanJustified(tx[v])'
      BY <2>2, <3>1, OpenPlan DEF Justified, ReimbursementPlanJustified, ReimbursementPlan,
         Reimbursable, ReimbursableReceipt, ReimbursedElsewhere, InStatement, ReimRowsOf
    <3>5. tx[v].op = "statement" => StatementPlanJustified(tx[v])'
      BY <2>2, <3>1 DEF Justified, StatementPlanJustified, Payable,
         PaidElsewhere, InReimbursement, BankRowsOf
    <3>6. QED
      BY <2>2, <3>2, <3>3, <3>4, <3>5 DEF Justified
  <2>6. QED
    BY <2>3, <2>4, <2>5 DEF SerialInv
<1>2. ASSUME NEW i \in Invoices, NEW status \in Status, NEW content \in Contents,
             InvoiceCreate(i, status, content)
      PROVE  SerialInv'
  <2>1. /\ UNCHANGED <<receipts, reimbursement, reimPos, statements, bankPos, tx>>
        /\ \A x \in Invoices : x # i => invoices'[x] = invoices[x]
        /\ invoices[i].status = "absent"
    BY <1>2 DEF InvoiceCreate, TypeOK
  <2>2. ~InStatement(i)
    BY <2>1 DEF SerialInv, BookedStatus, InStatement
  <2>3. RowIds' /\ RowsOwned' /\ NoDoublePayment' /\ ReimbursementsCoverReceipts'
    BY <2>1 DEF SerialInv, RowIds, RowsOwned, NoDoublePayment,
       ReimbursementsCoverReceipts, ReimRowsOf
  <2>4. BookedStatus' /\ BookedReceiptsHaveFile'
    BY <2>1, <2>2 DEF SerialInv, BookedStatus, BookedReceiptsHaveFile, Linked,
       InReimbursement, InStatement
  <2>5. ASSUME NEW v \in Sessions PROVE Justified(tx[v])'
    <3>1. Justified(tx[v])
      BY DEF SerialInv
    <3>2. tx[v].op = "receipt" => ReceiptPlanJustified(tx[v])'
      BY <2>1, <3>1 DEF Justified, ReceiptPlanJustified, Linked, InReimbursement, InStatement
    <3>3. tx[v].op = "invoice" => InvoicePlanJustified(tx[v])'
      BY <2>1, <3>1, OpenPlan DEF Justified, InvoicePlanJustified, InStatement, InvoicePlan
    <3>4. tx[v].op = "reimbursement" => ReimbursementPlanJustified(tx[v])'
      BY <2>1, <3>1 DEF Justified, ReimbursementPlanJustified, Reimbursable,
         ReimbursableReceipt, ReimbursedElsewhere, InStatement, ReimRowsOf
    <3>5. tx[v].op = "statement" => StatementPlanJustified(tx[v])'
      BY <2>1, <3>1 DEF Justified, StatementPlanJustified, Payable,
         PaidElsewhere, InReimbursement, BankRowsOf
    <3>6. QED
      BY <2>1, <3>2, <3>3, <3>4, <3>5 DEF Justified
  <2>6. QED
    BY <2>3, <2>4, <2>5 DEF SerialInv
<1>3. QED
  BY <1>1, <1>2 DEF Create

\* A receipt PUT on a booked receipt leaves its status and its file alone.
LEMMA WriteReceiptSerial ==
    ASSUME TypeOK, SerialInv, NoOverlap, NEW u \in Sessions, WriteReceipt(u)
    PROVE  SerialInv'
<1> DEFINE plan == tx[u]
<1>1. plan \in ReceiptPlan /\ ReceiptPlanJustified(plan)
  BY OpenPlan DEF SerialInv, Justified, WriteReceipt
<1>2. /\ UNCHANGED <<invoices, reimbursement, reimPos, statements, bankPos>>
      /\ \A r \in Receipts : r # plan.receipt => receipts'[r] = receipts[r]
      /\ Linked(plan.receipt) =>
            /\ receipts'[plan.receipt].status = receipts[plan.receipt].status
            /\ receipts'[plan.receipt].files = receipts[plan.receipt].files
  BY <1>1 DEF WriteReceipt, ReceiptPlanJustified, TypeOK, ReceiptPlan
<1>3. RowIds' /\ RowsOwned' /\ NoDoublePayment' /\ ReimbursementsCoverReceipts'
  BY <1>2 DEF SerialInv, RowIds, RowsOwned, NoDoublePayment, ReimbursementsCoverReceipts,
     ReimRowsOf
<1>4. BookedStatus' /\ BookedReceiptsHaveFile'
  BY <1>2 DEF SerialInv, BookedStatus, BookedReceiptsHaveFile, Linked, InReimbursement,
     InStatement, TypeOK, ReimRow
<1>5. QED
  BY <1>3, <1>4, EndJustifies DEF SerialInv, WriteReceipt, NoTx

\* An invoice PUT only ever writes an invoice that no statement pays.
LEMMA WriteInvoiceSerial ==
    ASSUME TypeOK, SerialInv, NoOverlap, NEW u \in Sessions, WriteInvoice(u)
    PROVE  SerialInv'
<1> DEFINE plan == tx[u]
<1>1. plan \in InvoicePlan /\ InvoicePlanJustified(plan)
  BY OpenPlan DEF SerialInv, Justified, WriteInvoice
<1>2. /\ UNCHANGED <<receipts, reimbursement, reimPos, statements, bankPos>>
      /\ \A i \in Invoices : i # plan.invoice => invoices'[i] = invoices[i]
      /\ ~InStatement(plan.invoice)
  BY <1>1 DEF WriteInvoice, InvoicePlanJustified, TypeOK, InvoicePlan
<1>3. RowIds' /\ RowsOwned' /\ NoDoublePayment' /\ ReimbursementsCoverReceipts'
  BY <1>2 DEF SerialInv, RowIds, RowsOwned, NoDoublePayment, ReimbursementsCoverReceipts,
     ReimRowsOf
<1>4. BookedStatus' /\ BookedReceiptsHaveFile'
  BY <1>2 DEF SerialInv, BookedStatus, BookedReceiptsHaveFile, Linked, InReimbursement,
     InStatement
<1>5. QED
  BY <1>3, <1>4, EndJustifies DEF SerialInv, WriteInvoice, NoTx

\* A reimbursement takes receipts no statement pays and gives back the others.
LEMMA WriteReimbursementSerial ==
    ASSUME TypeOK, SerialInv, UniqueBookings, NoOverlap,
           NEW u \in Sessions, WriteReimbursement(u)
    PROVE  SerialInv'
<1> DEFINE plan == tx[u]
           kept == {row \in reimPos : row.id \notin plan.del}
<1>1. plan \in ReimbursementPlan /\ ReimbursementPlanJustified(plan)
  BY OpenPlan DEF SerialInv, Justified, WriteReimbursement
<1>2. PICK newId \in Injection(plan.ins, FreshRPos) :
          reimPos' = kept \cup
              {[id |-> newId[r], reim |-> plan.reim, receipt |-> r] : r \in plan.ins}
  BY DEF WriteReimbursement
<1>3. /\ UNCHANGED <<invoices, statements, bankPos>>
      /\ reimbursement' = [reimbursement EXCEPT ![plan.reim] = plan.stage]
      /\ \A r \in Receipts :
            /\ receipts'[r].files = receipts[r].files
            /\ receipts'[r].status = Settled(r, receipts[r].status, plan.mark,
                  statusFromReimbursement(plan.stage), plan.release)
  BY DEF WriteReimbursement, TypeOK
<1>4. /\ \A r \in plan.mark : /\ ~InStatement(r) /\ receipts[r].files # {}
                              /\ ~ReimbursedElsewhere(r, plan.reim)
      /\ \A r \in plan.release : ~InStatement(r) /\ ~ReimbursedElsewhere(r, plan.reim)
      /\ plan.ins \subseteq plan.mark /\ plan.mark # {}
      /\ plan.reim \in Reimbursements /\ plan.stage \in Stages
      /\ plan.mark \subseteq Receipts
  BY <1>1 DEF ReimbursementPlanJustified, Reimbursable, ReimbursableReceipt, ReimbursementPlan
<1>5. \A row \in reimPos' :
          \/ row \in kept /\ (row.reim = plan.reim => row.receipt \in plan.mark)
          \/ row.reim = plan.reim /\ row.receipt \in plan.ins
  BY <1>1, <1>2 DEF ReimbursementPlanJustified, ReimRowsOf
<1>6. RowIds'
  BY <1>3, NewReimRows DEF SerialInv, RowIds
<1>7. RowsOwned'
  BY <1>3, <1>4, <1>5 DEF SerialInv, RowsOwned, TypeOK, ReimRow, Stages
<1>8. NoDoublePayment'
  BY <1>3, <1>4, <1>5 DEF SerialInv, NoDoublePayment, InStatement
<1>9. BookedStatus'
  <2>1. \A row \in reimPos' :
            receipts'[row.receipt].status = statusFromReimbursement(reimbursement'[row.reim])
    <3> SUFFICES ASSUME NEW row \in reimPos'
                 PROVE  receipts'[row.receipt].status
                            = statusFromReimbursement(reimbursement'[row.reim])
      OBVIOUS
    <3>1. CASE row.receipt \in plan.mark /\ row.reim = plan.reim
      BY <3>1, <1>3, <1>4 DEF Settled, TypeOK
    <3>2. CASE row \in kept /\ row.reim # plan.reim
      <4>1. row.receipt \notin plan.mark /\ row.receipt \notin plan.release
        BY <3>2, <1>4 DEF ReimbursedElsewhere
      <4>2. row.receipt \in Receipts /\ row.reim \in Reimbursements
        BY <3>2 DEF TypeOK, ReimRow
      <4>3. receipts[row.receipt].status = statusFromReimbursement(reimbursement[row.reim])
        BY <3>2 DEF SerialInv, BookedStatus
      <4>4. QED
        BY <3>2, <4>1, <4>2, <4>3, <1>3 DEF Settled, TypeOK
    <3>3. QED
      BY <3>1, <3>2, <1>4, <1>5
  <2>2. \A row \in bankPos : row.pays \in Receipts =>
            receipts'[row.pays].status = receipts[row.pays].status
    BY <1>3, <1>4 DEF Settled, InStatement
  <2>3. QED
    BY <2>1, <2>2, <1>3 DEF SerialInv, BookedStatus
<1>10. BookedReceiptsHaveFile'
  BY <1>3, <1>4, <1>5 DEF SerialInv, BookedReceiptsHaveFile, Linked, InReimbursement,
     InStatement
<1>11. ReimbursementsCoverReceipts'
  <2> SUFFICES ASSUME NEW m \in Reimbursements, reimbursement'[m] # "absent"
               PROVE  \E row \in reimPos' : row.reim = m
    BY DEF ReimbursementsCoverReceipts, ReimRowsOf
  <2>1. CASE m = plan.reim
    <3>1. PICK r \in plan.mark : TRUE
      BY <1>4
    <3>2. CASE r \in plan.ins
      <4>1. [id |-> newId[r], reim |-> plan.reim, receipt |-> r] \in reimPos'
        BY <3>2, <1>2
      <4>2. QED
        BY <4>1, <2>1
    <3>3. CASE r \notin plan.ins
      BY <3>1, <3>3, <2>1, <1>1, <1>2 DEF ReimbursementPlanJustified, ReimRowsOf
    <3>4. QED
      BY <3>2, <3>3
  <2>2. CASE m # plan.reim
    <3>1. PICK row \in reimPos : row.reim = m
      BY <2>2, <1>3 DEF SerialInv, ReimbursementsCoverReceipts, ReimRowsOf, TypeOK
    <3>2. row.id \notin plan.del
      BY <2>2, <3>1, <1>1 DEF ReimbursementPlanJustified
    <3>3. QED
      BY <3>1, <3>2, <1>2
  <2>3. QED
    BY <2>1, <2>2
<1>12. QED
  BY <1>6, <1>7, <1>8, <1>9, <1>10, <1>11, EndJustifies
     DEF SerialInv, WriteReimbursement, NoTx

\* A bank statement pays receipts no reimbursement has and open invoices.
LEMMA WriteStatementSerial ==
    ASSUME TypeOK, SerialInv, UniqueBookings, NoOverlap,
           NEW u \in Sessions, WriteStatement(u)
    PROVE  SerialInv'
<1> DEFINE plan    == tx[u]
           kept    == {row \in bankPos : row.id \notin plan.del}
           updated == {Retarget(row, plan.upd) : row \in kept}
<1>1. plan \in StatementPlan /\ StatementPlanJustified(plan)
  BY OpenPlan DEF SerialInv, Justified, WriteStatement
<1>2. PICK newId \in Injection(plan.ins, FreshBPos) :
          bankPos' = updated \cup
              {[id |-> newId[x], stmt |-> plan.stmt, pays |-> x] : x \in plan.ins}
  BY DEF WriteStatement
<1>3. /\ UNCHANGED <<reimbursement, reimPos>>
      /\ statements' = statements \cup {plan.stmt}
      /\ \A r \in Receipts :
            /\ receipts'[r].files = receipts[r].files
            /\ receipts'[r].status =
                  Settled(r, receipts[r].status, plan.pay, "paid", plan.release)
      /\ \A i \in Invoices :
            invoices'[i].status =
                  Settled(i, invoices[i].status, plan.pay, "paid", plan.release)
  BY DEF WriteStatement, TypeOK
<1>4. /\ \A r \in plan.pay \cap Receipts : ~InReimbursement(r) /\ receipts[r].files # {}
      /\ \A x \in plan.release : ~InReimbursement(x) /\ ~PaidElsewhere(x, plan.stmt)
      /\ plan.pay \subseteq Receipts \cup Invoices
  BY <1>1, TargetsAssumption DEF StatementPlanJustified, Payable, StatementPlan
<1>5. \A row \in bankPos' :
          \/ row.pays \in plan.pay \cup {EventBooking} /\ row.stmt \in statements'
          \/ row \in bankPos /\ row.stmt # plan.stmt
  <2>1. ASSUME NEW old \in kept
        PROVE  LET row == Retarget(old, plan.upd)
               IN  \/ row.pays \in plan.pay \cup {EventBooking} /\ row.stmt \in statements'
                   \/ row \in bankPos /\ row.stmt # plan.stmt
    <3>1. old.stmt \in statements
      BY <2>1 DEF SerialInv, RowsOwned
    <3>2. CASE old.id \in DOMAIN plan.upd
      BY <3>1, <3>2, <1>1, <1>3 DEF Retarget, StatementPlanJustified
    <3>3. CASE old.id \notin DOMAIN plan.upd
      <4>1. old.stmt # plan.stmt
        BY <2>1, <3>3, <1>1 DEF StatementPlanJustified, BankRowsOf
      <4>2. Retarget(old, plan.upd) = old
        BY <2>1, <3>3 DEF Retarget, TypeOK, BankRow
      <4>3. QED
        BY <2>1, <4>1, <4>2
    <3>4. QED
      BY <3>2, <3>3
  <2>2. \A x \in plan.ins : x \in plan.pay \cup {EventBooking} /\ plan.stmt \in statements'
    BY <1>1, <1>3 DEF StatementPlanJustified
  <2>3. QED
    BY <2>1, <2>2, <1>2
<1>6. RowIds'
  BY <1>3, NewBankRows DEF SerialInv, RowIds
<1>7. RowsOwned'
  BY <1>3, <1>5 DEF SerialInv, RowsOwned
<1>8. NoDoublePayment'
  <2> SUFFICES ASSUME NEW row \in reimPos, NEW booking \in bankPos',
                      row.receipt = booking.pays
               PROVE  FALSE
    BY <1>3 DEF NoDoublePayment
  <2>1. row.receipt \in Receipts /\ InReimbursement(row.receipt)
    BY DEF TypeOK, ReimRow, InReimbursement
  <2>2. QED
    BY <2>1, <1>4, <1>5, TargetsAssumption DEF SerialInv, NoDoublePayment
<1>9. BookedStatus'
  <2>1. \A row \in reimPos : receipts'[row.receipt].status = receipts[row.receipt].status
    BY <1>3, <1>4 DEF Settled, InReimbursement, TypeOK, ReimRow
  <2>2. ASSUME NEW row \in bankPos'
        PROVE  /\ row.pays \in Receipts => receipts'[row.pays].status = "paid"
               /\ row.pays \in Invoices => invoices'[row.pays].status = "paid"
    <3>1. CASE row.pays \in plan.pay
      BY <3>1, <1>3 DEF Settled
    <3>2. CASE row.pays = EventBooking
      BY <3>2, TargetsAssumption
    <3>3. CASE row \in bankPos /\ row.stmt # plan.stmt /\ row.pays \notin plan.pay
      <4>1. row.pays \notin plan.release
        BY <3>3, <1>4 DEF PaidElsewhere
      <4>2. QED
        BY <3>3, <4>1, <1>3 DEF Settled, SerialInv, BookedStatus
    <3>4. QED
      BY <3>1, <3>2, <3>3, <1>5
  <2>3. QED
    BY <2>1, <2>2, <1>3 DEF SerialInv, BookedStatus
<1>10. BookedReceiptsHaveFile'
  BY <1>3, <1>4, <1>5, TargetsAssumption DEF SerialInv, BookedReceiptsHaveFile, Linked,
     InReimbursement, InStatement
<1>11. ReimbursementsCoverReceipts'
  BY <1>3 DEF SerialInv, ReimbursementsCoverReceipts, ReimRowsOf
<1>12. QED
  BY <1>6, <1>7, <1>8, <1>9, <1>10, <1>11, EndJustifies DEF SerialInv, WriteStatement, NoTx

LEMMA RollbackSerial ==
    ASSUME TypeOK, SerialInv, NoOverlap, NEW u \in Sessions, Rollback(u)
    PROVE  SerialInv'
<1>1. UNCHANGED tables
  BY DEF Rollback
<1>2. QED
  BY <1>1, EndJustifies DEF Rollback, SerialInv, RowIds, RowsOwned, NoDoublePayment,
     BookedStatus, BookedReceiptsHaveFile, ReimbursementsCoverReceipts, tables, Linked,
     InReimbursement, InStatement, ReimRowsOf

\* As long as no two requests overlap, whatever they are and in every order:
\* what pays a record, its status and its document agree, no reimbursement is
\* empty, and every request still fits the rows when it writes.
THEOREM SerialSafety == Spec /\ []NoOverlap => []SerialInv
<1>1. Init => SerialInv
  BY DEF Init, SerialInv, RowIds, RowsOwned, NoDoublePayment, BookedStatus,
     BookedReceiptsHaveFile, ReimbursementsCoverReceipts, Linked, InReimbursement,
     InStatement, Justified, NoTx
<1>2. /\ TypeOK /\ UniqueBookings /\ NoOverlap /\ NoOverlap'
      /\ SerialInv /\ [Next]_vars
      => SerialInv'
  <2> SUFFICES ASSUME TypeOK, UniqueBookings, NoOverlap, NoOverlap', SerialInv, [Next]_vars
               PROVE  SerialInv'
    OBVIOUS
  <2>1. CASE Create
    BY <2>1, CreateSerial
  <2>2. ASSUME NEW u \in Sessions, Read(u) PROVE SerialInv'
    BY <2>2, ReadSerial
  <2>3. ASSUME NEW u \in Sessions, Write(u) PROVE SerialInv'
    BY <2>3, WriteReceiptSerial, WriteInvoiceSerial, WriteReimbursementSerial,
       WriteStatementSerial DEF Write
  <2>4. ASSUME NEW u \in Sessions, Rollback(u) PROVE SerialInv'
    BY <2>4, RollbackSerial
  <2>5. CASE UNCHANGED vars
    BY <2>5 DEF vars, SerialInv, RowIds, RowsOwned, NoDoublePayment, BookedStatus,
       BookedReceiptsHaveFile, ReimbursementsCoverReceipts, Linked, InReimbursement,
       InStatement, ReimRowsOf, Justified, ReceiptPlanJustified, InvoicePlanJustified,
       ReimbursementPlanJustified, StatementPlanJustified, Reimbursable,
       ReimbursableReceipt, Payable, ReimbursedElsewhere, PaidElsewhere, BankRowsOf
  <2>6. QED
    BY <2>1, <2>2, <2>3, <2>4, <2>5 DEF Next
<1>3. QED
  BY <1>1, <1>2, TypeCorrect, BookingsUnique, PTL DEF Spec

-----------------------------------------------------------------------------
(* What follows for the properties the runs check.                         *)

\* Without overlapping requests no receipt is both reimbursed and paid by a
\* bank statement.
THEOREM SerialNoDoublePayment == Spec /\ []NoOverlap => []NoDoublePayment
<1>1. SerialInv => NoDoublePayment
  BY DEF SerialInv
<1>2. QED
  BY <1>1, SerialSafety, PTL

\* Without overlapping requests a booked record keeps the status its payment
\* record gives it.
THEOREM SerialBookedStatus == Spec /\ []NoOverlap => []BookedStatus
<1>1. SerialInv => BookedStatus
  BY DEF SerialInv
<1>2. QED
  BY <1>1, SerialSafety, PTL

\* Without overlapping requests a booked receipt never loses its document.
THEOREM SerialBookedReceiptsHaveFile == Spec /\ []NoOverlap => []BookedReceiptsHaveFile
<1>1. SerialInv => BookedReceiptsHaveFile
  BY DEF SerialInv
<1>2. QED
  BY <1>1, SerialSafety, PTL

\* Without overlapping requests a booked receipt keeps its company, date, number
\* and file, no position of it is added, none altered beyond what sameMoney cannot
\* tell, and none lost to a form that names every position once by its number.
THEOREM SerialReceiptsFrozen == Spec /\ []NoOverlap => BookedReceiptsFrozen
<1> DEFINE Kept(r) ==
               /\ receipts'[r].head = receipts[r].head
               /\ receipts'[r].files = receipts[r].files
               /\ DOMAIN receipts'[r].positions \subseteq DOMAIN receipts[r].positions
               /\ \A id \in DOMAIN receipts'[r].positions :
                     SameFields(receipts[r].positions[id], receipts'[r].positions[id])
               /\ DOMAIN receipts'[r].positions # DOMAIN receipts[r].positions =>
                     \E u \in Sessions : /\ tx[u].op = "receipt"
                                         /\ tx[u].receipt = r
                                         /\ tx[u].misnamed
           Frozen == \A r \in Receipts : Linked(r) /\ Linked(r)' => Kept(r)
<1>1. TypeOK /\ SerialInv /\ [Next]_vars => [Frozen]_vars
  <2> SUFFICES ASSUME TypeOK, SerialInv, Next, NEW r \in Receipts, Linked(r)
               PROVE  Kept(r)
    BY DEF vars
  <2>1. ASSUME NEW x \in Receipts, NEW status \in Status, NEW head \in Heads,
               NEW positions \in Positions, NEW files \in SUBSET FileIds,
               ReceiptCreate(x, status, head, positions, files)
        PROVE  receipts'[r] = receipts[r]
    <3>1. receipts[r].status # "absent"
      BY StageStatus DEF SerialInv, BookedStatus, Linked, InReimbursement, InStatement
    <3>2. QED
      BY <2>1, <3>1 DEF ReceiptCreate, TypeOK
  <2>2. ASSUME NEW u \in Sessions, Read(u) PROVE receipts'[r] = receipts[r]
    BY <2>2, ReadBegins DEF Begin, tables
  <2>3. ASSUME NEW u \in Sessions, WriteReceipt(u) PROVE Kept(r)
    <3>1. tx[u] \in ReceiptPlan /\ ReceiptPlanJustified(tx[u])
      BY <2>3, OpenPlan DEF SerialInv, Justified, WriteReceipt
    <3>2. CASE r = tx[u].receipt
      <4> DEFINE old == receipts[r].positions
      <4>1. /\ tx[u].head = receipts[r].head /\ tx[u].detach = {} /\ ~tx[u].upload
            /\ tx[u].ins = {}
            /\ \A id \in DOMAIN tx[u].upd : SameFields(old[id], tx[u].upd[id])
            /\ tx[u].del # {} => tx[u].misnamed
        BY <3>1, <3>2 DEF ReceiptPlanJustified
      <4>2. \E files \in {{}}, ids \in SUBSET FreshLines :
              \E new \in Bijection(ids, tx[u].ins) : receipts' = [receipts EXCEPT ![r] =
                  [status |-> tx[u].status, head |-> tx[u].head,
                   positions |-> Saved(old, tx[u], new),
                   files |-> (receipts[r].files \ {}) \cup files]]
        BY <2>3, <3>2, <4>1 DEF WriteReceipt
      <4>2a. PICK ids \in SUBSET FreshLines : \E new \in Bijection(ids, tx[u].ins) :
              receipts' = [receipts EXCEPT ![r] =
                  [status |-> tx[u].status, head |-> tx[u].head,
                   positions |-> Saved(old, tx[u], new), files |-> receipts[r].files]]
        BY <4>2
      <4>2b. PICK new \in Bijection(ids, tx[u].ins) :
              receipts' = [receipts EXCEPT ![r] =
                  [status |-> tx[u].status, head |-> tx[u].head,
                   positions |-> Saved(old, tx[u], new), files |-> receipts[r].files]]
        BY <4>2a
      <4>3. receipts'[r] = [status |-> tx[u].status, head |-> tx[u].head,
                            positions |-> Saved(old, tx[u], new),
                            files |-> receipts[r].files]
        BY <4>2b DEF TypeOK
      <4>4. DOMAIN new = {}
        <5>1. new \in [ids -> {}]
          BY <4>1 DEF Bijection, Injection
        <5>2. QED
          BY <5>1
      <4>5. /\ DOMAIN Saved(old, tx[u], new) = DOMAIN old \ tx[u].del
            /\ \A id \in DOMAIN old \ tx[u].del :
                  Saved(old, tx[u], new)[id] =
                      IF id \in DOMAIN tx[u].upd THEN tx[u].upd[id] ELSE old[id]
        BY <4>4 DEF Saved
      <4> DEFINE kept == Saved(old, tx[u], new)
      <4>7. /\ DOMAIN kept \subseteq DOMAIN old
            /\ \A id \in DOMAIN kept : SameFields(old[id], kept[id])
        BY <4>1, <4>5 DEF SameFields
      <4>8. DOMAIN kept # DOMAIN old => tx[u].misnamed
        BY <4>1, <4>5
      <4>9. tx[u].op = "receipt" /\ tx[u].receipt = r
        BY <2>3, <3>2 DEF WriteReceipt
      <4>10. /\ receipts'[r].positions = kept
             /\ receipts'[r].head = receipts[r].head
             /\ receipts'[r].files = receipts[r].files
        BY <4>1, <4>3
      <4> HIDE DEF kept
      <4>11. QED
        BY <4>7, <4>8, <4>9, <4>10
    <3>3. CASE r # tx[u].receipt
      BY <2>3, <3>1, <3>3 DEF WriteReceipt, TypeOK, ReceiptPlan, SameFields
    <3>4. QED
      BY <3>2, <3>3
  <2>4. ASSUME NEW u \in Sessions, WriteReimbursement(u) \/ WriteStatement(u)
        PROVE  Kept(r)
    <3>1. /\ receipts'[r].head = receipts[r].head
          /\ receipts'[r].files = receipts[r].files
          /\ receipts'[r].positions = receipts[r].positions
      BY <2>4 DEF WriteReimbursement, WriteStatement, TypeOK
    <3>2. QED
      BY <3>1 DEF SameFields
  <2>5. QED
    BY <2>1, <2>2, <2>3, <2>4 DEF Next, Create, Write, InvoiceCreate, WriteInvoice,
       Rollback, tables, SameFields
<1>2. QED
  BY <1>1, TypeCorrect, SerialSafety, PTL DEF Spec, BookedReceiptsFrozen

\* Without overlapping requests a finalized invoice never becomes a draft again
\* and keeps its contents.
THEOREM SerialInvoicesFrozen == Spec /\ []NoOverlap => FinalizedInvoicesFrozen
<1> DEFINE Frozen == \A i \in Invoices : invoices[i].status \notin {"absent", "draft"} =>
                        /\ invoices'[i].status # "draft"
                        /\ invoices'[i].content = invoices[i].content
<1>1. TypeOK /\ SerialInv /\ [Next]_vars => [Frozen]_vars
  <2> SUFFICES ASSUME TypeOK, SerialInv, Next, NEW i \in Invoices,
                      invoices[i].status \notin {"absent", "draft"}
               PROVE  /\ invoices'[i].status # "draft"
                      /\ invoices'[i].content = invoices[i].content
    BY DEF vars
  <2>1. ASSUME NEW x \in Invoices, NEW status \in Status, NEW content \in Contents,
               InvoiceCreate(x, status, content)
        PROVE  invoices'[i] = invoices[i]
    BY <2>1 DEF InvoiceCreate, TypeOK
  <2>2. ASSUME NEW u \in Sessions, Read(u) PROVE invoices'[i] = invoices[i]
    BY <2>2, ReadBegins DEF Begin, tables
  <2>3. ASSUME NEW u \in Sessions, WriteInvoice(u)
        PROVE  /\ invoices'[i].status # "draft"
               /\ invoices'[i].content = invoices[i].content
    <3>1. tx[u] \in InvoicePlan /\ InvoicePlanJustified(tx[u])
      BY <2>3, OpenPlan DEF SerialInv, Justified, WriteInvoice
    <3>2. CASE i = tx[u].invoice
      BY <2>3, <3>1, <3>2 DEF WriteInvoice, InvoicePlanJustified, TypeOK
    <3>3. CASE i # tx[u].invoice
      BY <2>3, <3>1, <3>3 DEF WriteInvoice, TypeOK, InvoicePlan
    <3>4. QED
      BY <3>2, <3>3
  <2>4. ASSUME NEW u \in Sessions, WriteStatement(u)
        PROVE  /\ invoices'[i].status # "draft"
               /\ invoices'[i].content = invoices[i].content
    BY <2>4 DEF WriteStatement, TypeOK, Settled
  <2>5. QED
    BY <2>1, <2>2, <2>3, <2>4 DEF Next, Create, Write, ReceiptCreate, WriteReceipt,
       WriteReimbursement, Rollback, tables
<1>2. QED
  BY <1>1, TypeCorrect, SerialSafety, PTL DEF Spec, FinalizedInvoicesFrozen

\* Without overlapping requests only an unlocked request changes a disbursed
\* reimbursement.
THEOREM SerialDisbursedOnlyUnlocked == Spec /\ []NoOverlap => DisbursedOnlyUnlocked
<1> DEFINE Unlocked == \A m \in Reimbursements :
              /\ reimbursement[m] = "disbursed"
              /\ <<reimbursement[m], ReimRowsOf(m)>> # <<reimbursement'[m], ReimRowsOf(m)'>>
              => \E u \in Sessions : /\ tx[u].op = "reimbursement"
                                     /\ tx[u].reim = m
                                     /\ tx[u].unlocked
<1>1. TypeOK /\ SerialInv /\ [Next]_vars => [Unlocked]_vars
  <2> SUFFICES ASSUME TypeOK, SerialInv, Next, NEW m \in Reimbursements,
                      reimbursement[m] = "disbursed",
                      <<reimbursement[m], ReimRowsOf(m)>>
                          # <<reimbursement'[m], ReimRowsOf(m)'>>
               PROVE  \E u \in Sessions : /\ tx[u].op = "reimbursement"
                                          /\ tx[u].reim = m
                                          /\ tx[u].unlocked
    BY DEF vars
  <2>1. ~UNCHANGED <<reimbursement, reimPos>>
    BY DEF ReimRowsOf
  <2>2. ~ \E u \in Sessions : Read(u)
    BY <2>1, ReadBegins DEF Begin, tables
  <2>3. PICK u \in Sessions : WriteReimbursement(u)
    BY <2>1, <2>2 DEF Next, Create, Write, ReceiptCreate, InvoiceCreate, WriteReceipt,
       WriteInvoice, WriteStatement, Rollback, tables
  <2>4. tx[u] \in ReimbursementPlan /\ ReimbursementPlanJustified(tx[u])
    BY <2>3, OpenPlan DEF SerialInv, Justified, WriteReimbursement
  <2>5. tx[u].reim = m
    <3> SUFFICES ASSUME tx[u].reim # m PROVE FALSE
      OBVIOUS
    <3>1. reimbursement'[m] = reimbursement[m]
      BY <2>3 DEF WriteReimbursement, TypeOK
    <3>2. \A row \in reimPos : row.reim = m => row.id \notin tx[u].del
      BY <2>4 DEF ReimbursementPlanJustified
    <3>3. ReimRowsOf(m)' = ReimRowsOf(m)
      <4> DEFINE kept == {row \in reimPos : row.id \notin tx[u].del}
      <4>1. PICK newId \in Injection(tx[u].ins, FreshRPos) :
                reimPos' = kept \cup
                    {[id |-> newId[r], reim |-> tx[u].reim, receipt |-> r] : r \in tx[u].ins}
        BY <2>3 DEF WriteReimbursement
      <4>2. \A row : row \in reimPos' /\ row.reim = m <=> row \in reimPos /\ row.reim = m
        BY <4>1, <3>2
      <4>3. QED
        BY <4>2 DEF ReimRowsOf
    <3>4. QED
      BY <3>1, <3>3
  <2>6. QED
    BY <2>3, <2>4, <2>5 DEF WriteReimbursement, ReimbursementPlanJustified
<1>2. QED
  BY <1>1, TypeCorrect, SerialSafety, PTL DEF Spec, DisbursedOnlyUnlocked

-----------------------------------------------------------------------------
(* Payments implements PaymentLedger as long as no two requests overlap.   *)

ReimPayer(m) == <<"reimbursement", m>>
StmtPayer(b) == <<"statement", b>>

\* Payment records of the two kinds are different payers, and none is nobody.
LEMMA PayersApart ==
    ASSUME NEW m, NEW n, NEW b, NEW c
    PROVE  /\ ReimPayer(m) # Nobody /\ StmtPayer(b) # Nobody
           /\ ReimPayer(m) # StmtPayer(b)
           /\ ReimPayer(m) = ReimPayer(n) => m = n
           /\ StmtPayer(b) = StmtPayer(c) => b = c
  BY DEF ReimPayer, StmtPayer, Nobody

\* A booked record is paid by the payment record of its only row.
LEMMA PaidByRow ==
    ASSUME UniqueBookings, NoDoublePayment
    PROVE  /\ \A row \in reimPos : PaidBy(row.receipt) = ReimPayer(row.reim)
           /\ \A row \in bankPos :
                 row.pays # EventBooking => PaidBy(row.pays) = StmtPayer(row.stmt)
           /\ \A x : ~Linked(x) => PaidBy(x) = Nobody
<1>1. ASSUME NEW row \in reimPos PROVE PaidBy(row.receipt) = ReimPayer(row.reim)
  <2>1. (CHOOSE r \in reimPos : r.receipt = row.receipt) = row
    BY DEF UniqueBookings
  <2>2. QED
    BY <2>1 DEF PaidBy, InReimbursement, Reimburser, ReimPayer
<1>2. ASSUME NEW row \in bankPos, row.pays # EventBooking
      PROVE  PaidBy(row.pays) = StmtPayer(row.stmt)
  <2>1. (CHOOSE r \in bankPos : r.pays = row.pays) = row
    BY <1>2 DEF UniqueBookings
  <2>2. ~InReimbursement(row.pays)
    BY DEF NoDoublePayment, InReimbursement
  <2>3. QED
    BY <2>1, <2>2 DEF PaidBy, InStatement, Statement, StmtPayer
<1>3. \A x : ~Linked(x) => PaidBy(x) = Nobody
  BY DEF PaidBy, Linked
<1>4. QED
  BY <1>1, <1>2, <1>3

\* The same after a step.
LEMMA PaidByNewRow ==
    ASSUME UniqueBookings', NoDoublePayment'
    PROVE  /\ \A row \in reimPos' : PaidBy(row.receipt)' = ReimPayer(row.reim)
           /\ \A row \in bankPos' :
                 row.pays # EventBooking => PaidBy(row.pays)' = StmtPayer(row.stmt)
           /\ \A x : ~Linked(x)' => PaidBy(x)' = Nobody
<1>1. ASSUME NEW row \in reimPos' PROVE PaidBy(row.receipt)' = ReimPayer(row.reim)
  <2>1. (CHOOSE r \in reimPos' : r.receipt = row.receipt) = row
    BY DEF UniqueBookings
  <2>2. QED
    BY <2>1 DEF PaidBy, InReimbursement, Reimburser, ReimPayer
<1>2. ASSUME NEW row \in bankPos', row.pays # EventBooking
      PROVE  PaidBy(row.pays)' = StmtPayer(row.stmt)
  <2>1. (CHOOSE r \in bankPos' : r.pays = row.pays) = row
    BY <1>2 DEF UniqueBookings
  <2>2. ~InReimbursement(row.pays)'
    BY DEF NoDoublePayment, InReimbursement
  <2>3. QED
    BY <2>1, <2>2 DEF PaidBy, InStatement, Statement, StmtPayer
<1>3. \A x : ~Linked(x)' => PaidBy(x)' = Nobody
  BY DEF PaidBy, Linked
<1>4. QED
  BY <1>1, <1>2, <1>3

\* The records have statuses the ledger knows.
LEMMA StatusType ==
    ASSUME TypeOK
    PROVE  [x \in Records |-> StatusOf(x)] \in [Records -> Status \cup {"absent"}]
  BY DEF TypeOK, Records, StatusOf

\* A step that leaves the bookings and the status of booked records alone.
LEMMA EditStep ==
    ASSUME TypeOK, TypeOK', UNCHANGED <<reimPos, bankPos>>,
           \A x \in Records : Linked(x) => StatusOf(x)' = StatusOf(x)
    PROVE  Ledger!EditUnpaid
<1>1. [x \in Records |-> StatusOf(x)]' \in [Records -> Status \cup {"absent"}]
  BY DEF TypeOK, Records, StatusOf
<1>2. \A x \in Records : PaidBy(x)' = PaidBy(x)
  BY DEF PaidBy, InReimbursement, InStatement, Reimburser, Statement
<1>3. \A x \in Records : PaidBy(x) # Nobody => StatusOf(x)' = StatusOf(x)
  BY DEF PaidBy, Linked
<1>4. QED
  BY <1>1, <1>2, <1>3 DEF Ledger!EditUnpaid

\* A step that books the records R on the payment record p and releases its others.
LEMMA PayStep ==
    ASSUME TypeOK', NEW p \in Payers, NEW R \in SUBSET Records,
           NEW s \in Status \cup {"absent"},
           \A x \in R : PaidBy(x) \in {Nobody, p},
           \A x \in Records :
              PaidBy(x)' = IF x \in R THEN p ELSE IF PaidBy(x) = p THEN Nobody ELSE PaidBy(x),
           \A x \in R : StatusOf(x)' = s,
           \A x \in Records : PaidBy(x) \notin {Nobody, p} => StatusOf(x)' = StatusOf(x)
    PROVE  Ledger!Next
<1>1. [x \in Records |-> StatusOf(x)]' \in [Records -> Status \cup {"absent"}]
  BY DEF TypeOK, Records, StatusOf
<1>2. Ledger!Pay(p, R, s)
  BY <1>1 DEF Ledger!Pay
<1>3. QED
  BY <1>2 DEF Ledger!Next

\* Creating a record and saving a receipt or an invoice edits unpaid records only.
LEMMA EditsRefine ==
    ASSUME TypeOK, TypeOK', SerialInv,
           Create \/ \E u \in Sessions : WriteReceipt(u) \/ WriteInvoice(u)
    PROVE  Ledger!EditUnpaid
<1>1. ASSUME NEW x \in Records, Linked(x) PROVE StatusOf(x) # "absent"
  BY <1>1, StageStatus DEF SerialInv, BookedStatus, Linked, InReimbursement, InStatement,
     StatusOf, Records, TypeOK, ReimRow
<1>2. ASSUME NEW r \in Receipts, NEW status \in Status, NEW head \in Heads,
             NEW positions \in Positions, NEW files \in SUBSET FileIds,
             ReceiptCreate(r, status, head, positions, files)
      PROVE  Ledger!EditUnpaid
  BY <1>1, <1>2, EditStep DEF ReceiptCreate, StatusOf, Records, TypeOK
<1>3. ASSUME NEW i \in Invoices, NEW status \in Status, NEW content \in Contents,
             InvoiceCreate(i, status, content)
      PROVE  Ledger!EditUnpaid
  BY <1>1, <1>3, EditStep, TargetsAssumption DEF InvoiceCreate, StatusOf, Records, TypeOK
<1>4. ASSUME NEW u \in Sessions, WriteReceipt(u) PROVE Ledger!EditUnpaid
  <2>1. tx[u] \in ReceiptPlan /\ ReceiptPlanJustified(tx[u])
    BY <1>4, OpenPlan DEF SerialInv, Justified, WriteReceipt
  <2>2. \A x \in Records : Linked(x) => StatusOf(x)' = StatusOf(x)
    BY <1>4, <2>1 DEF WriteReceipt, ReceiptPlanJustified, StatusOf, Records, TypeOK, ReceiptPlan
  <2>3. QED
    BY <1>4, <2>2, EditStep DEF WriteReceipt
<1>5. ASSUME NEW u \in Sessions, WriteInvoice(u) PROVE Ledger!EditUnpaid
  <2>1. tx[u] \in InvoicePlan /\ InvoicePlanJustified(tx[u])
    BY <1>5, OpenPlan DEF SerialInv, Justified, WriteInvoice
  <2>2. ~Linked(tx[u].invoice)
    BY <2>1, TargetsAssumption DEF InvoicePlanJustified, InvoicePlan, Linked, InReimbursement,
       TypeOK, ReimRow
  <2>3. \A x \in Records : Linked(x) => StatusOf(x)' = StatusOf(x)
    BY <1>5, <2>1, <2>2 DEF WriteInvoice, StatusOf, Records, TypeOK, InvoicePlan
  <2>4. QED
    BY <1>5, <2>3, EditStep DEF WriteInvoice
<1>6. QED
  BY <1>2, <1>3, <1>4, <1>5 DEF Create

\* Saving a reimbursement is one payment of exactly the receipts of its form.
LEMMA ReimbursementRefines ==
    ASSUME TypeOK, TypeOK', SerialInv, SerialInv', UniqueBookings, UniqueBookings',
           NEW u \in Sessions, WriteReimbursement(u)
    PROVE  Ledger!Next
<1> DEFINE plan == tx[u]
           p    == ReimPayer(plan.reim)
           kept == {row \in reimPos : row.id \notin plan.del}
<1>1. plan \in ReimbursementPlan /\ ReimbursementPlanJustified(plan)
  BY OpenPlan DEF SerialInv, Justified, WriteReimbursement
<1>2. PICK newId \in Injection(plan.ins, FreshRPos) :
          reimPos' = kept \cup
              {[id |-> newId[r], reim |-> plan.reim, receipt |-> r] : r \in plan.ins}
  BY DEF WriteReimbursement
<1>3. /\ UNCHANGED <<invoices, bankPos>>
      /\ \A r \in Receipts :
            receipts'[r].status = Settled(r, receipts[r].status, plan.mark,
                  statusFromReimbursement(plan.stage), plan.release)
  BY DEF WriteReimbursement, TypeOK
<1>4. /\ plan.mark \subseteq Receipts /\ plan.release \subseteq Receipts
      /\ \A r \in plan.mark \cup plan.release :
            ~InStatement(r) /\ ~ReimbursedElsewhere(r, plan.reim)
  BY <1>1 DEF ReimbursementPlanJustified, Reimbursable, ReimbursableReceipt, ReimbursementPlan
<1>5. NoDoublePayment /\ NoDoublePayment'
  BY DEF SerialInv
<1>6. ASSUME NEW x \in plan.mark \cup plan.release PROVE PaidBy(x) \in {Nobody, p}
  <2>1. CASE InReimbursement(x)
    BY <2>1, <1>4, <1>5, PaidByRow DEF InReimbursement, ReimbursedElsewhere
  <2>2. CASE ~InReimbursement(x)
    BY <2>2, <1>4, <1>5, PaidByRow DEF Linked
  <2>3. QED
    BY <2>1, <2>2
<1>7. ASSUME NEW x \in plan.mark PROVE PaidBy(x)' = p
  <2>1. PICK row \in reimPos' : row.receipt = x /\ row.reim = plan.reim
    <3>1. CASE x \in plan.ins
      <4>1. [id |-> newId[x], reim |-> plan.reim, receipt |-> x] \in reimPos'
        BY <1>2, <3>1
      <4>2. QED
        BY <4>1
    <3>2. CASE x \notin plan.ins
      BY <3>2, <1>1, <1>2 DEF ReimbursementPlanJustified, ReimRowsOf
    <3>3. QED
      BY <3>1, <3>2
  <2>2. QED
    BY <2>1, <1>5, PaidByNewRow
<1>8. ASSUME NEW x \in Records, x \notin plan.mark
      PROVE  PaidBy(x)' = IF PaidBy(x) = p THEN Nobody ELSE PaidBy(x)
  <2>1. \A row \in reimPos' : row.receipt = x => row \in reimPos /\ row.reim # plan.reim
    BY <1>1, <1>2, <1>8 DEF ReimbursementPlanJustified, ReimRowsOf
  <2>2. \A row \in reimPos : row.reim # plan.reim => row \in reimPos'
    BY <1>1, <1>2 DEF ReimbursementPlanJustified
  <2>3. CASE \E row \in reimPos' : row.receipt = x
    <3>1. PICK row \in reimPos' : row.receipt = x
      BY <2>3
    <3>2. PaidBy(x)' = ReimPayer(row.reim) /\ PaidBy(x) = ReimPayer(row.reim)
      BY <2>1, <3>1, <1>5, PaidByRow, PaidByNewRow
    <3>3. QED
      BY <2>1, <3>1, <3>2, PayersApart
  <2>4. CASE InStatement(x)
    <3>1. PICK row \in bankPos : row.pays = x
      BY <2>4 DEF InStatement
    <3>2. x # EventBooking /\ row \in bankPos'
      BY <1>3, TargetsAssumption DEF Records
    <3>3. PaidBy(x)' = StmtPayer(row.stmt) /\ PaidBy(x) = StmtPayer(row.stmt)
      BY <3>1, <3>2, <1>5, PaidByRow, PaidByNewRow
    <3>4. QED
      BY <3>3, PayersApart
  <2>5. CASE ~InStatement(x) /\ ~ \E row \in reimPos' : row.receipt = x
    <3>1. PaidBy(x)' = Nobody
      BY <2>5, <1>3, <1>5, PaidByNewRow DEF Linked, InReimbursement, InStatement
    <3>2. PaidBy(x) = Nobody \/ PaidBy(x) = p
      BY <2>2, <2>5, <1>5, PaidByRow DEF Linked, InReimbursement
    <3>3. QED
      BY <3>1, <3>2
  <2>6. QED
    BY <2>3, <2>4, <2>5
<1>9. \A x \in plan.mark : StatusOf(x)' = statusFromReimbursement(plan.stage)
  BY <1>3, <1>4 DEF Settled, StatusOf
<1>10. \A x \in Records : PaidBy(x) \notin {Nobody, p} => StatusOf(x)' = StatusOf(x)
  BY <1>3, <1>6 DEF Settled, StatusOf
<1>11. /\ p \in Payers /\ plan.mark \in SUBSET Records
       /\ statusFromReimbursement(plan.stage) \in Status \cup {"absent"}
  BY <1>1, <1>4, StageStatus DEF ReimbursementPlan, Payers, ReimPayer, Records, Status
<1>12. \A x \in Records : PaidBy(x)' =
           IF x \in plan.mark THEN p ELSE IF PaidBy(x) = p THEN Nobody ELSE PaidBy(x)
  BY <1>7, <1>8
<1> HIDE DEF p, plan
<1>13. QED
  BY <1>6, <1>9, <1>10, <1>11, <1>12, PayStep

\* Saving a bank statement is one payment of what its positions cover afterwards:
\* a form entry whose id the statement no longer has gets no position.
LEMMA StatementRefines ==
    ASSUME TypeOK, TypeOK', SerialInv, SerialInv', UniqueBookings, UniqueBookings',
           NEW u \in Sessions, WriteStatement(u)
    PROVE  Ledger!Next
<1> DEFINE plan    == tx[u]
           p       == StmtPayer(plan.stmt)
           kept    == {row \in bankPos : row.id \notin plan.del}
           updated == {Retarget(row, plan.upd) : row \in kept}
           covered == {x \in Records : \E row \in bankPos' :
                          row.pays = x /\ row.stmt = plan.stmt}
<1>1. plan \in StatementPlan /\ StatementPlanJustified(plan)
  BY OpenPlan DEF SerialInv, Justified, WriteStatement
<1>2. PICK newId \in Injection(plan.ins, FreshBPos) :
          bankPos' = updated \cup
              {[id |-> newId[x], stmt |-> plan.stmt, pays |-> x] : x \in plan.ins}
  BY DEF WriteStatement
<1>3. /\ UNCHANGED reimPos
      /\ \A r \in Receipts : receipts'[r].status =
            Settled(r, receipts[r].status, plan.pay, "paid", plan.release)
      /\ \A i \in Invoices : invoices'[i].status =
            Settled(i, invoices[i].status, plan.pay, "paid", plan.release)
  BY DEF WriteStatement, TypeOK
<1>4. NoDoublePayment /\ NoDoublePayment'
  BY DEF SerialInv
<1>5. \A row \in bankPos' :
          \/ row.pays \in plan.pay \cup {EventBooking} /\ row.stmt = plan.stmt
          \/ row \in bankPos /\ row.stmt # plan.stmt
  <2>1. ASSUME NEW old \in kept
        PROVE  LET row == Retarget(old, plan.upd)
               IN  \/ row.pays \in plan.pay \cup {EventBooking} /\ row.stmt = plan.stmt
                   \/ row \in bankPos /\ row.stmt # plan.stmt
    <3>1. CASE old.id \in DOMAIN plan.upd
      BY <2>1, <3>1, <1>1 DEF Retarget, StatementPlanJustified
    <3>2. CASE old.id \notin DOMAIN plan.upd
      <4>1. old.stmt # plan.stmt
        BY <2>1, <3>2, <1>1 DEF StatementPlanJustified, BankRowsOf
      <4>2. Retarget(old, plan.upd) = old
        BY <2>1, <3>2 DEF Retarget, TypeOK, BankRow
      <4>3. QED
        BY <2>1, <4>1, <4>2
    <3>3. QED
      BY <3>1, <3>2
  <2>2. \A x \in plan.ins : x \in plan.pay \cup {EventBooking}
    BY <1>1 DEF StatementPlanJustified
  <2>3. QED
    BY <2>1, <2>2, <1>2
<1>6. ASSUME NEW row \in bankPos, row.stmt # plan.stmt PROVE row \in bankPos'
  <2>1. row \in kept /\ row.id \notin DOMAIN plan.upd
    BY <1>1, <1>6 DEF StatementPlanJustified
  <2>2. Retarget(row, plan.upd) = row
    BY <2>1 DEF Retarget, TypeOK, BankRow
  <2>3. row \in updated
    BY <2>1, <2>2
  <2>4. QED
    BY <2>3, <1>2
<1>7. ASSUME NEW x \in plan.pay \cup plan.release PROVE PaidBy(x) \in {Nobody, p}
  <2>1. x \in Records /\ x # EventBooking
    BY <1>1, <1>7, TargetsAssumption DEF StatementPlan, Records
  <2>2. ~InReimbursement(x) /\ ~PaidElsewhere(x, plan.stmt)
    <3>1. CASE x \in plan.release
      BY <3>1, <1>1 DEF StatementPlanJustified
    <3>2. CASE x \in plan.pay /\ x \in Receipts
      BY <3>2, <1>1, <2>1, TargetsAssumption DEF StatementPlanJustified, Payable
    <3>3. CASE x \in plan.pay /\ x \in Invoices
      BY <3>3, <1>1, <2>1, TargetsAssumption DEF StatementPlanJustified, Payable,
         InReimbursement, TypeOK, ReimRow
    <3>4. QED
      BY <3>1, <3>2, <3>3, <1>7, <2>1 DEF Records
  <2>3. CASE InStatement(x)
    BY <2>1, <2>2, <2>3, <1>4, PaidByRow DEF InStatement, PaidElsewhere
  <2>4. CASE ~InStatement(x)
    BY <2>2, <2>4, <1>4, PaidByRow DEF Linked
  <2>5. QED
    BY <2>3, <2>4
<1>8. ASSUME NEW x \in covered PROVE x \in plan.pay /\ PaidBy(x)' = p
  <2>1. PICK row \in bankPos' : row.pays = x /\ row.stmt = plan.stmt
    BY <1>8
  <2>2. x # EventBooking
    BY <1>8, TargetsAssumption DEF Records
  <2>3. QED
    BY <2>1, <2>2, <1>4, <1>5, PaidByNewRow
<1>9. ASSUME NEW x \in Records, x \notin covered
      PROVE  PaidBy(x)' = IF PaidBy(x) = p THEN Nobody ELSE PaidBy(x)
  <2>1. x # EventBooking
    BY <1>9, TargetsAssumption DEF Records
  <2>2. CASE InReimbursement(x)
    <3>1. PICK row \in reimPos : row.receipt = x
      BY <2>2 DEF InReimbursement
    <3>2. PaidBy(x)' = ReimPayer(row.reim) /\ PaidBy(x) = ReimPayer(row.reim)
      BY <3>1, <1>3, <1>4, PaidByRow, PaidByNewRow
    <3>3. QED
      BY <3>2, PayersApart
  <2>3. CASE PaidElsewhere(x, plan.stmt)
    <3>1. PICK row \in bankPos : row.pays = x /\ row.stmt # plan.stmt
      BY <2>3 DEF PaidElsewhere
    <3>2. row \in bankPos'
      BY <3>1, <1>6
    <3>3. PaidBy(x)' = StmtPayer(row.stmt) /\ PaidBy(x) = StmtPayer(row.stmt)
      BY <3>1, <3>2, <2>1, <1>4, PaidByRow, PaidByNewRow
    <3>4. QED
      BY <3>1, <3>3, PayersApart
  <2>4. CASE ~InReimbursement(x) /\ ~PaidElsewhere(x, plan.stmt)
    <3>1. \A row \in bankPos' : row.pays # x
      BY <1>5, <1>9, <2>4 DEF PaidElsewhere
    <3>2. PaidBy(x)' = Nobody
      BY <3>1, <2>4, <1>3, <1>4, PaidByNewRow DEF Linked, InReimbursement, InStatement
    <3>3. PaidBy(x) \in {Nobody, p}
      <4>1. CASE InStatement(x)
        BY <4>1, <2>1, <2>4, <1>4, PaidByRow DEF InStatement, PaidElsewhere
      <4>2. CASE ~InStatement(x)
        BY <4>2, <2>4, <1>4, PaidByRow DEF Linked
      <4>3. QED
        BY <4>1, <4>2
    <3>4. QED
      BY <3>2, <3>3
  <2>5. QED
    BY <2>2, <2>3, <2>4
<1>10. \A x \in covered : StatusOf(x)' = "paid"
  BY <1>3, <1>8 DEF Settled, StatusOf, Records
<1>11. \A x \in Records : PaidBy(x) \notin {Nobody, p} => StatusOf(x)' = StatusOf(x)
  BY <1>3, <1>7 DEF Settled, StatusOf, Records
<1>12. /\ p \in Payers /\ covered \in SUBSET Records
       /\ "paid" \in Status \cup {"absent"}
  BY <1>1 DEF StatementPlan, Payers, StmtPayer, Status
<1>13. \A x \in Records : PaidBy(x)' =
           IF x \in covered THEN p ELSE IF PaidBy(x) = p THEN Nobody ELSE PaidBy(x)
  BY <1>8, <1>9
<1>14. \A x \in covered : PaidBy(x) \in {Nobody, p}
  BY <1>7, <1>8
<1> HIDE DEF p, plan, covered
<1>15. QED
  BY <1>10, <1>11, <1>12, <1>13, <1>14, PayStep

\* A step that leaves the tables alone leaves the ledger alone.
LEMMA TablesUnchanged ==
    ASSUME UNCHANGED tables
    PROVE  UNCHANGED Ledger!ledger
<1>1. \A x : PaidBy(x)' = PaidBy(x)
  BY DEF tables, PaidBy, InReimbursement, InStatement, Reimburser, Statement
<1>2. \A x : StatusOf(x)' = StatusOf(x)
  BY DEF tables, StatusOf
<1>3. QED
  BY <1>1, <1>2 DEF Ledger!ledger

\* The tables start as an empty ledger.
LEMMA InitRefines == Init => Ledger!Init
<1> SUFFICES ASSUME Init PROVE Ledger!Init
  OBVIOUS
<1>1. \A x \in Records : PaidBy(x) = Nobody
  BY DEF Init, PaidBy, InReimbursement, InStatement
<1>2. [x \in Records |-> StatusOf(x)] \in [Records -> Status \cup {"absent"}]
  BY DEF Init, Records, StatusOf
<1>3. QED
  BY <1>1, <1>2 DEF Ledger!Init

\* As long as no two requests overlap, the handlers implement the payment ledger,
\* for every number of records, positions and requests: reimbursements and bank
\* statements take over only what no other payment record covers, and a record's
\* booking and its status change in one step.
THEOREM SerialImplementsLedger == Spec /\ []NoOverlap => ImplementsLedger
<1> DEFINE Good == TypeOK /\ UniqueBookings /\ SerialInv
<1>1. Good /\ Good' /\ [Next]_vars => [Ledger!Next]_(Ledger!ledger)
  <2> SUFFICES ASSUME Good, Good', [Next]_vars
               PROVE  Ledger!Next \/ UNCHANGED Ledger!ledger
    OBVIOUS
  <2>1. CASE UNCHANGED vars
    BY <2>1, TablesUnchanged DEF vars, tables
  <2>2. CASE Create
    BY <2>2, EditsRefine DEF Ledger!Next
  <2>3. ASSUME NEW u \in Sessions, Read(u) PROVE UNCHANGED Ledger!ledger
    BY <2>3, ReadBegins, TablesUnchanged DEF Begin
  <2>4. ASSUME NEW u \in Sessions, WriteReceipt(u) \/ WriteInvoice(u) PROVE Ledger!Next
    BY <2>4, EditsRefine DEF Ledger!Next
  <2>5. ASSUME NEW u \in Sessions, WriteReimbursement(u) PROVE Ledger!Next
    BY <2>5, ReimbursementRefines
  <2>6. ASSUME NEW u \in Sessions, WriteStatement(u) PROVE Ledger!Next
    BY <2>6, StatementRefines
  <2>7. ASSUME NEW u \in Sessions, Rollback(u) PROVE UNCHANGED Ledger!ledger
    BY <2>7, TablesUnchanged DEF Rollback
  <2>8. QED
    BY <2>1, <2>2, <2>3, <2>4, <2>5, <2>6, <2>7 DEF Next, Write
<1>2. Spec /\ []NoOverlap => []Good
  BY TypeCorrect, BookingsUnique, SerialSafety, PTL
<1> HIDE DEF Good
<1>3. QED
  BY InitRefines, <1>1, <1>2, PTL DEF Spec, ImplementsLedger, Ledger!Spec

=============================================================================
