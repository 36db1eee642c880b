------------------------- MODULE InvoiceNumbersProofs --------------------------
(***************************************************************************)
(* Proofs about InvoiceNumbers: its types, and that the numbers in use have  *)
(* no gap until a draft is deleted, whatever requests race between counting  *)
(* the invoices and inserting one; and that a proposal gets one invoice as    *)
(* long as none do.                                                          *)
(***************************************************************************)
EXTENDS MCInvoiceNumbers, FiniteSetTheorems, TLAPS

-------------------------------------------------------------------------------
(* The inductive invariant *)

InTableFinite == IsFiniteSet(InTable)

\* The strengthening of NoGaps: a number that was counted is one that is used by
\* now, or the next one.
CountedIsNear ==
    NoneDeleted =>
        \A w \in Worker : req[w].at = "numbered" =>
            req[w].number \in 1..(Cardinality(InTable) + 1)

IInv == TypeOK /\ InTableFinite /\ NoGaps /\ CountedIsNear

-------------------------------------------------------------------------------
(* Lemmas *)

\* The table counts at least what any part of it counts.
LEMMA PartIsSmaller ==
    ASSUME InTableFinite, NEW S \in SUBSET InTable
    PROVE  Cardinality(S) \in Nat /\ Cardinality(S) <= Cardinality(InTable)
           /\ Cardinality(InTable) \in Nat
BY FS_Subset, FS_CardinalityType DEF InTableFinite

LEMMA InitHolds == Init => IInv
<1> SUFFICES ASSUME Init PROVE IInv
  OBVIOUS
<1>1. TypeOK
  BY DEF Init, TypeOK, Row, RowStatus, NoRow, Request, Idle
<1>2. InTable = {} /\ Numbers = {}
  BY DEF Init, InTable, Numbers, NoRow
<1>3. IsFiniteSet(InTable) /\ Cardinality(InTable) = 0
  BY <1>2, FS_EmptySet
<1>4. NoGaps
  BY <1>2, <1>3 DEF NoGaps
<1>5. CountedIsNear
  BY DEF Init, CountedIsNear, Idle
<1> QED BY <1>1, <1>3, <1>4, <1>5 DEF IInv, InTableFinite

\* A row that enters the table adds one to its count, and its number to the
\* numbers in use.
LEMMA InsertAddsOne ==
    ASSUME IInv, NEW w \in Worker, NEW i \in Invoice, InsertInvoice(w, i)
    PROVE  /\ TypeOK'
           /\ i \notin InTable /\ InTable' = InTable \cup {i}
           /\ Numbers' = Numbers \cup {req[w].number} /\ req[w].number \notin Numbers
           /\ InTableFinite' /\ Cardinality(InTable)' = Cardinality(InTable) + 1
           /\ \A j \in InTable : row'[j] = row[j]
           /\ row'[i].number = req[w].number
<1> DEFINE n == req[w].number
<1>1. row \in [Invoice -> Row] /\ req \in [Worker -> Request]
  BY DEF IInv, TypeOK
<1>2. /\ req[w].at = "numbered" /\ n \notin Numbers /\ row[i].status = "absent"
      /\ req' = [req EXCEPT ![w] = Idle]
      /\ row' = [row EXCEPT ![i] = [status |-> "draft", org |-> req[w].org,
                                    proposal |-> req[w].proposal, number |-> n]]
  BY DEF InsertInvoice
<1>3. req[w].org \in Org /\ req[w].proposal \in Proposal \cup {None} /\ n \in Nat
  BY <1>1, <1>2 DEF Request, Idle
<1>4. TypeOK'
  BY <1>1, <1>2, <1>3 DEF TypeOK, Row, RowStatus, Request
<1>5. i \notin InTable /\ \A j \in InTable : row'[j] = row[j]
  BY <1>1, <1>2 DEF InTable
<1>6. row'[i].number = n /\ row'[i].status = "draft"
  BY <1>1, <1>2
<1>7. InTable' = InTable \cup {i}
  BY <1>1, <1>2, <1>6 DEF InTable
<1>8. Numbers' = Numbers \cup {n}
  BY <1>5, <1>6, <1>7 DEF Numbers
<1>9. InTableFinite' /\ Cardinality(InTable)' = Cardinality(InTable) + 1
  BY <1>5, <1>7, FS_AddElement DEF IInv, InTableFinite
<1> QED BY <1>2, <1>4, <1>5, <1>6, <1>7, <1>8, <1>9

\* The number of an INSERT that succeeds is the next one: it was counted no later
\* and is not in use.
LEMMA InsertKeeps ==
    ASSUME IInv, NEW w \in Worker, NEW i \in Invoice, InsertInvoice(w, i)
    PROVE  IInv'
<1> DEFINE n == req[w].number
           c == Cardinality(InTable)
<1>1. c \in Nat /\ c' = c + 1
  BY InsertAddsOne, FS_CardinalityType DEF IInv, InTableFinite
<1>2. NoneDeleted' => NoneDeleted
  BY DEF InsertInvoice, NoneDeleted, IInv, TypeOK
<1>3. req[w].at = "numbered" /\ req' = [req EXCEPT ![w] = Idle]
  BY DEF InsertInvoice
<1>4. ASSUME NoneDeleted
      PROVE  /\ n = c + 1 /\ Numbers = 1..c
             /\ \A j, k \in InTable : row[j].number = row[k].number => j = k
  <2>1. Numbers = 1..c /\ n \notin Numbers /\ n \in 1..(c + 1)
    BY <1>3, <1>4, InsertAddsOne DEF IInv, NoGaps, CountedIsNear
  <2> QED BY <1>1, <1>4, <2>1 DEF IInv, NoGaps
<1>5. NoGaps'
  <2> SUFFICES ASSUME NoneDeleted
               PROVE  /\ Numbers' = 1..c'
                      /\ \A j, k \in InTable' : row'[j].number = row'[k].number => j = k
    BY <1>2 DEF NoGaps
  <2>1. Numbers' = 1..c'
    <3>1. Numbers' = (1..c) \cup {c + 1}
      BY <1>4, InsertAddsOne
    <3> HIDE DEF c
    <3> QED BY <1>1, <3>1
  <2>2. \A j \in InTable : row[j].number \in Numbers
    BY DEF Numbers
  <2> QED BY <1>4, <2>1, <2>2, InsertAddsOne
<1>6. CountedIsNear'
  <2> SUFFICES ASSUME NoneDeleted, NEW v \in Worker, req'[v].at = "numbered"
               PROVE  req'[v].number \in 1..(c' + 1)
    BY <1>2 DEF CountedIsNear
  <2>1. req'[v] = req[v] /\ req[v].at = "numbered"
    BY <1>3 DEF IInv, TypeOK, Idle
  <2>2. req[v].number \in 1..(c + 1)
    BY <2>1 DEF IInv, CountedIsNear
  <2> HIDE DEF c
  <2> QED BY <1>1, <2>1, <2>2
<1> QED BY <1>5, <1>6, InsertAddsOne DEF IInv

\* A step that leaves the table alone keeps what is said of the table.
LEMMA SameTable ==
    ASSUME IInv, InTable' = InTable, Numbers' = Numbers, NoneDeleted' => NoneDeleted,
           \A j \in InTable : row'[j].number = row[j].number
    PROVE  InTableFinite' /\ NoGaps'
BY DEF IInv, InTableFinite, NoGaps

LEMMA CreateKeeps ==
    ASSUME IInv, NEW w \in Worker, Create(w)
    PROVE  IInv'
<1>1. CASE \E o \in Org, p \in Proposal \cup {None} : BeginCreate(w, o, p)
  <2>1. PICK o \in Org, p \in Proposal \cup {None} : BeginCreate(w, o, p)
    BY <1>1
  <2>2. row' = row /\ TypeOK'
    BY <2>1 DEF BeginCreate, IInv, TypeOK, Request
  <2>3. CountedIsNear'
    BY <2>1, <2>2 DEF BeginCreate, IInv, TypeOK, CountedIsNear, NoneDeleted, InTable
  <2> QED BY <2>2, <2>3 DEF IInv, InTableFinite, NoGaps, NoneDeleted, Numbers, InTable
<1>2. CASE CountInvoices(w)
  <2> DEFINE part == {i \in InTable : row[i].org = req[w].org}
  <2>1. row' = row /\ req[w].at = "checked"
        /\ req' = [req EXCEPT ![w].at = "numbered", ![w].number = Cardinality(part) + 1]
    BY <1>2 DEF CountInvoices, NextSequence
  <2>2. /\ Cardinality(part) \in Nat /\ Cardinality(InTable) \in Nat
        /\ Cardinality(part) <= Cardinality(InTable)
    BY PartIsSmaller DEF IInv
  <2>3. req[w] \in [at : {"checked", "numbered"}, org : Org,
                    proposal : Proposal \cup {None}, number : Nat]
    BY <2>1 DEF IInv, TypeOK, Request, Idle
  <2> HIDE DEF part
  <2>4. TypeOK'
    <3> DEFINE n == Cardinality(part) + 1
               r == [req[w] EXCEPT !.at = "numbered", !.number = n]
    <3>1. r \in Request
      <4>1. n \in Nat
        BY <2>2
      <4> HIDE DEF n
      <4>2. r \in [at : {"checked", "numbered"}, org : Org,
                   proposal : Proposal \cup {None}, number : Nat]
        BY <2>3, <4>1
      <4> HIDE DEF r
      <4> QED BY <4>2 DEF Request
    <3>2. req' = [req EXCEPT ![w] = r]
      BY <2>1, <2>3 DEF IInv, TypeOK
    <3> HIDE DEF r
    <3> QED BY <2>1, <3>1, <3>2 DEF IInv, TypeOK
  <2>5. CountedIsNear'
    <3> SUFFICES ASSUME NoneDeleted, NEW v \in Worker, req'[v].at = "numbered"
                 PROVE  req'[v].number \in 1..(Cardinality(InTable) + 1)
      BY <2>1 DEF CountedIsNear, NoneDeleted, InTable
    <3>1. CASE v = w
      BY <2>1, <2>2, <2>3, <3>1 DEF IInv, TypeOK
    <3>2. CASE v # w
      BY <2>1, <3>2 DEF IInv, TypeOK, CountedIsNear
    <3> QED BY <3>1, <3>2
  <2> QED BY <2>1, <2>4, <2>5 DEF IInv, InTableFinite, NoGaps, NoneDeleted, Numbers, InTable
<1>3. CASE \E i \in Invoice : InsertInvoice(w, i)
  BY <1>3, InsertKeeps
<1>4. CASE FailCreate(w)
  <2>1. row' = row /\ TypeOK'
    BY <1>4 DEF FailCreate, IInv, TypeOK, Request
  <2>2. CountedIsNear'
    BY <1>4, <2>1 DEF FailCreate, IInv, TypeOK, CountedIsNear, NoneDeleted, InTable, Idle
  <2> QED BY <2>1, <2>2 DEF IInv, InTableFinite, NoGaps, NoneDeleted, Numbers, InTable
<1> QED BY <1>1, <1>2, <1>3, <1>4 DEF Create

LEMMA StepKeeps == IInv /\ [Next]_vars => IInv'
<1> SUFFICES ASSUME IInv, [Next]_vars PROVE IInv'
  OBVIOUS
<1>1. ASSUME NEW w \in Worker, Create(w) PROVE IInv'
  BY <1>1, CreateKeeps
<1>2. ASSUME NEW i \in Invoice, IssueInvoice(i) PROVE IInv'
  <2>1. TypeOK' /\ UNCHANGED req
    BY <1>2 DEF IssueInvoice, IInv, TypeOK, Row, RowStatus
  <2>2. \A j \in Invoice : /\ row'[j].number = row[j].number
                           /\ row'[j].status = "deleted" <=> row[j].status = "deleted"
                           /\ row'[j].status \in {"draft", "issued"}
                                <=> row[j].status \in {"draft", "issued"}
    BY <1>2 DEF IssueInvoice, IInv, TypeOK
  <2>3. InTable' = InTable /\ (NoneDeleted' <=> NoneDeleted)
    BY <2>2 DEF InTable, NoneDeleted
  <2>4. Numbers' = Numbers /\ \A j \in InTable : row'[j].number = row[j].number
    BY <2>2, <2>3 DEF Numbers, InTable
  <2>5. CountedIsNear'
    BY <2>1, <2>3 DEF IInv, CountedIsNear
  <2> QED BY <2>1, <2>3, <2>4, <2>5, SameTable DEF IInv
<1>3. ASSUME NEW i \in Invoice, DeleteInvoice(i) PROVE IInv'
  <2>1. TypeOK'
    BY <1>3 DEF DeleteInvoice, IInv, TypeOK, Row, RowStatus, NoRow
  <2>2. ~NoneDeleted' /\ InTable' \subseteq InTable
    BY <1>3 DEF DeleteInvoice, IInv, TypeOK, NoneDeleted, InTable, NoRow
  <2>3. InTableFinite'
    BY <2>2, FS_Subset DEF IInv, InTableFinite
  <2> QED BY <2>1, <2>2, <2>3 DEF IInv, NoGaps, CountedIsNear
<1>4. CASE UNCHANGED vars
  BY <1>4 DEF vars, IInv, TypeOK, InTableFinite, NoGaps, CountedIsNear, NoneDeleted,
              Numbers, InTable
<1> QED BY <1>1, <1>2, <1>3, <1>4 DEF Next

LEMMA Invariance == Spec => []IInv
BY InitHolds, StepKeeps, PTL DEF Spec

-------------------------------------------------------------------------------

\* Every variable has its type.
THEOREM TypeCorrect == Spec => []TypeOK
<1>1. IInv => TypeOK
  BY DEF IInv
<1> QED BY <1>1, Invariance, PTL

\* For any number of organizations, proposals and racing requests: until a draft is
\* deleted, the numbers in use are 1, 2, ..., n and no two invoices share one
\* (get_next_invoice_number_sequence under the unique index of invoice_number).
THEOREM NumbersHaveNoGaps == Spec => []NoGaps
<1>1. IInv => NoGaps
  BY DEF IInv
<1> QED BY <1>1, Invariance, PTL

-------------------------------------------------------------------------------
(* One request at a time: one invoice per proposal *)

\* The strengthening of OneInvoiceUnlessRaced: as long as no two requests overlap,
\* what a request checked of its proposal is still so when it inserts.
OneRequest == \A v, w \in Worker : req[v] # Idle /\ req[w] # Idle => v = w
StillChecked ==
    \A w \in Worker : req[w] # Idle => ProposalChecked(req[w].org, req[w].proposal)
UnracedInv ==
    IInv /\ (raced \/ (OneRequest /\ StillChecked /\ OneInvoicePerProposal))

\* A table with no new row of the proposal keeps what was checked of it.
LEMMA CheckSurvives ==
    ASSUME NEW o, NEW p, ProposalChecked(o, p),
           \A i \in InTable' : i \in InTable /\ row'[i].proposal = row[i].proposal
                                            /\ row'[i].org = row[i].org
    PROVE  ProposalChecked(o, p)'
BY DEF ProposalChecked, OfProposal

\* A step that adds no row and starts no request keeps the invariant.
LEMMA NothingNew ==
    ASSUME UnracedInv, IInv', ~raced,
           \A i \in InTable' : i \in InTable /\ row'[i].proposal = row[i].proposal
                                            /\ row'[i].org = row[i].org,
           \A w \in Worker : req'[w] # Idle =>
               /\ req[w] # Idle
               /\ req'[w].org = req[w].org /\ req'[w].proposal = req[w].proposal
    PROVE  UnracedInv'
<1>1. OneRequest' /\ OneInvoicePerProposal'
  BY DEF UnracedInv, OneRequest, OneInvoicePerProposal
<1>2. StillChecked'
  BY CheckSurvives DEF UnracedInv, StillChecked
<1>3. QED
  BY <1>1, <1>2 DEF UnracedInv

LEMMA UnracedStep == UnracedInv /\ [MCNext]_mcvars => UnracedInv'
<1>0. ASSUME UnracedInv, [MCNext]_mcvars PROVE IInv'
  BY <1>0, StepKeeps DEF MCNext, mcvars, UnracedInv
<1> SUFFICES ASSUME UnracedInv, IInv', ~raced', [MCNext]_mcvars PROVE UnracedInv'
  BY <1>0 DEF UnracedInv
<1>1. ~raced /\ TypeOK
  <2>1. CASE MCNext
    BY <2>1, Zenon DEF MCNext, UnracedInv, IInv
  <2>2. CASE UNCHANGED mcvars
    BY <2>2 DEF mcvars, UnracedInv, IInv
  <2>3. QED
    BY <2>1, <2>2
<1>2. ASSUME NEW w \in Worker, NEW o \in Org, NEW p \in Proposal \cup {None},
             BeginCreate(w, o, p), MCNext
      PROVE  UnracedInv'
  <2>1. /\ req' = [req EXCEPT ![w] = [at |-> "checked", org |-> o,
                                      proposal |-> p, number |-> 0]]
        /\ row' = row /\ ProposalChecked(o, p) /\ req[w] = Idle
    BY <1>2 DEF BeginCreate
  <2>2. OneInvoicePerProposal'
    BY <1>1, <2>1 DEF UnracedInv, OneInvoicePerProposal, InTable
  <2>3. OneRequest'
    BY <1>2 DEF MCNext, Overlap, OneRequest
  <2>4. ASSUME NEW v \in Worker, req'[v] # Idle
        PROVE  ProposalChecked(req'[v].org, req'[v].proposal)
    <3>1. CASE v = w
      BY <1>1, <2>1, <3>1 DEF TypeOK
    <3>2. CASE v # w
      BY <1>1, <2>1, <2>4, <3>2 DEF TypeOK, UnracedInv, StillChecked
    <3>3. QED
      BY <3>1, <3>2
  <2>5. StillChecked'
    BY <2>1, <2>4 DEF StillChecked, ProposalChecked, OfProposal, InTable
  <2>6. QED
    BY <2>2, <2>3, <2>5 DEF UnracedInv
<1>3. ASSUME NEW w \in Worker, CountInvoices(w) PROVE UnracedInv'
  <2>1. row' = row /\ \A v \in Worker : req'[v] # Idle =>
            /\ req[v] # Idle
            /\ req'[v].org = req[v].org /\ req'[v].proposal = req[v].proposal
    BY <1>1, <1>3 DEF CountInvoices, TypeOK, Idle, Request
  <2>2. QED
    BY <1>1, <2>1, NothingNew DEF InTable
<1>4. ASSUME NEW w \in Worker, NEW i \in Invoice, InsertInvoice(w, i) PROVE UnracedInv'
  <2> DEFINE p == req[w].proposal
  <2>1. /\ req[w].at = "numbered" /\ row[i].status = "absent"
        /\ row' = [row EXCEPT ![i] = [status |-> "draft", org |-> req[w].org,
                                      proposal |-> p, number |-> req[w].number]]
        /\ req' = [req EXCEPT ![w] = Idle]
    BY <1>4 DEF InsertInvoice
  <2>2. req[w] # Idle /\ \A v \in Worker : req'[v] = Idle
    BY <1>1, <2>1 DEF Idle, UnracedInv, OneRequest, TypeOK
  <2>3. OneRequest' /\ StillChecked'
    BY <2>2 DEF OneRequest, StillChecked
  <2>4. /\ \A j \in InTable' : j = i \/ (j \in InTable /\ row'[j] = row[j])
        /\ row'[i].proposal = p /\ row'[i].org = req[w].org
    BY <1>1, <2>1 DEF TypeOK, InTable
  <2>5. ProposalChecked(req[w].org, p)
    BY <1>1, <2>2 DEF UnracedInv, StillChecked
  <2>6. /\ p # None => OwnerOf[p] = req[w].org
        /\ \A j \in InTable : p # None /\ row[j].proposal = p => row[j].org # req[w].org
    BY <2>5 DEF ProposalChecked, OfProposal
  <2>7. \A j \in InTable : p # None => row[j].proposal # p
    BY <1>1, <2>6 DEF UnracedInv, OneInvoicePerProposal
  <2>8. OneInvoicePerProposal'
    BY <1>1, <2>4, <2>6, <2>7 DEF UnracedInv, OneInvoicePerProposal
  <2>9. QED
    BY <2>3, <2>8 DEF UnracedInv
<1>5. ASSUME NEW w \in Worker, FailCreate(w) PROVE UnracedInv'
  <2>1. row' = row /\ \A v \in Worker : req'[v] # Idle => req'[v] = req[v]
    BY <1>1, <1>5 DEF FailCreate, TypeOK
  <2>2. QED
    BY <1>1, <2>1, NothingNew DEF InTable
<1>6. ASSUME NEW i \in Invoice, IssueInvoice(i) \/ DeleteInvoice(i) PROVE UnracedInv'
  <2>1. /\ row \in [Invoice -> Row]
        /\ \E new \in Row : row' = [row EXCEPT ![i] = new]
              /\ \/ new.status = "deleted"
                 \/ i \in InTable /\ new.proposal = row[i].proposal
                                  /\ new.org = row[i].org
    <3>1. CASE IssueInvoice(i)
      <4> DEFINE new == [row[i] EXCEPT !.status = "issued"]
      <4>1. row[i].status = "draft" /\ row' = [row EXCEPT ![i] = new] /\ i \in InTable
        BY <3>1 DEF IssueInvoice, InTable
      <4>2. new \in Row /\ new.proposal = row[i].proposal /\ new.org = row[i].org
        BY <1>1, <4>1 DEF TypeOK, Row, RowStatus
      <4>3. QED
        BY <1>1, <4>1, <4>2 DEF TypeOK
    <3>2. NoRow("deleted") \in Row /\ NoRow("deleted").status = "deleted"
      BY DEF NoRow, Row, RowStatus
    <3>3. CASE DeleteInvoice(i)
      BY <1>1, <3>2, <3>3 DEF DeleteInvoice, TypeOK
    <3>4. QED
      BY <1>6, <3>1, <3>3
  <2>2. \A j \in InTable' : j \in InTable /\ row'[j].proposal = row[j].proposal
                                          /\ row'[j].org = row[j].org
    BY <2>1 DEF InTable
  <2>3. req' = req
    BY <1>6 DEF IssueInvoice, DeleteInvoice
  <2>4. QED
    BY <1>1, <2>2, <2>3, NothingNew
<1>7. CASE UNCHANGED mcvars
  BY <1>1, <1>7, NothingNew DEF mcvars, vars, InTable
<1>8. QED
  BY <1>2, <1>3, <1>4, <1>5, <1>6, <1>7 DEF MCNext, Next, Create

LEMMA UnracedInit == MCInit => UnracedInv
<1> SUFFICES ASSUME MCInit PROVE UnracedInv
  OBVIOUS
<1>1. IInv
  BY InitHolds DEF MCInit
<1>2. InTable = {} /\ \A w \in Worker : req[w] = Idle
  BY DEF MCInit, Init, InTable, NoRow
<1>3. QED
  BY <1>1, <1>2 DEF UnracedInv, OneRequest, StillChecked, OneInvoicePerProposal

\* For any number of organizations, proposals and requests: as long as no two
\* requests overlap, a proposal has at most one invoice, of its own organization
\* (the check of create_invoice before the count and the INSERT).
THEOREM OneInvoice == MCSpec => []OneInvoiceUnlessRaced
<1>1. UnracedInv => OneInvoiceUnlessRaced
  BY DEF UnracedInv, OneInvoiceUnlessRaced
<1>2. QED
  BY <1>1, UnracedInit, UnracedStep, PTL DEF MCSpec
===============================================================================
