---------------------------- MODULE InvoiceNumbers ----------------------------
(***************************************************************************)
(* Creating an invoice: the checks, the numbering and the INSERT of          *)
(* POST /invoices.  Every SELECT of a request sees what is committed at that *)
(* moment, so other requests commit between its three steps.                 *)
(*                                                                          *)
(* A number is INV-<year>-<sequence>; the year is fixed here and the number  *)
(* is its sequence.  invoice_number is unique over the whole table.          *)
(***************************************************************************)
EXTENDS Naturals, FiniteSets

CONSTANTS
    Invoice,    \* ids of invoice rows, never reused
    Org,        \* organizations
    Proposal,   \* proposals, none of which is deleted
    OwnerOf,    \* OwnerOf[p]: the organization of proposal p
    Worker,     \* requests that can be in progress at once
    None        \* no proposal

ASSUME OwnerAssumption == OwnerOf \in [Proposal -> Org]
ASSUME NoneAssumption == None \notin Proposal \cup Org

VARIABLES
    row,        \* row[i]: the committed row
    req         \* req[w]: what worker w's request knows

vars == <<row, req>>

-------------------------------------------------------------------------------

RowStatus == {"absent", "draft", "issued", "deleted"}
Row == [status : RowStatus, org : Org \cup {None},
        proposal : Proposal \cup {None}, number : Nat]
NoRow(st) == [status |-> st, org |-> None, proposal |-> None, number |-> 0]

InTable == {i \in Invoice : row[i].status \in {"draft", "issued"}}
Numbers == {row[i].number : i \in InTable}
NoneDeleted == \A i \in Invoice : row[i].status # "deleted"

Idle == [at |-> "idle", org |-> None, proposal |-> None, number |-> 0]
Request == {Idle} \cup [at : {"checked", "numbered"}, org : Org,
                        proposal : Proposal \cup {None}, number : Nat]

OfProposal_NoDrafts(p, o) ==         \* mutant: the lookup skips drafts
    {i \in InTable : row[i].proposal = p /\ row[i].org = o /\ row[i].status # "draft"}
\* get_by_proposal: the invoices of proposal p in organization o.
OfProposal(p, o) == {i \in InTable : row[i].proposal = p /\ row[i].org = o}

NextSequence_LastIndex(o) ==         \* mutant: the index of the last row
    Cardinality({i \in InTable : row[i].org = o}) - 1
\* get_next_invoice_number_sequence: the organization's invoices, plus one.
NextSequence(o) == Cardinality({i \in InTable : row[i].org = o}) + 1

\* A named proposal must be one of the organization's, and have no invoice yet;
\* two invoices make the lookup raise.
ProposalChecked(o, p) ==
    p # None => OwnerOf[p] = o /\ OfProposal(p, o) = {}

-------------------------------------------------------------------------------
(* POST /invoices *)

BeginCreate(w, o, p) ==
    /\ req[w] = Idle
    /\ ProposalChecked(o, p)
    /\ req' = [req EXCEPT ![w] = [at |-> "checked", org |-> o,
                                  proposal |-> p, number |-> 0]]
    /\ UNCHANGED row

CountInvoices(w) ==
    /\ req[w].at = "checked"
    /\ req' = [req EXCEPT ![w].at = "numbered",
                          ![w].number = NextSequence(req[w].org)]
    /\ UNCHANGED row

InsertInvoice_Renumbers(w, i) ==     \* mutant: counts again on INSERT
    /\ req[w].at = "numbered"
    /\ row[i].status = "absent"
    /\ row' = [row EXCEPT ![i] = [status |-> "draft", org |-> req[w].org,
                                  proposal |-> req[w].proposal,
                                  number |-> NextSequence(req[w].org)]]
    /\ req' = [req EXCEPT ![w] = Idle]
\* The INSERT and the commit; the unique index refuses a number in use.
InsertInvoice(w, i) ==
    /\ req[w].at = "numbered"
    /\ req[w].number \notin Numbers
    /\ row[i].status = "absent"
    /\ row' = [row EXCEPT ![i] = [status |-> "draft", org |-> req[w].org,
                                  proposal |-> req[w].proposal,
                                  number |-> req[w].number]]
    /\ req' = [req EXCEPT ![w] = Idle]

\* The INSERT is refused, or the request fails on the way.
FailCreate(w) ==
    /\ req[w] # Idle
    /\ req' = [req EXCEPT ![w] = Idle]
    /\ UNCHANGED row

(* What else changes the rows the checks read (Invoices.tla has the detail) *)

IssueInvoice(i) ==
    /\ row[i].status = "draft"
    /\ row' = [row EXCEPT ![i].status = "issued"]
    /\ UNCHANGED req

DeleteInvoice(i) ==
    /\ row[i].status = "draft"
    /\ row' = [row EXCEPT ![i] = NoRow("deleted")]
    /\ UNCHANGED req

-------------------------------------------------------------------------------

Init ==
    /\ row = [i \in Invoice |-> NoRow("absent")]
    /\ req = [w \in Worker |-> Idle]

Create(w) ==
    \/ \E o \in Org, p \in Proposal \cup {None} : BeginCreate(w, o, p)
    \/ CountInvoices(w)
    \/ \E i \in Invoice : InsertInvoice(w, i)
    \/ FailCreate(w)

Next ==
    \/ \E w \in Worker : Create(w)
    \/ \E i \in Invoice : IssueInvoice(i) \/ DeleteInvoice(i)

Spec == Init /\ [][Next]_vars

-------------------------------------------------------------------------------
(* Properties *)

\* Every variable has its type.
TypeOK ==
    /\ row \in [Invoice -> Row]
    /\ req \in [Worker -> Request]

\* As long as no draft was deleted, the numbers of all organizations together are
\* 1, 2, ... without a gap or a repetition, whatever requests race.
NoGaps ==
    NoneDeleted => /\ Numbers = 1..Cardinality(InTable)
                   /\ \A i, j \in InTable : row[i].number = row[j].number => i = j

\* A proposal has at most one invoice, and it is one of its own organization.
OneInvoicePerProposal ==
    \A i, j \in InTable : row[i].proposal # None =>
        /\ row[i].org = OwnerOf[row[i].proposal]
        /\ row[j].proposal = row[i].proposal => i = j

\* --- what the documentation says and the code does not do ---

\* "Generate unique, sequential invoice numbers": when no other request is in
\* progress, the number a request counted is not taken.
NumberIsFree ==
    \A w \in Worker :
        (req[w].at = "numbered" /\ \A v \in Worker \ {w} : req[v] = Idle)
            => req[w].number \notin Numbers
===============================================================================
