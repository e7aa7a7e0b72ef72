---------------------------- MODULE BudgetLedger ----------------------------
(***************************************************************************)
(* Vouchers and the ledger they are booked in:                             *)
(*   app/services/project_payment_service.ts      advances and payments    *)
(*   app/services/project_procurement_service.ts  purchases                *)
(*   app/services/module56_common.ts              budgetSnapshot           *)
(* The finance office (KH-TC) accepts a voucher in two steps, as the code  *)
(* does: it reads the row and checks its status, and later, in a           *)
(* transaction that reads nothing again, marks it done and books it.       *)
(***************************************************************************)
EXTENDS ExecutionStatus, Functions, Naturals

CONSTANTS
    Payments, Purchases,    \* voucher rows
    Advances,               \* the payments whose kind is TAM_UNG
    Lines,                  \* budget lines
    LineOf, Amount,         \* of each voucher
    Officers                \* accepting requests the finance office runs at once

Vouchers == Payments \cup Purchases

PaymentStatus == {"YCKT_DRAFT", "YCKT_PKH", "YCKT_BS", "YCKT_TC", "YCKT_DONE"}
PurchaseStatus ==
    {"MS_DRAFT", "MS_CHO_PKH", "MS_BS", "MS_CHO_CSVC", "MS_TU_CHOI",
     "MS_DAU_THAU_THAT_BAI", "MS_DONG", "MS_CHO_NHAN", "MS_CHO_TC", "MS_DONE"}

ASSUME LedgerAssumption ==
    /\ None \notin Vouchers
    /\ None \notin PaymentStatus \cup PurchaseStatus
    /\ Payments \cap Purchases = {}
    /\ Advances \subseteq Payments
    /\ LineOf \in [Vouchers -> Lines]
    /\ Amount \in [Vouchers -> Nat \ {0}]

VARIABLES
    voucher,    \* status of the voucher; None before it exists
    posted,     \* ledger entries whose source is the voucher
    desk        \* what each officer has read and is about to accept

ledgerVars == <<voucher, posted, desk>>

\* budgetSnapshot: what a line has advanced and spent, summed over the ledger.
Paid == [v \in Vouchers |-> Amount[v] * posted[v]]
Booked(vs) == SumFunctionOnSet(Paid, vs)
SpentByLine ==
    [l \in Lines |-> Booked({v \in Vouchers \ Advances : LineOf[v] = l})]

Move(v, to) == voucher' = [voucher EXCEPT ![v] = to]

LedgerInit ==
    /\ voucher = [v \in Vouchers |-> None]
    /\ posted = [v \in Vouchers |-> 0]
    /\ desk = [f \in Officers |-> None]

----------------------------------------------------------------------------
(* Advances and payments (BM.07).                                          *)

\* Mutant: the status of the row is not looked at.
SavePaymentAnyStatus(v, submit) ==
    /\ exec = "DANG_THUC_HIEN"
    /\ Move(v, IF submit THEN "YCKT_PKH"
               ELSE IF voucher[v] = None THEN "YCKT_DRAFT" ELSE voucher[v])
    /\ UNCHANGED <<exec, posted, desk>>

SavePayment(v, submit) ==
    /\ exec = "DANG_THUC_HIEN"
    /\ voucher[v] \in {None, "YCKT_DRAFT", "YCKT_BS"}
    /\ Move(v, IF submit THEN "YCKT_PKH"
               ELSE IF voucher[v] = None THEN "YCKT_DRAFT" ELSE voucher[v])
    /\ UNCHANGED <<exec, posted, desk>>

\* The science office accepts, asks for more, or rejects.
PkhPayment(v, to) ==
    /\ voucher[v] = "YCKT_PKH"
    /\ to \in {"YCKT_TC", "YCKT_BS", "YCKT_DRAFT"}
    /\ Move(v, to)
    /\ UNCHANGED <<exec, posted, desk>>

(* Purchases.                                                              *)

SavePurchase(v, submit) ==
    /\ exec = "DANG_THUC_HIEN"
    /\ voucher[v] \in {None, "MS_DRAFT", "MS_BS"}
    /\ Move(v, IF submit THEN "MS_CHO_PKH"
               ELSE IF voucher[v] = None THEN "MS_DRAFT" ELSE voucher[v])
    /\ UNCHANGED <<exec, posted, desk>>

Refused == {"MS_TU_CHOI", "MS_DAU_THAU_THAT_BAI"}

PkhPurchase(v, to) ==
    /\ \/ voucher[v] = "MS_CHO_PKH" /\ to \in {"MS_CHO_CSVC", "MS_BS"}
       \/ voucher[v] \in Refused /\ to \in {"MS_BS", "MS_DONG"}
       \/ voucher[v] = "MS_BS" /\ to = "MS_DONG"
    /\ Move(v, to)
    /\ UNCHANGED <<exec, posted, desk>>

\* The facilities office supplies, rejects, or sees the bidding fail.
CsvcPurchase(v, to) ==
    /\ voucher[v] = "MS_CHO_CSVC"
    /\ to \in {"MS_CHO_NHAN"} \cup Refused
    /\ Move(v, to)
    /\ UNCHANGED <<exec, posted, desk>>

Receive(v) ==
    /\ voucher[v] = "MS_CHO_NHAN"
    /\ Move(v, "MS_CHO_TC")
    /\ UNCHANGED <<exec, posted, desk>>

----------------------------------------------------------------------------
(* The finance office.                                                     *)

Payable(v) == voucher[v] = IF v \in Payments THEN "YCKT_TC" ELSE "MS_CHO_TC"
Done(v)    == voucher[v] = IF v \in Payments THEN "YCKT_DONE" ELSE "MS_DONE"

\* An officer sends a voucher back to the step before.
TcReturn(f, v) ==
    /\ desk[f] = None /\ Payable(v)
    /\ Move(v, IF v \in Payments THEN "YCKT_PKH" ELSE "MS_CHO_NHAN")
    /\ UNCHANGED <<exec, posted, desk>>

TcRead(f, v) ==
    /\ desk[f] = None /\ Payable(v)
    /\ desk' = [desk EXCEPT ![f] = v]
    /\ UNCHANGED <<exec, voucher, posted>>

TcBook(f, v) ==
    /\ desk[f] = v
    /\ Move(v, IF v \in Payments THEN "YCKT_DONE" ELSE "MS_DONE")
    /\ posted' = [posted EXCEPT ![v] = @ + 1]
    /\ desk' = [desk EXCEPT ![f] = None]
    /\ UNCHANGED exec

LedgerNext ==
    \/ \E v \in Payments :
        \/ \E submit \in BOOLEAN : SavePayment(v, submit)
        \/ \E to \in PaymentStatus : PkhPayment(v, to)
    \/ \E v \in Purchases :
        \/ \E submit \in BOOLEAN : SavePurchase(v, submit)
        \/ \E to \in PurchaseStatus : PkhPurchase(v, to) \/ CsvcPurchase(v, to)
        \/ Receive(v)
    \/ \E f \in Officers, v \in Vouchers :
        TcReturn(f, v) \/ TcRead(f, v) \/ TcBook(f, v)
=============================================================================
