------------------------- MODULE CancellationsProofs -------------------------
(* Proofs about Cancellations, for every set of calls and of quotes.  A call goes  *)
(* on from what it has read; Inv says what is still true of it by then: the quote  *)
(* of a call that is about to cancel is in the ledger, a call that is about to     *)
(* redeem belongs to a guest who has arrived, and while the voucher of a cancelled *)
(* booking is not void, some call is on its way to make it so.                    *)
EXTENDS Cancellations, TLAPS

InCheckIn == {"arrive", "seek", "redeem"}

LedgerInv ==
  /\ \A k \in ledger : quote[k] = "quoted"
  /\ \A c \in Calls : call[c].at \in {"quote", "record", "cancel"} => call[c].key \in Keys
  /\ \A c \in Calls : call[c].at = "cancel" => call[c].key \in ledger
  /\ booking.status = "cancelled" => booking.refund \in ledger

VoucherInv ==
  /\ \A c \in Calls : call[c].at \in {"seek", "redeem"} => booking.arrived
  /\ voucher = "redeemed" => booking.arrived
  /\ booking.status = "cancelled" /\ ~disturbed =>
       /\ \A c \in Calls : call[c].at \notin InCheckIn
       /\ \/ voucher = "void"
          \/ \E c \in Calls : \/ call[c].at = "voucher"
                              \/ call[c].at = "void" /\ Voidable(call[c].seen)

Inv == TypeOK /\ LedgerInv /\ VoucherInv

-----------------------------------------------------------------------------
CallType == [at : {"idle", "quote", "record", "cancel", "voucher", "void",
                   "arrive", "seek", "redeem", "noShow"},
             key : Keys \cup {NoKey}, seen : {"none", "issued", "redeemed", "void"}]

\* A call that goes on with the voucher it has just read.
LEMMA Seen == ASSUME NEW q \in CallType, NEW at \in {"void", "redeem"},
                     NEW s \in {"issued", "redeemed", "void"}
              PROVE [[q EXCEPT !.at = at] EXCEPT !.seen = s] \in CallType
<1> DEFINE r == [q EXCEPT !.at = at]
<1>1. r \in CallType
  BY DEF CallType
<1> HIDE DEF r
<1>2. [r EXCEPT !.seen = s] \in CallType
  BY <1>1 DEF CallType
<1> QED BY <1>2 DEF r

LEMMA TypeStep == ASSUME ConstantsOK, TypeOK, LedgerInv, [Next]_vars PROVE TypeOK'
<1> USE DEF TypeOK, Idle, Goto, End
<1>1. ASSUME NEW c \in Calls, NEW k \in Keys, StartCancel(c, k) PROVE TypeOK'
  BY <1>1 DEF StartCancel
<1>2. ASSUME NEW c \in Calls, QuoteCancel(c) PROVE TypeOK'
  BY <1>2 DEF QuoteCancel, SaveQuote
<1>3. ASSUME NEW c \in Calls, RecordLedger(c) PROVE TypeOK'
  BY <1>3 DEF RecordLedger, Recordable, LedgerInv
<1>4. ASSUME NEW c \in Calls, ManualReview(c) PROVE TypeOK'
  BY <1>4 DEF ManualReview
<1>5. ASSUME NEW c \in Calls, MarkCancelled(c) PROVE TypeOK'
  BY <1>5, ZenonT(30) DEF MarkCancelled, CheckingIn
<1>6. ASSUME NEW c \in Calls, ReadVoucher(c) PROVE TypeOK'
  <2> DEFINE next == [[call[c] EXCEPT !.at = "void"] EXCEPT !.seen = voucher]
  <2>1. next \in CallType
    <3>1. call[c] \in CallType
      BY DEF CallType
    <3>2. voucher \in {"issued", "redeemed", "void"}
      OBVIOUS
    <3> QED BY <3>1, <3>2, Seen
  <2>2. call' = [call EXCEPT ![c] = next] /\ UNCHANGED <<quote, ledger, booking, voucher>>
    BY <1>6 DEF ReadVoucher
  <2> HIDE DEF next
  <2>3. call' \in [Calls -> CallType]
    BY <2>1, <2>2 DEF CallType
  <2> QED BY <2>2, <2>3 DEF CallType
<1>7. ASSUME NEW c \in Calls, VoidVoucher(c) PROVE TypeOK'
  BY <1>7 DEF VoidVoucher
<1>8. ASSUME NEW c \in Calls, StartCheckIn(c) PROVE TypeOK'
  BY <1>8 DEF StartCheckIn
<1>9. ASSUME NEW c \in Calls, Arrive(c) PROVE TypeOK'
  BY <1>9 DEF Arrive
<1>10. ASSUME NEW c \in Calls, SeekVoucher(c) PROVE TypeOK'
  <2> DEFINE next == [[call[c] EXCEPT !.at = "redeem"] EXCEPT !.seen = voucher]
  <2>1. next \in CallType
    <3>1. call[c] \in CallType
      BY DEF CallType
    <3>2. voucher \in {"issued", "redeemed", "void"}
      OBVIOUS
    <3> QED BY <3>1, <3>2, Seen
  <2>2. call' = [call EXCEPT ![c] = next] /\ UNCHANGED <<quote, ledger, booking, voucher>>
    BY <1>10 DEF SeekVoucher
  <2> HIDE DEF next
  <2>3. call' \in [Calls -> CallType]
    BY <2>1, <2>2 DEF CallType
  <2> QED BY <2>2, <2>3 DEF CallType
<1>11. ASSUME NEW c \in Calls, Redeem(c) PROVE TypeOK'
  BY <1>11 DEF Redeem
<1>12. ASSUME NEW c \in Calls, StartNoShow(c) PROVE TypeOK'
  BY <1>12 DEF StartNoShow
<1>13. ASSUME NEW c \in Calls, MarkNoShow(c) PROVE TypeOK'
  BY <1>13 DEF MarkNoShow
<1>14. ASSUME NEW c \in Calls, Die(c) PROVE TypeOK'
  BY <1>14 DEF Die
<1>15. ASSUME NEW k \in Keys, RequestQuote(k) PROVE TypeOK'
  BY <1>15 DEF RequestQuote, SaveQuote
<1>16. CASE UNCHANGED vars
  BY <1>16 DEF vars
<1> QED BY <1>1, <1>2, <1>3, <1>4, <1>5, <1>6, <1>7, <1>8, <1>9, <1>10, <1>11, <1>12, <1>13, <1>14, <1>15, <1>16
       DEF Next, Cancel, CheckIn

LEMMA LedgerStep == ASSUME ConstantsOK, TypeOK, LedgerInv, [Next]_vars PROVE LedgerInv'
<1> USE DEF TypeOK, LedgerInv, Idle, Goto, End
<1>1. ASSUME NEW c \in Calls, NEW k \in Keys, StartCancel(c, k) PROVE LedgerInv'
  BY <1>1 DEF StartCancel
<1>2. ASSUME NEW c \in Calls, QuoteCancel(c) PROVE LedgerInv'
  BY <1>2 DEF QuoteCancel, SaveQuote
<1>3. ASSUME NEW c \in Calls, RecordLedger(c) PROVE LedgerInv'
  BY <1>3 DEF RecordLedger, Recordable
<1>4. ASSUME NEW c \in Calls, ManualReview(c) PROVE LedgerInv'
  BY <1>4 DEF ManualReview
<1>5. ASSUME NEW c \in Calls, MarkCancelled(c) PROVE LedgerInv'
  BY <1>5 DEF MarkCancelled, CheckingIn
<1>6. ASSUME NEW c \in Calls, ReadVoucher(c) PROVE LedgerInv'
  BY <1>6 DEF ReadVoucher
<1>7. ASSUME NEW c \in Calls, VoidVoucher(c) PROVE LedgerInv'
  BY <1>7 DEF VoidVoucher
<1>8. ASSUME NEW c \in Calls, StartCheckIn(c) PROVE LedgerInv'
  BY <1>8 DEF StartCheckIn
<1>9. ASSUME NEW c \in Calls, Arrive(c) PROVE LedgerInv'
  BY <1>9 DEF Arrive
<1>10. ASSUME NEW c \in Calls, SeekVoucher(c) PROVE LedgerInv'
  BY <1>10 DEF SeekVoucher
<1>11. ASSUME NEW c \in Calls, Redeem(c) PROVE LedgerInv'
  BY <1>11 DEF Redeem
<1>12. ASSUME NEW c \in Calls, StartNoShow(c) PROVE LedgerInv'
  BY <1>12 DEF StartNoShow
<1>13. ASSUME NEW c \in Calls, MarkNoShow(c) PROVE LedgerInv'
  BY <1>13 DEF MarkNoShow
<1>14. ASSUME NEW c \in Calls, Die(c) PROVE LedgerInv'
  BY <1>14 DEF Die
<1>15. ASSUME NEW k \in Keys, RequestQuote(k) PROVE LedgerInv'
  BY <1>15 DEF RequestQuote, SaveQuote
<1>16. CASE UNCHANGED vars
  BY <1>16 DEF vars
<1> QED BY <1>1, <1>2, <1>3, <1>4, <1>5, <1>6, <1>7, <1>8, <1>9, <1>10, <1>11, <1>12, <1>13, <1>14, <1>15, <1>16
       DEF Next, Cancel, CheckIn

LEMMA VoucherStep == ASSUME ConstantsOK, TypeOK, VoucherInv, [Next]_vars PROVE VoucherInv'
<1> USE DEF TypeOK, VoucherInv, InCheckIn, Idle, Goto, End
<1>1. ASSUME NEW c \in Calls, NEW k \in Keys, StartCancel(c, k) PROVE VoucherInv'
  BY <1>1 DEF StartCancel
<1>2. ASSUME NEW c \in Calls, QuoteCancel(c) PROVE VoucherInv'
  BY <1>2 DEF QuoteCancel, SaveQuote
<1>3. ASSUME NEW c \in Calls, RecordLedger(c) PROVE VoucherInv'
  BY <1>3 DEF RecordLedger, Recordable
<1>4. ASSUME NEW c \in Calls, ManualReview(c) PROVE VoucherInv'
  BY <1>4 DEF ManualReview
<1>5. ASSUME NEW c \in Calls, MarkCancelled(c) PROVE VoucherInv'
  BY <1>5, ZenonT(30) DEF MarkCancelled, Voidable, CheckingIn
<1>6. ASSUME NEW c \in Calls, ReadVoucher(c) PROVE VoucherInv'
  BY <1>6 DEF ReadVoucher, Voidable
<1>7. ASSUME NEW c \in Calls, VoidVoucher(c) PROVE VoucherInv'
  BY <1>7 DEF VoidVoucher, Voidable
<1>8. ASSUME NEW c \in Calls, StartCheckIn(c) PROVE VoucherInv'
  BY <1>8 DEF StartCheckIn
<1>9. ASSUME NEW c \in Calls, Arrive(c) PROVE VoucherInv'
  BY <1>9 DEF Arrive
<1>10. ASSUME NEW c \in Calls, SeekVoucher(c) PROVE VoucherInv'
  BY <1>10 DEF SeekVoucher
<1>11. ASSUME NEW c \in Calls, Redeem(c) PROVE VoucherInv'
  BY <1>11 DEF Redeem
<1>12. ASSUME NEW c \in Calls, StartNoShow(c) PROVE VoucherInv'
  BY <1>12 DEF StartNoShow
<1>13. ASSUME NEW c \in Calls, MarkNoShow(c) PROVE VoucherInv'
  BY <1>13 DEF MarkNoShow
<1>14. ASSUME NEW c \in Calls, Die(c) PROVE VoucherInv'
  BY <1>14 DEF Die, Voidable
<1>15. ASSUME NEW k \in Keys, RequestQuote(k) PROVE VoucherInv'
  BY <1>15 DEF RequestQuote, SaveQuote
<1>16. CASE UNCHANGED vars
  BY <1>16 DEF vars
<1> QED BY <1>1, <1>2, <1>3, <1>4, <1>5, <1>6, <1>7, <1>8, <1>9, <1>10, <1>11, <1>12, <1>13, <1>14, <1>15, <1>16
       DEF Next, Cancel, CheckIn

LEMMA Start == ASSUME ConstantsOK, Init PROVE Inv
BY DEF Init, Inv, TypeOK, LedgerInv, VoucherInv, Idle

LEMMA Step == ASSUME ConstantsOK, Inv, [Next]_vars PROVE Inv'
BY TypeStep, LedgerStep, VoucherStep DEF Inv

LEMMA Accounted == ASSUME Inv PROVE CancellationAccounted
BY DEF Inv, LedgerInv, VoucherInv, CancellationAccounted, RefundBehindCancellation, VoucherFollows

THEOREM CancellationInvariant == ASSUME ConstantsOK PROVE Spec => []Inv
BY Start, Step, PTL DEF Spec

\* A cancelled booking points to a ledger entry of a quote that needs no review, and its
\* voucher is void once its cancellations have ended, unless one of them died or a
\* check-in overlapped it.
THEOREM AccountedFor == ASSUME ConstantsOK PROVE Spec => []CancellationAccounted
BY Accounted, CancellationInvariant, PTL
=============================================================================
