----------------------------- MODULE Cancellations -----------------------------
(* What surrounds the cancellation of one booking of a tour: the refund quotes and *)
(* their ledger entries, the voucher, the check-in and the no-show.  Unlike the   *)
(* other commands these endpoints run no transaction: each statement is committed *)
(* by itself, and a call may end between any two.  The stock of the booking is in *)
(* HoldBooking.                                                                 *)
CONSTANTS Calls,       \* requests being served
          Keys, NoKey  \* idempotency keys of refund quotes, one quote each

ConstantsOK == NoKey \notin Keys

VARIABLES quote,      \* the status of the quote of each key
          ledger,     \* the quotes with a ledger entry
          booking,    \* [status, refund, arrived, operational] of the row
          voucher,
          call,       \* per call: what it does next, with which quote, and what it read
          disturbed   \* a cancellation died before its end, or a check-in that had seen
                      \* the booking confirmed ended after the cancellation

vars == <<quote, ledger, booking, voucher, call, disturbed>>

Idle == [at |-> "idle", key |-> NoKey, seen |-> "none"]

Init == /\ quote = [k \in Keys |-> "none"]
        /\ ledger = {}
        /\ booking = [status |-> "confirmed", refund |-> NoKey, arrived |-> FALSE,
                       operational |-> "none"]
        /\ voucher = "issued"
        /\ call = [c \in Calls |-> Idle]
        /\ disturbed = FALSE

Goto(c, at) == call' = [call EXCEPT ![c].at = at]
End(c) == call' = [call EXCEPT ![c] = Idle]

-----------------------------------------------------------------------------
(* POST /api/booking/cancel and refund-quotes: a quote is found by its key or      *)
(* inserted, and the insert that loses the key answers with the row it meets.     *)
(* Whether a new one needs a manual review depends on the policy and the hour.    *)
StartCancel(c, k) == /\ call[c].at = "idle"
                     /\ call' = [call EXCEPT ![c] = [Idle EXCEPT !.at = "quote", !.key = k]]
                     /\ UNCHANGED <<quote, ledger, booking, voucher, disturbed>>

SaveQuote(k) == IF quote[k] # "none" THEN UNCHANGED quote
                ELSE \E s \in {"quoted", "manual"} : quote' = [quote EXCEPT ![k] = s]

RequestQuote(k) == /\ SaveQuote(k)
                   /\ UNCHANGED <<ledger, booking, voucher, call, disturbed>>

QuoteCancel(c) == /\ call[c].at = "quote"
                  /\ SaveQuote(call[c].key)
                  /\ Goto(c, "record")
                  /\ UNCHANGED <<ledger, booking, voucher, disturbed>>

Recordable(k) == quote[k] = "quoted"

(* recordRefundLedgerFromQuote: the entry of a quote is unique. *)
RecordLedger(c) == LET k == call[c].key IN
                   /\ call[c].at = "record"
                   /\ Recordable(k)
                   /\ ledger' = ledger \cup {k}
                   /\ Goto(c, "cancel")
                   /\ UNCHANGED <<quote, booking, voucher, disturbed>>

ManualReview(c) == /\ call[c].at = "record"
                   /\ ~Recordable(call[c].key)
                   /\ End(c)
                   /\ UNCHANGED <<quote, ledger, booking, voucher, disturbed>>

\* Somebody has seen the booking confirmed and goes on as if it were.
CheckingIn == \E c \in Calls : call[c].at \in {"arrive", "seek", "redeem"}

MarkCancelled(c) == /\ call[c].at = "cancel"
                    /\ booking' = [booking EXCEPT !.status = "cancelled", !.refund = call[c].key]
                    /\ disturbed' = (disturbed \/ CheckingIn)
                    /\ Goto(c, "voucher")
                    /\ UNCHANGED <<quote, ledger, voucher>>

ReadVoucher(c) == /\ call[c].at = "voucher"
                  /\ call' = [call EXCEPT ![c].at = "void", ![c].seen = voucher]
                  /\ UNCHANGED <<quote, ledger, booking, voucher, disturbed>>

\* Mutant: as if only a voucher that has not been used were voided.
VoidableUnused(status) == status = "issued"
Voidable(status) == status \in {"issued", "redeemed"}

VoidVoucher(c) == /\ call[c].at = "void"
                  /\ voucher' = IF Voidable(call[c].seen) THEN "void" ELSE voucher
                  /\ End(c)
                  /\ UNCHANGED <<quote, ledger, booking, disturbed>>

-----------------------------------------------------------------------------
(* POST /api/booking/check-in: the row is read once; a booking that has arrived     *)
(* before goes on to its voucher, which an earlier call may have left unredeemed. *)
StartCheckIn(c) == /\ call[c].at = "idle"
                   /\ booking.status = "confirmed"
                   /\ Goto(c, IF booking.arrived THEN "seek" ELSE "arrive")
                   /\ UNCHANGED <<quote, ledger, booking, voucher, disturbed>>

Arrive(c) == /\ call[c].at = "arrive"
             /\ booking' = [booking EXCEPT !.arrived = TRUE, !.operational = "checked_in"]
             /\ Goto(c, "seek")
             /\ UNCHANGED <<quote, ledger, voucher, disturbed>>

SeekVoucher(c) == /\ call[c].at = "seek"
                  /\ call' = [call EXCEPT ![c].at = "redeem", ![c].seen = voucher]
                  /\ UNCHANGED <<quote, ledger, booking, voucher, disturbed>>

Redeem(c) == /\ call[c].at = "redeem"
             /\ voucher' = IF call[c].seen = "issued" THEN "redeemed" ELSE voucher
             /\ End(c)
             /\ UNCHANGED <<quote, ledger, booking, disturbed>>

(* POST /api/booking/tour-operations, no_show. *)
StartNoShow(c) == /\ call[c].at = "idle"
                  /\ booking.status = "confirmed" /\ ~booking.arrived
                  /\ Goto(c, "noShow")
                  /\ UNCHANGED <<quote, ledger, booking, voucher, disturbed>>

MarkNoShow(c) == /\ call[c].at = "noShow"
                 /\ booking' = [booking EXCEPT !.operational = "no_show"]
                 /\ End(c)
                 /\ UNCHANGED <<quote, ledger, voucher, disturbed>>

Die(c) == /\ call[c].at # "idle"
          /\ disturbed' = (disturbed \/ call[c].at \in {"voucher", "void"})
          /\ End(c)
          /\ UNCHANGED <<quote, ledger, booking, voucher>>

-----------------------------------------------------------------------------
Cancel(c) == \/ QuoteCancel(c) \/ RecordLedger(c) \/ ManualReview(c)
             \/ MarkCancelled(c) \/ ReadVoucher(c) \/ VoidVoucher(c)
CheckIn(c) == StartCheckIn(c) \/ Arrive(c) \/ SeekVoucher(c) \/ Redeem(c)

Next == \/ \E k \in Keys : RequestQuote(k) \/ \E c \in Calls : StartCancel(c, k)
        \/ \E c \in Calls : \/ Cancel(c) \/ CheckIn(c)
                            \/ StartNoShow(c) \/ MarkNoShow(c) \/ Die(c)

Spec == Init /\ [][Next]_vars

-----------------------------------------------------------------------------
TypeOK == /\ quote \in [Keys -> {"none", "quoted", "manual"}]
          /\ ledger \subseteq Keys
          /\ booking \in [status : {"confirmed", "cancelled"}, refund : Keys \cup {NoKey},
                          arrived : BOOLEAN, operational : {"none", "checked_in", "no_show"}]
          /\ voucher \in {"issued", "redeemed", "void"}
          /\ call \in [Calls -> [at : {"idle", "quote", "record", "cancel", "voucher", "void",
                                       "arrive", "seek", "redeem", "noShow"},
                                 key : Keys \cup {NoKey},
                                 seen : {"none", "issued", "redeemed", "void"}]]

(* A cancelled booking points to a ledger entry of a quote that needs no review,   *)
(* whichever calls died or raced: the entry is written first.                    *)
RefundBehindCancellation == /\ booking.status = "cancelled" => booking.refund \in ledger
                            /\ \A k \in ledger : quote[k] = "quoted"

(* When the cancellations of a booking have ended its voucher is void, unless one   *)
(* of them died or a check-in overlapped it; a voucher is redeemed by an arrival. *)
VoucherFollows ==
    /\ voucher = "redeemed" => booking.arrived
    /\ (booking.status = "cancelled" /\ ~disturbed
        /\ \A c \in Calls : call[c].at \notin {"voucher", "void"}) => voucher = "void"

CancellationAccounted == RefundBehindCancellation /\ VoucherFollows
=============================================================================
