---------------------------- MODULE BookingImport ----------------------------
(***************************************************************************)
(* What the import of channel-manager bookings promises: an imported       *)
(* booking shows one of its revisions, never goes back to an older one,    *)
(* and a revision is acknowledged to the channel manager (which then       *)
(* forgets it) only when the booking shows it or a later one.              *)
(***************************************************************************)
EXTENDS Integers

CONSTANTS Bookings, Revisions, BookingOf, At, Cancels, NoRevision

VARIABLES
  stored,  \* the revision each booking shows
  acked    \* the revisions the channel manager will not deliver again

vars == <<stored, acked>>

Init ==
  /\ stored = [b \in Bookings |-> NoRevision]
  /\ acked = {}

\* The booking shows revision r or one that is not older.
Covers(r) ==
  LET s == stored[BookingOf[r]] IN s # NoRevision /\ At[s] >= At[r]

Show(r) ==
  LET s == stored[BookingOf[r]] IN
  /\ s = NoRevision => ~Cancels[r]
  /\ s # NoRevision => At[r] >= At[s]
  /\ stored' = [stored EXCEPT ![BookingOf[r]] = r]
  /\ UNCHANGED acked

Acknowledge(r) ==
  /\ Covers(r)
  /\ acked' = acked \cup {r}
  /\ UNCHANGED stored

Next == \E r \in Revisions : Show(r) \/ Acknowledge(r)

Spec == Init /\ [][Next]_vars
=============================================================================
