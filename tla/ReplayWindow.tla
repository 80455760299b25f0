---------------------------- MODULE ReplayWindow ----------------------------
(***************************************************************************)
(* One direction of a data-plane session: internal/crypto/session.go (the  *)
(* Cipher with its ReplayWindow) between a sender that numbers its packets *)
(* with an atomic counter (internal/dataplane/client.go send,              *)
(* internal/dataplane/server.go serverSession.Send) and the one readUDP    *)
(* goroutine that opens them.                                              *)
(*                                                                         *)
(* The datagram network may lose, duplicate, delay and reorder packets:    *)
(* every packet ever sent can arrive at any later time, any number of      *)
(* times.  It may also damage a datagram: any sequence number can arrive   *)
(* with a payload or header that fails authentication.                     *)
(*                                                                         *)
(* Definitions named Mutant... are plausible defects of the definition     *)
(* that follows them; they are not part of the specification.              *)
(*                                                                         *)
(* The 64-bit bitmap is the set of the positions of its 1 bits; position d *)
(* stands for sequence number highest - d.  Width is 64 in the code.       *)
(***************************************************************************)
EXTENDS Naturals

CONSTANTS Width,         \* bits in the bitmap, 64 in the code
          MaxSeq         \* bound on the sequence numbers of one session

ASSUME WidthAssumption == Width \in Nat \ {0}
ASSUME MaxSeqAssumption == MaxSeq \in Nat

VARIABLES sent,          \* sender: session.sequence
          highest,       \* receiver: ReplayWindow.highest
          bitmap,        \* receiver: ReplayWindow.bitmap, the 1 positions
          deliveries     \* history: successful Open calls per sequence

window == <<highest, bitmap>>
vars == <<sent, highest, bitmap, deliveries>>

Bits == 0..(Width - 1)
Seqs == 0..MaxSeq

TypeOK ==
    /\ sent \in Seqs
    /\ highest \in Seqs
    /\ bitmap \in SUBSET Bits
    /\ deliveries \in [1..MaxSeq -> Nat]

Init ==
    /\ sent = 0
    /\ highest = 0
    /\ bitmap = {}
    /\ deliveries = [s \in 1..MaxSeq |-> 0]

-----------------------------------------------------------------------------
(* ReplayWindow.Accept, split into its verdict and its effect.             *)

\* b << n on a Width-bit word; a shift by Width or more leaves nothing.
ShiftLeft(b, n) == {d \in Bits : d >= n /\ d - n \in b}

\* The value Accept(seq) returns.
Accepts(seq) ==
    /\ seq # 0
    /\ seq <= highest =>
          /\ highest - seq < Width
          /\ highest - seq \notin bitmap

\* The window after Accept(seq) returned TRUE.
AcceptedHighest(seq) == IF seq > highest THEN seq ELSE highest

\* Mutant: every jump of the highest number clears the word.
MutantJumpClears(seq) ==
    IF seq > highest THEN {0} ELSE bitmap \cup {highest - seq}

AcceptedBitmap(seq) ==
    IF seq > highest
    THEN ShiftLeft(bitmap, seq - highest) \cup {0}
    ELSE bitmap \cup {highest - seq}

\* Mutant: nothing is rolled back.
MutantNoRollback(h, b, seq) == b

\* ReplayWindow.Rollback(seq) on the word b of a window whose highest is h;
\* a bit beyond the word cannot be cleared (1 << d is 0 for d >= Width).
Rollback(h, b, seq) == IF seq <= h THEN b \ {h - seq} ELSE b

-----------------------------------------------------------------------------
(* Cipher.Seal with the next sequence number: the counter is atomic, so    *)
(* concurrent senders use distinct numbers.                                *)
Seal ==
    /\ sent < MaxSeq
    /\ sent' = sent + 1
    /\ UNCHANGED <<highest, bitmap, deliveries>>

\* Cipher.Open of an intact packet that passes the window: delivered.
OpenAuthentic(seq) ==
    /\ seq \in 1..sent
    /\ Accepts(seq)
    /\ highest' = AcceptedHighest(seq)
    /\ bitmap' = AcceptedBitmap(seq)
    /\ deliveries' = [deliveries EXCEPT ![seq] = @ + 1]
    /\ UNCHANGED sent

\* Cipher.Open of a datagram that passes the window and then fails the AEAD
\* check: the bit is rolled back, the packet is not delivered.
OpenDamaged(seq) ==
    /\ Accepts(seq)
    /\ highest' = AcceptedHighest(seq)
    /\ bitmap' = Rollback(AcceptedHighest(seq), AcceptedBitmap(seq), seq)
    /\ UNCHANGED <<sent, deliveries>>

\* Cipher.Open of a sequence number that is zero, too old or seen before.
OpenRejected(seq) ==
    /\ ~Accepts(seq)
    /\ UNCHANGED vars

Next ==
    \/ Seal
    \/ \E seq \in Seqs : OpenAuthentic(seq)
    \/ \E seq \in Seqs : OpenDamaged(seq)
    \/ \E seq \in Seqs : OpenRejected(seq)

Spec == Init /\ [][Next]_vars

-----------------------------------------------------------------------------
(* Properties.                                                             *)

\* The bits of the window tell exactly which of the last Width sequence
\* numbers were delivered: a bit set for an undelivered packet would lose it
\* for good, a bit missing for a delivered one would let it in again.  It has
\* to survive every mixture of jumps (the shift), late arrivals and
\* rollbacks of damaged datagrams.
BitmapExact ==
    \A d \in Bits :
        d \in bitmap <=> /\ d < highest
                         /\ deliveries[highest - d] > 0

\* Cipher.Open returns the plaintext of one packet at most once, however the
\* network duplicates and reorders datagrams.
AtMostOnce == \A s \in 1..MaxSeq : deliveries[s] <= 1

\* A packet that is less than Width behind the newest one seen and that was
\* not delivered is still acceptable: being overtaken inside the window never
\* loses a packet, whatever was rolled back in between.
NoLossInsideWindow ==
    \A s \in 1..sent :
        (deliveries[s] = 0 /\ s + Width > highest) => Accepts(s)

\* The abstract promise, with the same sent and deliveries.
Channel == INSTANCE AtMostOnceChannel
           WITH MaxSeq <- MaxSeq, sent <- sent, deliveries <- deliveries
ImplementsChannel == Channel!Spec

=============================================================================
