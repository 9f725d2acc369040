-------------------------------- MODULE Ring --------------------------------
(***************************************************************************)
(* The ring buffers a driver and an xHCI host controller share             *)
(* (kernel/usb/xhci/ring.cpp).  Neither side counts entries: an entry is   *)
(* new when its cycle bit equals the bit its consumer expects, and both    *)
(* bits are flipped each time round.  A ring of n entries is the record    *)
(*   buf    the entries 0..n-1, each a TRB with its cycle bit              *)
(*   index  the producer's place        cycle  the producer's cycle bit    *)
(* and a consumer the record [index, cycle].                               *)
(***************************************************************************)
EXTENDS Integers, Sequences

Blank == [type |-> "Reserved"]
LinkTRB == [type |-> "Link"]

(* Initialize of Ring and of EventRing: the memory is zeroed and the first *)
(* time round has cycle bit 1.                                             *)
NewRing(n) ==
  [buf |-> [i \in 0..n-1 |-> [trb |-> Blank, cycle |-> FALSE]], index |-> 0, cycle |-> TRUE]

NewConsumer == [index |-> 0, cycle |-> TRUE]

(* CopyToLast: the entry gets the producer's cycle bit; the place stays.   *)
(* The first three words are written before the one with the cycle bit, so *)
(* the consumer sees the entry whole or not at all.                        *)
CopyToLast(r, trb) == [r EXCEPT !.buf[r.index] = [trb |-> trb, cycle |-> r.cycle]]

(* Mutant of Push: the link entry is left out.                             *)
PushNoLink(r, n, trb) ==
  LET c == [CopyToLast(r, trb) EXCEPT !.index = @ + 1]
  IN  IF c.index = n - 1 THEN [c EXCEPT !.index = 0, !.cycle = ~@] ELSE c

(* Push: the last entry of the ring is kept for the link back to the first *)
(* one, which also tells the consumer to flip its bit.                     *)
Push(r, n, trb) ==
  LET c == [CopyToLast(r, trb) EXCEPT !.index = @ + 1]
  IN  IF c.index = n - 1
      THEN [CopyToLast(c, LinkTRB) EXCEPT !.index = 0, !.cycle = ~@]
      ELSE c

(* EventRing::HasFront and Front, and the controller's look at a ring.     *)
HasFront(r, c) == r.buf[c.index].cycle = c.cycle
Front(r, c) == r.buf[c.index].trb

(* EventRing::Pop: past the end of the segment the driver starts again and *)
(* expects the other bit.                                                  *)
Pop(c, n) ==
  IF c.index + 1 = n THEN [index |-> 0, cycle |-> ~c.cycle] ELSE [c EXCEPT !.index = @ + 1]

(* The TRB of a handled entry is dead, the cycle bit is not: the model     *)
(* forgets the one and keeps the other.                                    *)
Forget(r, c) == [r EXCEPT !.buf[c.index].trb = Blank]

-----------------------------------------------------------------------------
(* The controller's side.                                                  *)

(* The controller steps to the next entry of a command ring, following a   *)
(* link it finds there.                                                    *)
Consume(r, c) ==
  LET next == [c EXCEPT !.index = @ + 1]
  IN  IF HasFront(r, next) /\ Front(r, next) = LinkTRB
      THEN [index |-> 0, cycle |-> ~c.cycle]
      ELSE next

(* The controller adds an event; the event ring has one segment, no link.  *)
Post(r, n, trb) ==
  LET w == CopyToLast(r, trb)
  IN  IF r.index + 1 = n THEN [w EXCEPT !.index = 0, !.cycle = ~@] ELSE [w EXCEPT !.index = @ + 1]

(* It stops in front of the driver's dequeue pointer.                      *)
HasRoom(r, n, c) == (r.index + 1) % n # c.index

-----------------------------------------------------------------------------
(* What a queue is to a ring in which k entries are used each time round:  *)
(* from the consumer's place on the entries of the queue are new, and the  *)
(* entry after them is not.                                                *)
Shows(r, c, k, queue) ==
  LET At(j) == (c.index + j) % k
      Expected(j) == IF ((c.index + j) \div k) % 2 = 0 THEN c.cycle ELSE ~c.cycle
  IN  /\ c.index < k
      /\ \A j \in 1..Len(queue) : /\ r.buf[At(j - 1)].trb = queue[j]
                                  /\ r.buf[At(j - 1)].cycle = Expected(j - 1)
      /\ Len(queue) < k => r.buf[At(Len(queue))].cycle # Expected(Len(queue))
=============================================================================
