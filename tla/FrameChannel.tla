---------------------------- MODULE FrameChannel ----------------------------
(***************************************************************************)
(* What a BindingAdapter's channel promises in one direction (spec.md 3    *)
(* "Frame", 4.3 transmit, 5 Ordering): a frame whose transmit succeeded is *)
(* delivered to the far end's protocol stack whole, in transmit order and  *)
(* at most once.  sent is every frame whose transmit reported success, got *)
(* every unit the far end handed to its stack.  Delivery may lag without   *)
(* bound; nothing here forces it.                                          *)
(***************************************************************************)
EXTENDS Naturals, Sequences

CONSTANT Frames

VARIABLES sent, got

Init ==
  /\ sent = <<>>
  /\ got = <<>>

Transmit(f) ==
  /\ sent' = Append(sent, f)
  /\ UNCHANGED got

Deliver ==
  /\ Len(got) < Len(sent)
  /\ got' = Append(got, sent[Len(got) + 1])
  /\ UNCHANGED sent

Next == (\E f \in Frames : Transmit(f)) \/ Deliver

Spec == Init /\ [][Next]_<<sent, got>>
=============================================================================
