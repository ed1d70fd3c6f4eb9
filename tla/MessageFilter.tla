----------------------------- MODULE MessageFilter -----------------------------
(***************************************************************************)
(* The texts taken for no assignment before the LLM sees them              *)
(* (extractors/non_assignment_detector.py).                                *)
(*                                                                         *)
(* A text is a record: lines (those not empty) and chars; markers, how     *)
(* many of the ten assignment markers it holds; status, redirect and       *)
(* admin, whether a pattern of the kind occurs; apply, ticks and dots, how *)
(* often "apply now", a check mark and a bullet occur.                     *)
(***************************************************************************)
EXTENDS Naturals

VeryShort(t) == t.lines < 3 \/ t.chars < 50

StatusOnly(t) == VeryShort(t) /\ t.markers < 2 /\ t.status

Redirect(t) == VeryShort(t) /\ t.markers < 3 /\ t.redirect

(* A promotion: a list of offers, whatever its markers, or a text with few *)
(* of them.                                                                *)
ListOfOffers(t) == t.apply >= 3 \/ t.ticks >= 3 \/ t.ticks + t.dots >= 5
Administrative(t) == t.admin /\ (ListOfOffers(t) \/ t.markers < 3)

(* The empty text is left to others. *)
NonAssignment(t) ==
    /\ t.chars > 0
    /\ StatusOnly(t) \/ Redirect(t) \/ Administrative(t)
=============================================================================
